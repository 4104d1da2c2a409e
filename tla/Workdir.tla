------------------------------- MODULE Workdir -------------------------------
(***************************************************************************)
(* One device's checkout: what the references, the index and the files say *)
(* between the steps of a call, and after a call that stopped half way.    *)
(* GitSync treats a commit, a fast-forward, a replayed commit and an edit  *)
(* as one step each; here they are taken apart, because two objects work   *)
(* on the same directory: PassStore writes files                           *)
(* (crates/pass-core/src/store.rs) without any lock, and GitSync commits   *)
(* and syncs (crates/pass-core/src/git.rs) under a mutex of its own.       *)
(***************************************************************************)
EXTENDS GitTree

CONSTANTS MaxEdits,    \* bound: edits made, here or on other devices
          MaxUpsets    \* bound: app kills and failures of the file system

ASSUME WorkdirAssumption == MaxEdits \in Nat /\ MaxUpsets \in Nat

VARIABLES
  server,      \* history of the server's branch
  branch,      \* refs/heads/main
  detached,    \* history at a detached HEAD; <<>> while HEAD is the branch
  index,       \* the staged tree
  unmerged,    \* conflicted paths of the index
  files,       \* the entry files in the directory
  leftover,    \* a temporary file of an interrupted write is still there
  editor,      \* the edit being made: its operation, path, number and progress
  syncer,      \* how far the running sync is
  step,        \* during a rebase: index in branch of the commit to replay
  saved,       \* history variable: versions whose save and commit both returned Ok
  dropped,     \* history variable: versions of this device that answers cost
  overlap,     \* history variable: an edit and a sync ran at the same time
  interrupted, \* history variable: a call was killed or failed half way
  edits, upsets  \* counters

head == <<branch, detached>>
staging == <<index, unmerged>>
store == <<head, staging, files, leftover>>
sync == <<syncer, step>>
history == <<saved, dropped, overlap, interrupted>>
counters == <<edits, upsets>>
vars == <<server, store, editor, sync, history, counters>>

\* A commit has the number of its edit, wherever it was made; the one the store
\* was cloned with is number 0.
Commit == [edit : Nat, tree : Trees]
NoEdit == [at |-> "none", op |-> "save", path |-> <<>>, edit |-> 0]

HeadHistory == IF detached = <<>> THEN branch ELSE detached
HeadTree == TipTree(HeadHistory)

Init ==
  /\ \E S \in SUBSET Paths :
       server = <<[edit |-> 0,
                   tree |-> [p \in Paths |-> IF p \in S THEN <<0, p>> ELSE Absent]]>>
  /\ branch = server
  /\ detached = <<>>
  /\ index = HeadTree
  /\ unmerged = {}
  /\ files = HeadTree
  /\ leftover = FALSE
  /\ editor = NoEdit
  /\ syncer = "idle"
  /\ step = 0
  /\ saved = {} /\ dropped = {}
  /\ overlap = FALSE /\ interrupted = FALSE
  /\ edits = 0 /\ upsets = 0

Upset ==
  /\ upsets < MaxUpsets
  /\ upsets' = upsets + 1

-----------------------------------------------------------------------------
(***************************************************************************)
(* An edit: a PassStore call, then commit_paths of the file it touched.    *)
(***************************************************************************)
StartEdit ==
  /\ editor.at = "none"
  /\ edits < MaxEdits
  /\ edits' = edits + 1
  /\ overlap' = (overlap \/ syncer # "idle")

\* atomic_write: the temporary file is written in the entry's directory ...
BeginSave ==
  /\ StartEdit
  /\ \E p \in Paths :
       editor' = [at |-> "temporary", op |-> "save", path |-> p, edit |-> edits + 1]
  /\ UNCHANGED <<server, store, sync, saved, dropped, interrupted, upsets>>

\* ... and renamed over the entry.
EndSave ==
  /\ editor.at = "temporary"
  /\ files' = [files EXCEPT ![editor.path] = <<editor.edit, editor.path>>]
  /\ editor' = [editor EXCEPT !.at = "written"]
  /\ UNCHANGED <<server, head, staging, leftover, sync, history, counters>>

RemoveEntry ==
  /\ StartEdit
  /\ \E p \in Paths :
       /\ files[p] # Absent
       /\ files' = [files EXCEPT ![p] = Absent]
       /\ editor' = [at |-> "written", op |-> "remove", path |-> p, edit |-> edits + 1]
  /\ UNCHANGED <<server, head, staging, leftover, sync, saved, dropped, interrupted, upsets>>

\* add_path and remove_path: the file as it is now, without its conflict.
Staged == [index EXCEPT ![editor.path] = files[editor.path]]

\* The commit is of the whole index, on whatever HEAD is.
CommitIndex ==
  /\ editor.at = "written"
  /\ unmerged \subseteq {editor.path}
  /\ index' = Staged
  /\ unmerged' = {}
  /\ LET commit == [edit |-> editor.edit, tree |-> Staged]
     IN  IF detached = <<>>
         THEN branch' = Append(branch, commit) /\ UNCHANGED detached
         ELSE detached' = Append(detached, commit) /\ UNCHANGED branch
  /\ saved' = IF editor.op = "save" THEN saved \cup {<<editor.edit, editor.path>>}
              ELSE saved
  /\ editor' = NoEdit
  /\ UNCHANGED <<server, files, leftover, sync, dropped, overlap, interrupted, counters>>

\* Mutant: commit_paths does not wait for a running sync.
CommitWhileSyncing == CommitIndex

\* commit_paths takes the mutex, so it waits for a running sync.
CommitPaths == syncer = "idle" /\ CommitIndex

\* The index is written, but the commit is not: write_tree refuses an index
\* with another conflict, or the disk is full.
CommitFails ==
  /\ editor.at = "written"
  /\ syncer = "idle"
  /\ \/ ~(unmerged \subseteq {editor.path}) /\ UNCHANGED upsets
     \/ Upset
  /\ index' = Staged
  /\ unmerged' = unmerged \ {editor.path}
  /\ editor' = NoEdit
  /\ interrupted' = TRUE
  /\ UNCHANGED <<server, head, files, leftover, sync, saved, dropped, overlap, edits>>

-----------------------------------------------------------------------------
(***************************************************************************)
(* sync, under the mutex.                                                  *)
(***************************************************************************)
\* status().dirty: anything staged, modified, untracked or in conflict.
Dirty ==
  \/ leftover \/ editor.at = "temporary"
  \/ unmerged # {} \/ files # index \/ index # HeadTree

\* A dirty working tree is refused with DirtyWorkdir.
BeginSync ==
  /\ syncer = "idle"
  /\ ~Dirty
  /\ syncer' = "checked"
  /\ overlap' = (overlap \/ editor.at # "none")
  /\ UNCHANGED <<server, store, editor, step, saved, dropped, interrupted, counters>>

\* A detached HEAD has no tracking reference, and sync takes it for up to date.
SyncUpToDate ==
  /\ syncer = "checked"
  /\ detached # <<>> \/ IsAncestor(server, branch)
  /\ syncer' = "idle"
  /\ UNCHANGED <<server, store, editor, step, history, counters>>

\* Fast-forward: the reference moves first, the files follow.
MoveBranch ==
  /\ syncer = "checked"
  /\ detached = <<>>
  /\ IsAncestor(branch, server)
  /\ branch # server
  /\ branch' = server
  /\ syncer' = "moved"
  /\ UNCHANGED <<server, detached, staging, files, leftover, editor, step, history, counters>>

\* Mutant: files that left the tree stay in the directory.
KeepRemovedFiles(tree) ==
  [p \in Paths |-> IF tree[p] # Absent THEN tree[p] ELSE files[p]]

\* checkout_tree with force: tracked files follow the tree whatever they
\* contain, untracked ones stay.  A checkout without force does the same where
\* it does not refuse.
CheckedOut(tree) ==
  [p \in Paths |-> IF tree[p] # Absent THEN tree[p]
                   ELSE IF index[p] # Absent THEN Absent ELSE files[p]]

\* A checkout without force refuses to touch a file that is not as staged, an
\* untracked one included.
InTheWay(tree) ==
  \E p \in Paths : tree[p] # index[p] /\ files[p] \notin {index[p], tree[p]}

\* No tracked file is modified: libgit2 asks this before it opens a rebase and
\* before each of its commits.
Unmodified == \A p \in Paths : index[p] # Absent => files[p] = index[p]

Diverged ==
  /\ detached = <<>>
  /\ ~IsAncestor(server, branch) /\ ~IsAncestor(branch, server)

MayOpen ==
  /\ syncer = "checked"
  /\ Diverged
  /\ index = HeadTree /\ Unmodified /\ ~InTheWay(TipTree(server))

\* Mutant: the first local commit is left out.
SecondLocal == {base + 2 : base \in MergeBases(branch, server)}

\* The first commit to replay lies right above the merge base.
FirstLocal == {base + 1 : base \in MergeBases(branch, server)}

\* Opening the rebase checks out the upstream commit and detaches HEAD at it;
\* the branch keeps the local history until the rebase finishes.
OpenRebase ==
  /\ MayOpen
  /\ step' \in FirstLocal
  /\ detached' = server
  /\ index' = TipTree(server)
  /\ files' = CheckedOut(TipTree(server))
  /\ syncer' = "replaying"
  /\ UNCHANGED <<server, branch, unmerged, leftover, editor, history, counters>>

\* A file written since the check stops the rebase before it changes anything.
RebaseRefused ==
  /\ syncer = "checked"
  /\ Diverged
  /\ ~MayOpen
  /\ syncer' = "idle"
  /\ UNCHANGED <<server, store, editor, step, history, counters>>

-----------------------------------------------------------------------------
(***************************************************************************)
(* rebase_onto's loop, commit by commit.                                   *)
(***************************************************************************)
AncTree == TreeAt(branch, step - 1)
OurTree == TipTree(detached)
TheirTree == TreeAt(branch, step)
Merged == MergedTree(AncTree, OurTree, TheirTree)

ToReplay == syncer = "replaying" /\ step <= Len(branch)
MayApply == ToReplay /\ ~InTheWay(Merged)

\* rebase.next merges the commit into index and directory.
NextCommit ==
  /\ MayApply
  /\ index' = Merged
  /\ unmerged' = Conflicts(AncTree, OurTree, TheirTree)
  /\ files' = CheckedOut(Merged)
  /\ syncer' = "applied"
  /\ UNCHANGED <<server, head, leftover, editor, step, history, counters>>

\* The resolver's answers, while it is asked.  MaxSuffix bounds the names, so
\* KeepBoth is answered only below it.
AnswersNow ==
  {ans \in [unmerged -> ConflictChoice] :
     \A p \in unmerged : ans[p] = "KeepBoth" => p[2] < MaxSuffix}
Asking == syncer = "applied" /\ unmerged # {}

\* What the answers for some of the conflicted paths write.
Touched(ans, S) == S \cup {Sibling(p) : p \in {q \in S : ans[q] = "KeepBoth"}}
AnswersWritten(ans, S) ==
  [p \in Paths |-> IF p \in Touched(ans, S)
                   THEN Written(ans, OurTree, TheirTree, files)[p] ELSE files[p]]
AnswersStaged(ans, S) ==
  [p \in Paths |-> IF p \in Touched(ans, S) THEN AnswersWritten(ans, S)[p] ELSE index[p]]

\* The versions of the commit that the answers cost: the other side was chosen,
\* or the copy of an entry kept beside it was written under their name, or was
\* that copy and its name had an answer of its own.
Dropped(ans) ==
  {TheirTree[p] : p \in {q \in unmerged : \/ ans[q] = "KeepRemote"
                                          \/ ans[q] = "KeepBoth" /\ Sibling(q) \in unmerged}}
  \cup {TheirTree[p] : p \in {q \in Paths : SetAside(ans, q) # {} /\ TheirTree[q] # AncTree[q]}}

\* Every path is answered, written and staged; then the index is written.
Answer ==
  /\ Asking
  /\ \E ans \in AnswersNow :
       /\ ~NothingToStage(ans, OurTree, TheirTree, files)
       /\ files' = AnswersWritten(ans, unmerged)
       /\ index' = AnswersStaged(ans, unmerged)
       /\ dropped' = dropped \cup Dropped(ans)
  /\ unmerged' = {}
  /\ UNCHANGED <<server, head, leftover, editor, sync, saved, overlap, interrupted, counters>>

\* rebase.commit; a commit that would not change the tree is skipped
\* (ErrorCode::Applied).
CommitReplayed ==
  /\ syncer = "applied"
  /\ unmerged = {}
  /\ Unmodified
  /\ detached' = IF index = OurTree THEN detached
                 ELSE Append(detached, [branch[step] EXCEPT !.tree = index])
  /\ step' = step + 1
  /\ syncer' = "replaying"
  /\ UNCHANGED <<server, branch, staging, files, leftover, editor, history, counters>>

\* rebase.finish moves the branch to the replayed tip and reattaches HEAD.
FinishRebase ==
  /\ syncer = "replaying"
  /\ step > Len(branch)
  /\ branch' = detached
  /\ detached' = <<>>
  /\ step' = 0
  /\ syncer' = "rebased"
  /\ UNCHANGED <<server, staging, files, leftover, editor, history, counters>>

\* Mutant: the index is left as it was.
CheckoutFilesOnly ==
  /\ syncer \in {"moved", "rebased"}
  /\ files' = CheckedOut(HeadTree)
  /\ syncer' = "idle"
  /\ UNCHANGED <<server, head, staging, leftover, editor, step, history, counters>>

\* The forced checkout at the end of a fast-forward and of a rebase.
Checkout ==
  /\ syncer \in {"moved", "rebased"}
  /\ files' = CheckedOut(HeadTree)
  /\ index' = HeadTree
  /\ syncer' = "idle"
  /\ UNCHANGED <<server, head, unmerged, leftover, editor, step, history, counters>>

-----------------------------------------------------------------------------
(***************************************************************************)
(* Calls that stop half way.  Nothing is rolled back: the error returns    *)
(* through `?' past the open rebase, and a kill has no code to run.        *)
(***************************************************************************)
SyncStops ==
  /\ syncer' = "idle"
  /\ step' = 0
  /\ interrupted' = TRUE

\* rebase.next finds a file in its way, or rebase.commit a modified one.
ReplayRefused ==
  /\ \/ ToReplay /\ InTheWay(Merged)
     \/ syncer = "applied" /\ unmerged = {} /\ ~Unmodified
  /\ SyncStops
  /\ UNCHANGED <<server, store, editor, saved, dropped, overlap, counters>>

\* An answer has nothing to stage, so that add_path fails.  Some answers were
\* applied before: in the index in memory, which the handle keeps, but not in
\* the one on disk, which the app reads when it is started again.
AnswerFails ==
  /\ Asking
  /\ \E ans \in AnswersNow, done \in SUBSET unmerged :
       /\ NothingToStage(ans, OurTree, TheirTree, files)
       /\ files' = AnswersWritten(ans, done)
       /\ \/ UNCHANGED staging
          \/ /\ index' = AnswersStaged(ans, done)
             /\ unmerged' = unmerged \ done
  /\ SyncStops
  /\ UNCHANGED <<server, head, leftover, editor, saved, dropped, overlap, counters>>

\* A checkout stopped at any file, before it has written the index.
PartOf(tree) ==
  \E done \in SUBSET Paths :
    files' = [p \in Paths |-> IF p \in done THEN CheckedOut(tree)[p] ELSE files[p]]

FilesWhereStopped ==
  \/ UNCHANGED files
  \/ syncer \in {"moved", "rebased"} /\ PartOf(HeadTree)
  \/ MayOpen /\ PartOf(TipTree(server))
  \/ MayApply /\ PartOf(Merged)
  \/ /\ Asking
     /\ \E ans \in AnswersNow, done \in SUBSET unmerged : files' = AnswersWritten(ans, done)

\* A step of a fast-forward or rebase fails: the disk is full, a file is locked.
SyncFails ==
  /\ syncer \notin {"idle", "checked"} \/ MayOpen
  /\ Upset
  /\ FilesWhereStopped
  /\ SyncStops
  /\ UNCHANGED <<server, head, staging, leftover, editor, saved, dropped, overlap, edits>>

\* The app is killed, or the foreign resolver throws.  A temporary file stays; a
\* commit may have staged its file; a finishing rebase may have moved the branch
\* and not yet HEAD.
Crash ==
  /\ editor.at # "none" \/ syncer # "idle"
  /\ Upset
  /\ leftover' = (leftover \/ editor.at = "temporary")
  /\ FilesWhereStopped
  /\ \/ UNCHANGED staging
     \/ /\ editor.at = "written" /\ syncer = "idle"
        /\ index' = Staged /\ unmerged' = unmerged \ {editor.path}
  /\ \/ UNCHANGED branch
     \/ syncer = "replaying" /\ step > Len(branch) /\ branch' = detached
  /\ editor' = NoEdit
  /\ SyncStops
  /\ UNCHANGED <<server, detached, saved, dropped, overlap, edits>>

-----------------------------------------------------------------------------
\* push, in one step; its parts are in GitSync.  A detached HEAD is refused.
Push ==
  /\ syncer = "idle"
  /\ detached = <<>>
  /\ IsAncestor(server, branch)
  /\ branch # server
  /\ server' = branch
  /\ UNCHANGED <<store, editor, sync, history, counters>>

\* Another device pushes a save or a removal.
OtherPushes ==
  /\ edits < MaxEdits
  /\ \E p \in Paths :
       LET t == TipTree(server)
       IN  \E content \in {<<edits + 1, p>>, Absent} \ {t[p]} :
             server' = Append(server, [edit |-> edits + 1,
                                       tree |-> [t EXCEPT ![p] = content]])
  /\ edits' = edits + 1
  /\ UNCHANGED <<store, editor, sync, history, upsets>>

Edit == BeginSave \/ EndSave \/ RemoveEntry \/ CommitPaths
Sync ==
  \/ BeginSync \/ SyncUpToDate \/ MoveBranch \/ Checkout
  \/ OpenRebase \/ RebaseRefused \/ NextCommit \/ Answer \/ CommitReplayed \/ FinishRebase
Stop == CommitFails \/ ReplayRefused \/ AnswerFails \/ SyncFails \/ Crash

Next == Edit \/ Sync \/ Stop \/ Push \/ OtherPushes

Spec == Init /\ [][Next]_vars

-----------------------------------------------------------------------------
(***************************************************************************)
(* Properties.                                                             *)
(***************************************************************************)
Replaying == syncer \in {"replaying", "applied"}

\* What a sync keeps in memory agrees with the repository: a commit to replay
\* exactly while a rebase runs, and on a detached HEAD; nobody moves the branch
\* of a sync that has yet to check it out; only a rebase leaves conflicts.
CallState ==
  /\ Replaying <=> step # 0
  /\ Replaying => detached # <<>> /\ step <= Len(branch) + 1
  /\ syncer = "applied" => step <= Len(branch)
  /\ syncer \in {"moved", "rebased"} => detached = <<>>
  /\ syncer = "moved" => IsAncestor(branch, server)
  /\ unmerged # {} => detached # <<>> /\ syncer \in {"idle", "applied"}
  /\ editor.at # "none" => editor.path \in Paths

Typed ==
  /\ server \in Seq(Commit)
  /\ branch \in Seq(Commit) /\ branch # <<>>
  /\ detached \in Seq(Commit)
  /\ index \in Trees
  /\ unmerged \subseteq Paths
  /\ files \in Trees
  /\ leftover \in BOOLEAN
  /\ editor \in [at : {"none", "temporary", "written"}, op : {"save", "remove"},
                 path : Paths \cup {<<>>}, edit : Nat]
  /\ syncer \in {"idle", "checked", "moved", "replaying", "applied", "rebased"}
  /\ step \in Nat
  /\ saved \subseteq BlobIds
  /\ dropped \subseteq BlobIds \cup {Absent}
  /\ overlap \in BOOLEAN /\ interrupted \in BOOLEAN
  /\ edits \in Nat /\ upsets \in Nat

\* Every variable has its type, and every end of a sync clears what it kept.
TypeOK == Typed /\ CallState

HistoryBlobs(h) == UNION {Blobs(h[i].tree) : i \in 1..Len(h)}

\* The branch, and HEAD where a rebase that stopped has left it.
Kept == HistoryBlobs(branch) \cup HistoryBlobs(detached) \cup dropped

\* A version whose save and commit both returned Ok stays in the history of the
\* branch or, when a rebase stopped half way, of the detached HEAD, unless an
\* answer to the resolver cost that very version: the other side was chosen, or
\* keeping both of another entry took its name.  So no fast-forward, replay,
\* error return or kill loses it, as long as the app keeps edits and syncs apart.
SavedSurvives == ~overlap => saved \subseteq Kept

OnlyItsPaths ==
  \A p \in Paths :
    editor.at = "written" /\ editor'.at = "none" /\ p # editor.path
    => TipTree(HeadHistory')[p] = HeadTree[p]

\* commit_paths: a commit changes the path it was given and no other, however
\* edits and syncs interleave, as long as no call was killed or failed half way.
CommitsOnlyItsPaths == [][~interrupted => OnlyItsPaths]_vars

\* Between calls HEAD is the branch and the working tree is clean, so that the
\* next sync is not refused and not taken for up to date, as long as no edit
\* overlaps a sync and no call is killed or returns an error half way.  (A sync
\* does so without any fault of the system when both sides are to be kept of an
\* entry this device removed.)
CleanBetweenCalls ==
  editor.at = "none" /\ syncer = "idle" /\ ~overlap /\ ~interrupted
  => ~Dirty /\ detached = <<>>

\* Two statements of comments that the code does not keep (doc_mutex.cfg,
\* doc_commit_paths.cfg).

\* store_api.rs, GitSync: its mutex makes it safe to hold alongside PassStore,
\* so a save that was committed survives overlapping syncs too.
SafeAlongside == saved \subseteq Kept

\* git.rs, commit_paths: stage the given paths and commit; after a kill too.
StagesGivenPaths == [][OnlyItsPaths]_vars
=============================================================================

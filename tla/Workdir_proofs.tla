---------------------------- MODULE Workdir_proofs ----------------------------
(***************************************************************************)
(* Theorems about Workdir for every value of its constants: its types,     *)
(* that a saved version survives unless an answer costs it, that a commit  *)
(* is of its path, and that the working tree is clean between calls.       *)
(***************************************************************************)
EXTENDS Workdir, GitTree_proofs, SequenceTheorems

(***************************************************************************)
(* Histories.                                                              *)
(***************************************************************************)
\* The trees of a well-formed history, the empty one before its first commit
\* included.
LEMMA HistoryTrees ==
  ASSUME NEW h \in Seq(Commit)
  PROVE  /\ \A i \in 0..Len(h) : TreeAt(h, i) \in Trees
         /\ \A i \in 1..Len(h) : h[i].tree \in Trees
         /\ TipTree(h) \in Trees
<1>1. \A i \in 1..Len(h) : h[i] \in Commit
  OBVIOUS
<1>2. \A c \in Commit : c.tree \in Trees
  BY DEF Commit
<1> QED BY <1>1, <1>2, TreeTypes DEF TreeAt, TipTree

\* A version is in a history where some commit has it.
LEMMA InHistory ==
  ASSUME NEW h \in Seq(Commit), NEW b
  PROVE  b \in HistoryBlobs(h) <=>
           b # Absent /\ \E i \in 1..Len(h), p \in Paths : h[i].tree[p] = b
BY DEF HistoryBlobs, Blobs

\* A longer history has every version of a shorter one.
LEMMA HistoryGrows ==
  ASSUME NEW h \in Seq(Commit), NEW g \in Seq(Commit), IsAncestor(h, g)
  PROVE  HistoryBlobs(h) \subseteq HistoryBlobs(g)
<1> SUFFICES ASSUME NEW b \in HistoryBlobs(h)
             PROVE  b \in HistoryBlobs(g)
  OBVIOUS
<1>1. b # Absent /\ \E i \in 1..Len(h), p \in Paths : h[i].tree[p] = b
  BY InHistory
<1>2. \A i \in 1..Len(h) : i \in 1..Len(g) /\ h[i] = g[i]
  BY DEF IsAncestor
<1> QED BY <1>1, <1>2, InHistory

\* What is committed is on top, and in the history under its path.
LEMMA CommitIsInHistory ==
  ASSUME NEW h \in Seq(Commit), NEW c \in Commit
  PROVE  /\ Append(h, c) \in Seq(Commit) /\ Append(h, c) # <<>>
         /\ TipTree(Append(h, c)) = c.tree
         /\ HistoryBlobs(h) \subseteq HistoryBlobs(Append(h, c))
         /\ Blobs(c.tree) \subseteq HistoryBlobs(Append(h, c))
<1>1. /\ Append(h, c) \in Seq(Commit) /\ Len(Append(h, c)) = Len(h) + 1
      /\ Append(h, c)[Len(h) + 1] = c /\ Len(h) + 1 # 0
  OBVIOUS
<1>2. IsAncestor(h, Append(h, c))
  BY AncestorAppend, AncestorReflexive
<1>3. HistoryBlobs(h) \subseteq HistoryBlobs(Append(h, c))
  BY <1>1, <1>2, HistoryGrows
<1>4. Len(h) + 1 \in 1..Len(Append(h, c))
  BY <1>1
<1>5. Blobs(c.tree) \subseteq HistoryBlobs(Append(h, c))
  BY <1>1, <1>4 DEF HistoryBlobs
<1>6. TipTree(Append(h, c)) = c.tree
  BY <1>1 DEF TipTree, TreeAt
<1> QED BY <1>1, <1>3, <1>5, <1>6

\* The tip of a history is one of its trees.
LEMMA TipInHistory ==
  ASSUME NEW h \in Seq(Commit)
  PROVE  Blobs(TipTree(h)) \subseteq HistoryBlobs(h)
<1>1. CASE Len(h) = 0
  BY <1>1 DEF TipTree, TreeAt, EmptyTree, Blobs
<1>2. CASE Len(h) # 0
  <2>1. Len(h) \in 1..Len(h)
    BY <1>2
  <2> QED BY <1>2, <2>1 DEF TipTree, TreeAt, HistoryBlobs
<1> QED BY <1>1, <1>2

(***************************************************************************)
(* The trees at hand.                                                      *)
(***************************************************************************)
\* A checkout leaves a tree, wherever it stops.
LEMMA CheckoutType ==
  ASSUME TypeOK, NEW tree \in Trees
  PROVE  /\ CheckedOut(tree) \in Trees
         /\ PartOf(tree) => files' \in Trees
<1>1. CheckedOut(tree) \in Trees
  BY DEF CheckedOut, TypeOK, Typed, Trees
<1>2. ASSUME PartOf(tree)
      PROVE  files' \in Trees
  <2> HIDE DEF CheckedOut
  <2> QED BY <1>1, <1>2 DEF PartOf, TypeOK, Typed, Trees
<1> QED BY <1>1, <1>2

\* What HEAD is, and its tree.
LEMMA HeadType ==
  ASSUME TypeOK
  PROVE  /\ HeadHistory \in Seq(Commit) /\ HeadTree \in Trees
         /\ TipTree(server) \in Trees
BY HistoryTrees DEF HeadHistory, HeadTree, TypeOK, Typed

\* The three sides of the commit to replay.
LEMMA ReplayTypes ==
  ASSUME TypeOK, Replaying, step <= Len(branch)
  PROVE  /\ AncTree \in Trees /\ OurTree \in Trees /\ TheirTree \in Trees
         /\ Merged \in Trees
         /\ Conflicts(AncTree, OurTree, TheirTree) \subseteq Paths
<1>1. step \in 1..Len(branch) /\ step - 1 \in 0..Len(branch) /\ step \in 0..Len(branch)
  BY DEF TypeOK, Typed, CallState
<1>2. AncTree \in Trees /\ OurTree \in Trees /\ TheirTree \in Trees
  BY <1>1, HistoryTrees DEF AncTree, OurTree, TheirTree, TypeOK, Typed
<1> QED BY <1>2, MergedTreeType, ConflictsType DEF Merged

\* What answers write and stage are trees, whichever of them were applied, and
\* they drop nothing but versions of the replayed commit.
LEMMA AnswerTypes ==
  ASSUME TypeOK, Asking, NEW ans \in AnswersNow, NEW S \in SUBSET unmerged
  PROVE  /\ AnswersWritten(ans, S) \in Trees /\ AnswersStaged(ans, S) \in Trees
         /\ Dropped(ans) \subseteq BlobIds \cup {Absent}
<1>1. OurTree \in Trees /\ TheirTree \in Trees
  BY ReplayTypes DEF Asking, Replaying, TypeOK, CallState
<1>2. DOMAIN ans \subseteq Paths /\ files \in Trees /\ index \in Trees /\ unmerged \subseteq Paths
  BY DEF AnswersNow, TypeOK, Typed
<1> DEFINE w == Written(ans, OurTree, TheirTree, files)
<1>3. w \in Trees
  BY <1>1, <1>2, WrittenType
<1> HIDE DEF w
<1>4. AnswersWritten(ans, S) \in Trees
  BY <1>2, <1>3 DEF AnswersWritten, Trees, w
<1>5. AnswersStaged(ans, S) \in Trees
  <2> HIDE DEF AnswersWritten
  <2> QED BY <1>2, <1>4 DEF AnswersStaged, Trees
<1>6. Dropped(ans) \subseteq BlobIds \cup {Absent}
  BY <1>1, <1>2 DEF Dropped, Trees
<1> QED BY <1>4, <1>5, <1>6

\* What commit_paths stages is a tree, and of the path it was given.
LEMMA StagedType ==
  ASSUME TypeOK, editor.at = "written"
  PROVE  /\ Staged \in Trees /\ editor.path \in Paths /\ Staged[editor.path] = files[editor.path]
         /\ \A p \in Paths : p # editor.path => Staged[p] = index[p]
BY DEF Staged, TypeOK, Typed, CallState, Trees

\* Where a call stopped, the directory still holds a tree.
LEMMA StoppedType ==
  ASSUME TypeOK, FilesWhereStopped
  PROVE  files' \in Trees
<1>1. HeadTree \in Trees /\ TipTree(server) \in Trees
  BY HeadType
<1>2. MayApply => Merged \in Trees
  BY ReplayTypes DEF MayApply, ToReplay, Replaying
<1>3. CASE UNCHANGED files
  BY <1>3 DEF TypeOK, Typed
<1>4. CASE PartOf(HeadTree) \/ PartOf(TipTree(server)) \/ (MayApply /\ PartOf(Merged))
  BY <1>1, <1>2, <1>4, CheckoutType
<1>5. CASE Asking /\ \E ans \in AnswersNow, done \in SUBSET unmerged : files' = AnswersWritten(ans, done)
  BY <1>5, AnswerTypes
<1> QED BY <1>3, <1>4, <1>5 DEF FilesWhereStopped

(***************************************************************************)
(* Types.                                                                  *)
(***************************************************************************)
\* A commit of commit_paths is a commit of the staged tree, put on HEAD.
LEMMA CommitShape ==
  ASSUME TypeOK, CommitPaths
  PROVE  \E c \in Commit :
           /\ c.tree = Staged /\ index' = Staged
           /\ HeadHistory' = Append(HeadHistory, c)
           /\ IF detached = <<>> THEN branch' = Append(branch, c) /\ detached' = detached
              ELSE detached' = Append(detached, c) /\ branch' = branch
<1> DEFINE c == [edit |-> editor.edit, tree |-> Staged]
<1>1. c \in Commit /\ c.tree = Staged
  BY StagedType DEF CommitPaths, CommitIndex, Commit, TypeOK, Typed
<1>2. /\ index' = Staged
      /\ IF detached = <<>> THEN branch' = Append(branch, c) /\ detached' = detached
         ELSE detached' = Append(detached, c) /\ branch' = branch
  BY DEF CommitPaths, CommitIndex
<1> HIDE DEF c
<1>3. Append(detached, c) # <<>>
  BY <1>1, CommitIsInHistory DEF TypeOK, Typed
<1> QED BY <1>1, <1>2, <1>3 DEF HeadHistory

LEMMA EditKeepsType == TypeOK /\ Edit => TypeOK'
<1> SUFFICES ASSUME TypeOK, Edit
             PROVE  TypeOK'
  OBVIOUS
<1>1. CASE BeginSave
  BY <1>1 DEF BeginSave, StartEdit, TypeOK, Typed, CallState, Replaying, store, head, staging, sync
<1>2. CASE EndSave
  <2>1. <<editor.edit, editor.path>> \in BlobIds /\ editor.path \in Paths
    BY <1>2 DEF EndSave, TypeOK, Typed, CallState, BlobIds
  <2>2. files' \in Trees
    BY <1>2, <2>1 DEF EndSave, TypeOK, Typed, Trees
  <2> QED BY <1>2, <2>1, <2>2 DEF EndSave, TypeOK, Typed, CallState, Replaying, head, staging,
             sync, history, counters
<1>3. CASE RemoveEntry
  <2>1. files' \in Trees
    BY <1>3 DEF RemoveEntry, TypeOK, Typed, Trees
  <2> QED BY <1>3, <2>1 DEF RemoveEntry, StartEdit, TypeOK, Typed, CallState, Replaying, head,
             staging, sync
<1>4. CASE CommitPaths
  <2>1. PICK c \in Commit :
          /\ index' = Staged
          /\ IF detached = <<>> THEN branch' = Append(branch, c) /\ detached' = detached
             ELSE detached' = Append(detached, c) /\ branch' = branch
    BY <1>4, CommitShape
  <2>2. /\ branch' \in Seq(Commit) /\ branch' # <<>> /\ detached' \in Seq(Commit)
        /\ detached = <<>> => detached' = <<>>
    BY <2>1, CommitIsInHistory DEF TypeOK, Typed
  <2>3. editor.at = "written" /\ editor.path \in Paths /\ editor.edit \in Nat /\ syncer = "idle"
    BY <1>4 DEF CommitPaths, CommitIndex, TypeOK, Typed, CallState
  <2>4. index' \in Trees /\ saved' \subseteq BlobIds
    BY <1>4, <2>1, <2>3, StagedType DEF CommitPaths, CommitIndex, TypeOK, Typed, BlobIds
  <2>5. /\ unmerged' = {} /\ editor' = NoEdit
        /\ UNCHANGED <<server, files, leftover, sync, dropped, overlap, interrupted, counters>>
    BY <1>4 DEF CommitPaths, CommitIndex
  <2> QED BY <2>2, <2>3, <2>4, <2>5 DEF TypeOK, Typed, CallState, Replaying, NoEdit, sync, counters
<1> QED BY <1>1, <1>2, <1>3, <1>4 DEF Edit

LEMMA SyncKeepsType == TypeOK /\ Sync => TypeOK'
<1> SUFFICES ASSUME TypeOK, Sync
             PROVE  TypeOK'
  OBVIOUS
<1>1. CASE BeginSync \/ SyncUpToDate \/ RebaseRefused
  BY <1>1 DEF BeginSync, SyncUpToDate, RebaseRefused, Dirty, TypeOK, Typed, CallState, Replaying,
     store, head, staging, history, counters
<1>2. CASE MoveBranch
  <2>1. server # <<>>
    BY <1>2 DEF MoveBranch, IsAncestor, TypeOK, Typed
  <2>2. IsAncestor(server, server)
    BY AncestorReflexive DEF TypeOK, Typed
  <2> QED BY <1>2, <2>1, <2>2 DEF MoveBranch, TypeOK, Typed, CallState, Replaying, staging,
             history, counters
<1>3. CASE Checkout
  <2>1. HeadTree \in Trees
    BY HeadType
  <2>2. CheckedOut(HeadTree) \in Trees
    BY <2>1, CheckoutType
  <2> QED BY <1>3, <2>1, <2>2 DEF Checkout, TypeOK, Typed, CallState, Replaying, head, history,
             counters
<1>4. CASE OpenRebase
  <2>1. PICK base \in MergeBases(branch, server) : step' = base + 1
    BY <1>4 DEF OpenRebase, FirstLocal
  <2>2. base \in Nat /\ base <= Len(branch)
    BY <2>1 DEF MergeBases, TypeOK, Typed
  <2>3. TipTree(server) \in Trees /\ CheckedOut(TipTree(server)) \in Trees
    BY HeadType, CheckoutType
  <2>4. server # <<>>
    BY <1>4 DEF OpenRebase, MayOpen, Diverged, IsAncestor, TypeOK, Typed
  <2>5. unmerged = {}
    BY <1>4 DEF OpenRebase, MayOpen, TypeOK, CallState
  <2> QED BY <1>4, <2>1, <2>2, <2>3, <2>4, <2>5 DEF OpenRebase, TypeOK, Typed, CallState,
             Replaying, history, counters
<1>5. CASE NextCommit
  <2>1. Merged \in Trees /\ Conflicts(AncTree, OurTree, TheirTree) \subseteq Paths
    BY <1>5, ReplayTypes DEF NextCommit, MayApply, ToReplay, Replaying
  <2>2. CheckedOut(Merged) \in Trees
    BY <2>1, CheckoutType
  <2> QED BY <1>5, <2>1, <2>2 DEF NextCommit, MayApply, ToReplay, TypeOK, Typed, CallState,
             Replaying, head, history, counters
<1>6. CASE Answer
  <2>1. PICK ans \in AnswersNow :
          /\ files' = AnswersWritten(ans, unmerged)
          /\ index' = AnswersStaged(ans, unmerged)
          /\ dropped' = dropped \cup Dropped(ans)
    BY <1>6 DEF Answer
  <2>2. files' \in Trees /\ index' \in Trees /\ dropped' \subseteq BlobIds \cup {Absent}
    BY <1>6, <2>1, AnswerTypes DEF Answer, TypeOK, Typed
  <2> QED BY <1>6, <2>2 DEF Answer, Asking, TypeOK, Typed, CallState, Replaying, head, sync,
             counters
<1>7. CASE CommitReplayed
  <2>1. step \in 1..Len(branch)
    BY <1>7 DEF CommitReplayed, TypeOK, Typed, CallState, Replaying
  <2>2. branch[step] \in Commit
    BY <2>1 DEF TypeOK, Typed
  <2> DEFINE c == [branch[step] EXCEPT !.tree = index]
  <2>3. c \in Commit
    BY <2>2 DEF Commit, TypeOK, Typed
  <2> HIDE DEF c
  <2>4. detached' = IF index = OurTree THEN detached ELSE Append(detached, c)
    BY <1>7 DEF CommitReplayed, c
  <2>5. detached' \in Seq(Commit) /\ detached' # <<>>
    BY <1>7, <2>3, <2>4, CommitIsInHistory DEF CommitReplayed, TypeOK, Typed, CallState, Replaying
  <2> QED BY <1>7, <2>1, <2>5 DEF CommitReplayed, TypeOK, Typed, CallState, Replaying, staging,
             history, counters
<1>8. CASE FinishRebase
  BY <1>8 DEF FinishRebase, TypeOK, Typed, CallState, Replaying, staging, history, counters
<1> QED BY <1>1, <1>2, <1>3, <1>4, <1>5, <1>6, <1>7, <1>8 DEF Sync

LEMMA StopKeepsType == TypeOK /\ Stop => TypeOK'
<1> SUFFICES ASSUME TypeOK, Stop
             PROVE  TypeOK'
  OBVIOUS
<1>1. CASE CommitFails
  <2>1. index' \in Trees
    BY <1>1, StagedType DEF CommitFails
  <2>2. upsets' \in Nat
    BY <1>1 DEF CommitFails, Upset, TypeOK, Typed
  <2> QED BY <1>1, <2>1, <2>2 DEF CommitFails, NoEdit, TypeOK, Typed, CallState, Replaying, head, sync
<1>2. CASE ReplayRefused
  BY <1>2 DEF ReplayRefused, ToReplay, SyncStops, TypeOK, Typed, CallState, Replaying, store, head,
     staging, counters
<1>3. CASE AnswerFails
  <2>1. PICK ans \in AnswersNow, done \in SUBSET unmerged :
          /\ files' = AnswersWritten(ans, done)
          /\ \/ UNCHANGED staging
             \/ index' = AnswersStaged(ans, done) /\ unmerged' = unmerged \ done
    BY <1>3 DEF AnswerFails
  <2>2. files' \in Trees /\ index' \in Trees /\ unmerged' \subseteq unmerged
    BY <1>3, <2>1, AnswerTypes DEF AnswerFails, TypeOK, Typed, staging
  <2> QED BY <1>3, <2>2 DEF AnswerFails, Asking, SyncStops, TypeOK, Typed, CallState, Replaying,
             head, counters
<1>4. CASE SyncFails
  <2>1. files' \in Trees /\ upsets' \in Nat
    BY <1>4, StoppedType DEF SyncFails, Upset, TypeOK, Typed
  <2> QED BY <1>4, <2>1 DEF SyncFails, SyncStops, TypeOK, Typed, CallState, Replaying, head, staging
<1>5. CASE Crash
  <2>1. files' \in Trees /\ upsets' \in Nat
    BY <1>5, StoppedType DEF Crash, Upset, TypeOK, Typed
  <2>2. index' \in Trees /\ unmerged' \subseteq unmerged
    BY <1>5, StagedType DEF Crash, TypeOK, Typed, staging
  <2>3. branch' \in Seq(Commit) /\ branch' # <<>>
    BY <1>5 DEF Crash, TypeOK, Typed, CallState, Replaying
  <2> QED BY <1>5, <2>1, <2>2, <2>3 DEF Crash, SyncStops, NoEdit, TypeOK, Typed, CallState,
             Replaying
<1> QED BY <1>1, <1>2, <1>3, <1>4, <1>5 DEF Stop

LEMMA OthersKeepType == TypeOK /\ (Push \/ OtherPushes) => TypeOK'
<1> SUFFICES ASSUME TypeOK, Push \/ OtherPushes
             PROVE  TypeOK'
  OBVIOUS
<1>1. CASE Push
  BY <1>1 DEF Push, TypeOK, Typed, CallState, Replaying, store, head, staging, sync, history,
     counters
<1>2. CASE OtherPushes
  <2> DEFINE n == edits + 1
             t == TipTree(server)
  <2>0. PICK p \in Paths : \E content \in {<<n, p>>, Absent} :
          server' = Append(server, [edit |-> n, tree |-> [t EXCEPT ![p] = content]])
    BY <1>2 DEF OtherPushes
  <2>1. PICK content \in {<<n, p>>, Absent} :
          server' = Append(server, [edit |-> n, tree |-> [t EXCEPT ![p] = content]])
    BY <2>0
  <2>2. n \in Nat /\ t \in Trees
    BY HeadType DEF TypeOK, Typed
  <2> DEFINE u == [t EXCEPT ![p] = content]
             c == [edit |-> n, tree |-> u]
  <2>3. content \in BlobIds \cup {Absent}
    BY <2>1, <2>2 DEF BlobIds
  <2> HIDE DEF t, n
  <2>4. u \in Trees
    BY <2>2, <2>3, TreeTypes
  <2> HIDE DEF u
  <2>5. c \in Commit
    BY <2>2, <2>4 DEF Commit
  <2> HIDE DEF c
  <2>6. server' = Append(server, c)
    BY <2>1 DEF c, u
  <2>7. server' \in Seq(Commit) /\ (IsAncestor(branch, server) => IsAncestor(branch, server'))
    BY <2>5, <2>6, AncestorAppend DEF TypeOK, Typed
  <2> QED BY <1>2, <2>7 DEF OtherPushes, TypeOK, Typed, CallState, Replaying, store, head, staging,
             sync, history
<1> QED BY <1>1, <1>2

LEMMA StepKeepsType == TypeOK /\ [Next]_vars => TypeOK'
<1>1. TypeOK /\ UNCHANGED vars => TypeOK'
  BY DEF vars, store, head, staging, sync, history, counters, TypeOK, Typed, CallState, Replaying
<1> QED BY <1>1, EditKeepsType, SyncKeepsType, StopKeepsType, OthersKeepType DEF Next

LEMMA InitHasType == Init => TypeOK
<1> SUFFICES ASSUME Init
             PROVE  TypeOK
  OBVIOUS
<1>1. PICK S \in SUBSET Paths :
        server = <<[edit |-> 0, tree |-> [p \in Paths |-> IF p \in S THEN <<0, p>> ELSE Absent]]>>
  BY DEF Init
<1> DEFINE t == [p \in Paths |-> IF p \in S THEN <<0, p>> ELSE Absent]
           c == [edit |-> 0, tree |-> t]
<1>2. t \in Trees
  BY DEF Trees, BlobIds
<1> HIDE DEF t
<1>3. c \in Commit
  BY <1>2 DEF Commit
<1> HIDE DEF c
<1>4. server \in Seq(Commit) /\ server # <<>>
  BY <1>1, <1>3 DEF c, t
<1>5. branch = server /\ HeadTree \in Trees
  BY <1>4, HistoryTrees DEF Init, HeadTree, HeadHistory
<1>6. detached \in Seq(Commit)
  <2>1. <<>> \in Seq(Commit)
    OBVIOUS
  <2> QED BY <2>1 DEF Init
<1>7. editor = NoEdit /\ syncer = "idle" /\ step = 0 /\ unmerged = {}
  BY DEF Init
<1>8. Typed
  <2>1. index \in Trees /\ files \in Trees
    BY <1>5 DEF Init
  <2>2. editor \in [at : {"none", "temporary", "written"}, op : {"save", "remove"},
                    path : Paths \cup {<<>>}, edit : Nat]
    BY <1>7 DEF NoEdit
  <2>3. /\ leftover = FALSE /\ saved = {} /\ dropped = {} /\ overlap = FALSE
        /\ interrupted = FALSE /\ edits = 0 /\ upsets = 0
    BY DEF Init
  <2> QED BY <1>4, <1>5, <1>6, <1>7, <2>1, <2>2, <2>3 DEF Typed
<1>9. CallState
  BY <1>7 DEF CallState, Replaying, NoEdit
<1> QED BY <1>8, <1>9 DEF TypeOK

\* Every variable has its type, and every end of a sync, an error or a kill
\* included, clears what the sync kept, for any store and any number of edits,
\* pushes and failures.
THEOREM TypeCorrect == Spec => []TypeOK
BY InitHasType, StepKeepsType, PTL DEF Spec

(***************************************************************************)
(* Saved versions survive.                                                 *)
(*                                                                         *)
(* Three facts make this inductive.  While the app keeps edits and syncs   *)
(* apart, nothing touches the file between the write of an edit and its    *)
(* commit, so that the commit stages the version that was saved.  What a   *)
(* rebase has replayed is at the detached HEAD, or an answer cost it.  And *)
(* the same holds of the commit being replayed once its answers are in.    *)
(***************************************************************************)
Apart == ~overlap => editor.at = "none" \/ syncer = "idle"

FileIsEdit ==
  ~overlap /\ editor.at = "written" /\ editor.op = "save" =>
    files[editor.path] = <<editor.edit, editor.path>>

MergeStaged ==
  Asking => unmerged = Conflicts(AncTree, OurTree, TheirTree) /\ index = Merged

AnswersIn ==
  syncer = "applied" /\ unmerged = {} =>
    \A p \in Paths :
      TheirTree[p] \notin {Absent, AncTree[p]} => TheirTree[p] \in Blobs(index) \cup dropped

\* The commits below the one to replay have their versions in h, or answers
\* cost them.
CarriedTo(h) ==
  \A i \in 1..(step - 1) : Blobs(branch[i].tree) \subseteq HistoryBlobs(h) \cup dropped
Carried == Replaying => CarriedTo(detached)

Surviving == Apart /\ FileIsEdit /\ MergeStaged /\ AnswersIn /\ Carried /\ SavedSurvives

\* The answers leave every version of the replayed commit in the staged tree,
\* except those they cost.
LEMMA AnswerKeeps ==
  ASSUME TypeOK, Asking, MergeStaged, NEW ans \in AnswersNow,
         NEW p \in Paths, TheirTree[p] \notin {Absent, AncTree[p]}
  PROVE  TheirTree[p] \in Dropped(ans) \cup Blobs(AnswersStaged(ans, unmerged))
<1> DEFINE t == AnswersStaged(ans, unmerged)
           w == Written(ans, OurTree, TheirTree, files)
<1>1. /\ AncTree \in Trees /\ OurTree \in Trees /\ TheirTree \in Trees
      /\ unmerged = Conflicts(AncTree, OurTree, TheirTree) /\ index = Merged /\ unmerged \subseteq Paths
  BY ReplayTypes DEF Asking, MergeStaged, Replaying, TypeOK, Typed, CallState
<1>2. DOMAIN ans = unmerged /\ \A q \in unmerged : ans[q] \in ConflictChoice
  BY DEF AnswersNow
<1>3. \A q \in Paths : q \notin DOMAIN ans /\ SetAside(ans, q) = {} => t[q] = index[q]
  BY <1>2 DEF AnswersStaged, Touched, SetAside
<1>4. \A q \in Paths : q \in unmerged => t[q] = w[q]
  BY DEF AnswersStaged, AnswersWritten, Touched
<1>5. ASSUME SetAside(ans, p) # {}
      PROVE  TheirTree[p] \in Dropped(ans)
  BY <1>5 DEF Dropped
<1>6. CASE p \notin unmerged /\ SetAside(ans, p) = {}
  <2>1. Merged[p] = TheirTree[p]
    BY <1>1, <1>6, MergeKeepsVersion DEF Merged
  <2>2. t[p] = TheirTree[p]
    BY <1>1, <1>2, <1>3, <1>6, <2>1
  <2> HIDE DEF t
  <2>3. TheirTree[p] \in Blobs(t)
    BY <2>2 DEF Blobs
  <2> QED BY <2>3 DEF t
<1>7. CASE p \in unmerged /\ SetAside(ans, p) = {} /\ ans[p] = "KeepLocal"
  <2>1. \A c : OwnAnswer(ans, OurTree, TheirTree, p, c) = TheirTree[p]
    BY <1>2, <1>7 DEF OwnAnswer, WriteBlob
  <2>2. \A c : SiblingCopy(ans, TheirTree, p, c) = c
    BY <1>7 DEF SiblingCopy
  <2>3. w[p] = TheirTree[p]
    BY <2>1, <2>2 DEF Written
  <2> HIDE DEF t, w
  <2>4. TheirTree[p] \in Blobs(t)
    BY <1>4, <1>7, <2>3 DEF Blobs
  <2> QED BY <2>4 DEF t
<1>8. CASE p \in unmerged /\ ans[p] = "KeepRemote"
  BY <1>8 DEF Dropped
<1>9. CASE p \in unmerged /\ ans[p] = "KeepBoth" /\ Sibling(p) \in unmerged
  BY <1>9 DEF Dropped
<1>10. CASE p \in unmerged /\ ans[p] = "KeepBoth" /\ Sibling(p) \notin unmerged
  <2> DEFINE s == Sibling(p)
  <2>1. SetAside(ans, s) = {p}
    BY <1>1, <1>2, <1>10, SiblingIsOf
  <2>2. s \in Paths
    <3>1. p[1] \in Names /\ p[2] \in 0..MaxSuffix /\ p[2] < MaxSuffix /\ MaxSuffix \in Nat
      BY <1>10, TreeAssumption DEF AnswersNow, Paths
    <3>2. p[2] + 1 \in 0..MaxSuffix
      BY <3>1
    <3> QED BY <3>1, <3>2 DEF Sibling, Paths
  <2>3. \A c : OwnAnswer(ans, OurTree, TheirTree, s, c) = c
    BY <1>2, <1>10 DEF OwnAnswer
  <2>4. \A c : SiblingCopy(ans, TheirTree, s, c) = TheirTree[p]
    <3>1. (CHOOSE r \in {p} : TRUE) = p
      OBVIOUS
    <3> HIDE DEF s
    <3> QED BY <2>1, <3>1 DEF SiblingCopy, WriteBlob
  <2>5. t[s] = w[s]
    BY <1>10, <2>2 DEF AnswersStaged, AnswersWritten, Touched
  <2> HIDE DEF s, t
  <2>6. w[s] = TheirTree[p]
    BY <2>2, <2>3, <2>4 DEF Written
  <2> HIDE DEF w
  <2>7. TheirTree[p] \in Blobs(t)
    BY <2>2, <2>5, <2>6 DEF Blobs
  <2> QED BY <2>7 DEF t
<1> QED BY <1>2, <1>5, <1>6, <1>7, <1>8, <1>9, <1>10 DEF ConflictChoice

\* A commit that merged without conflicts has its versions staged.
LEMMA MergeKeeps ==
  ASSUME TypeOK, MayApply, Conflicts(AncTree, OurTree, TheirTree) = {},
         NEW p \in Paths, TheirTree[p] \notin {Absent, AncTree[p]}
  PROVE  TheirTree[p] \in Blobs(Merged)
<1>1. AncTree \in Trees /\ OurTree \in Trees /\ TheirTree \in Trees
  BY ReplayTypes DEF MayApply, ToReplay, Replaying
<1>2. Merged[p] = TheirTree[p]
  BY <1>1, MergeKeepsVersion DEF Merged
<1> QED BY <1>2 DEF Blobs

\* Opening a rebase: what lies below the merge base is in the server's history.
LEMMA OpenedCarries ==
  ASSUME TypeOK, OpenRebase
  PROVE  Carried'
<1>1. PICK base \in MergeBases(branch, server) : step' = base + 1
  BY DEF OpenRebase, FirstLocal
<1>2. base \in Nat /\ base <= Len(server) /\ \A i \in 1..base : branch[i] = server[i]
  BY <1>1 DEF MergeBases, TypeOK, Typed
<1>3. UNCHANGED <<branch, dropped>> /\ detached' = server
  BY DEF OpenRebase, history
<1>4. \A i \in 1..(step' - 1) : i \in 1..Len(server) /\ branch[i] = server[i]
  BY <1>1, <1>2 DEF TypeOK, Typed
<1> QED BY <1>3, <1>4 DEF Carried, CarriedTo, HistoryBlobs

\* A replayed commit is the staged tree on top of the detached HEAD.
LEMMA ReplayedShape ==
  ASSUME TypeOK, CommitReplayed
  PROVE  /\ HistoryBlobs(detached) \subseteq HistoryBlobs(detached')
         /\ Blobs(index) \subseteq HistoryBlobs(detached')
         /\ TipTree(detached') = index /\ detached' # <<>>
<1>1. /\ step \in 1..Len(branch) /\ branch[step] \in Commit /\ index \in Trees
      /\ detached # <<>> /\ detached \in Seq(Commit)
  BY DEF CommitReplayed, TypeOK, Typed, CallState, Replaying
<1> DEFINE c == [branch[step] EXCEPT !.tree = index]
<1>2. c \in Commit /\ c.tree = index
  BY <1>1 DEF Commit
<1> HIDE DEF c
<1>3. detached' = IF index = OurTree THEN detached ELSE Append(detached, c)
  BY DEF CommitReplayed, c
<1> QED BY <1>1, <1>2, <1>3, CommitIsInHistory, TipInHistory DEF OurTree

\* A replayed commit takes its versions along.
LEMMA ReplayedCarries ==
  ASSUME TypeOK, AnswersIn, Carried, CommitReplayed
  PROVE  CarriedTo(detached)'
<1>1. /\ syncer = "applied" /\ unmerged = {} /\ step' = step + 1 /\ UNCHANGED <<branch, dropped>>
  BY DEF CommitReplayed, history
<1>2. step \in 1..Len(branch) /\ step \in Nat
  BY <1>1 DEF TypeOK, Typed, CallState, Replaying
<1>3. /\ HistoryBlobs(detached) \subseteq HistoryBlobs(detached')
      /\ Blobs(index) \subseteq HistoryBlobs(detached')
  BY ReplayedShape
<1>4. \A i \in 1..(step - 1) : Blobs(branch[i].tree) \subseteq HistoryBlobs(detached') \cup dropped
  BY <1>1, <1>3 DEF Carried, CarriedTo, Replaying
<1>5. TheirTree = branch[step].tree
  BY <1>2 DEF TheirTree, TreeAt
<1>6. ASSUME NEW b \in Blobs(TheirTree)
      PROVE  b \in HistoryBlobs(detached') \cup dropped
  <2>1. PICK p \in Paths : b = TheirTree[p] /\ b # Absent
    BY <1>6 DEF Blobs
  <2>2. CASE b # AncTree[p]
    BY <1>1, <1>3, <2>1, <2>2 DEF AnswersIn
  <2>3. CASE b = AncTree[p]
    <3>1. step - 1 # 0
      BY <2>1, <2>3 DEF AncTree, TreeAt, EmptyTree
    <3>2. AncTree = branch[step - 1].tree /\ step - 1 \in 1..(step - 1)
      BY <1>2, <3>1 DEF AncTree, TreeAt
    <3>3. b \in Blobs(branch[step - 1].tree)
      BY <2>1, <2>3, <3>2 DEF Blobs
    <3> QED BY <1>4, <3>2, <3>3
  <2> QED BY <2>2, <2>3
<1>7. \A i \in 1..(step' - 1) : i \in 1..(step - 1) \/ i = step
  BY <1>1, <1>2
<1>8. \A i \in 1..(step' - 1) : Blobs(branch[i].tree) \subseteq HistoryBlobs(detached') \cup dropped
  BY <1>4, <1>5, <1>6, <1>7
<1> QED BY <1>1, <1>8 DEF CarriedTo

\* Once every commit is replayed, the branch can be moved.
LEMMA AllCarried ==
  ASSUME TypeOK, Carried, syncer = "replaying", step > Len(branch)
  PROVE  HistoryBlobs(branch) \subseteq HistoryBlobs(detached) \cup dropped
<1>1. \A i \in 1..Len(branch) : i \in 1..(step - 1)
  BY DEF TypeOK, Typed
<1> QED BY <1>1 DEF Carried, CarriedTo, Replaying, HistoryBlobs

\* An edit is not begun during a sync, nor a sync during an edit.
LEMMA ApartStep == TypeOK /\ Apart /\ [Next]_vars => Apart'
<1> SUFFICES ASSUME TypeOK, Apart, [Next]_vars
             PROVE  Apart'
  OBVIOUS
<1>1. CASE Edit
  BY <1>1 DEF Edit, BeginSave, EndSave, RemoveEntry, StartEdit, CommitPaths, CommitIndex, NoEdit,
     Apart, sync, history, TypeOK, Typed
<1>2. CASE Sync
  BY <1>2 DEF Sync, BeginSync, SyncUpToDate, MoveBranch, Checkout, OpenRebase, RebaseRefused,
     MayOpen, NextCommit, MayApply, ToReplay, Answer, Asking, CommitReplayed, FinishRebase,
     Apart, sync, history, TypeOK, Typed
<1>3. CASE Stop
  BY <1>3 DEF Stop, CommitFails, ReplayRefused, AnswerFails, SyncFails, Crash, SyncStops, NoEdit,
     Apart, sync
<1>4. CASE Push \/ OtherPushes \/ UNCHANGED vars
  BY <1>4 DEF Push, OtherPushes, vars, Apart, sync, history
<1> QED BY <1>1, <1>2, <1>3, <1>4 DEF Next

\* What an edit wrote is what its commit will stage.
LEMMA FileIsEditStep == TypeOK /\ Apart /\ FileIsEdit /\ [Next]_vars => FileIsEdit'
<1> SUFFICES ASSUME TypeOK, Apart, FileIsEdit, [Next]_vars
             PROVE  FileIsEdit'
  OBVIOUS
<1>1. CASE Edit
  <2>1. CASE BeginSave \/ RemoveEntry \/ CommitPaths
    BY <2>1 DEF BeginSave, RemoveEntry, StartEdit, CommitPaths, CommitIndex, NoEdit, FileIsEdit
  <2>2. CASE EndSave
    BY <2>2 DEF EndSave, FileIsEdit, TypeOK, Typed, CallState, Trees
  <2> QED BY <1>1, <2>1, <2>2 DEF Edit
<1>2. CASE Sync
  <2>1. CASE syncer = "idle"
    BY <1>2, <2>1 DEF Sync, BeginSync, SyncUpToDate, MoveBranch, Checkout, OpenRebase, RebaseRefused,
       MayOpen, NextCommit, MayApply, ToReplay, Answer, Asking, CommitReplayed, FinishRebase,
       FileIsEdit, store, TypeOK, Typed
  <2>2. CASE syncer # "idle"
    <3>1. editor' = editor /\ overlap' = overlap
      BY <1>2, <2>2 DEF Sync, BeginSync, SyncUpToDate, MoveBranch, Checkout, OpenRebase,
         RebaseRefused, NextCommit, Answer, CommitReplayed, FinishRebase, history
    <3> QED BY <2>2, <3>1 DEF Apart, FileIsEdit
  <2> QED BY <2>1, <2>2
<1>3. CASE Stop
  <2>1. CASE CommitFails \/ Crash
    BY <2>1 DEF CommitFails, Crash, NoEdit, FileIsEdit
  <2>2. CASE ReplayRefused \/ AnswerFails \/ SyncFails
    <3>1. syncer # "idle"
      BY <2>2 DEF ReplayRefused, ToReplay, AnswerFails, Asking, SyncFails, MayOpen
    <3>2. editor' = editor /\ overlap' = overlap
      BY <2>2 DEF ReplayRefused, AnswerFails, SyncFails
    <3> QED BY <3>1, <3>2 DEF Apart, FileIsEdit
  <2> QED BY <1>3, <2>1, <2>2 DEF Stop
<1>4. CASE Push \/ OtherPushes \/ UNCHANGED vars
  BY <1>4 DEF Push, OtherPushes, vars, store, history, FileIsEdit
<1> QED BY <1>1, <1>2, <1>3, <1>4 DEF Next

\* A replay reads the branch, the detached HEAD and how far it is.
ReplayState == <<branch, detached, syncer, step, index, unmerged, dropped>>
ReplayOK == MergeStaged /\ AnswersIn /\ Carried

LEMMA ReplayStep == TypeOK /\ ReplayOK /\ [Next]_vars => ReplayOK'
<1> SUFFICES ASSUME TypeOK, ReplayOK, [Next]_vars
             PROVE  ReplayOK'
  OBVIOUS
<1>1. CASE UNCHANGED ReplayState
  BY <1>1 DEF ReplayState, ReplayOK, MergeStaged, AnswersIn, Carried, CarriedTo, Asking, Replaying,
     AncTree, OurTree, TheirTree, Merged
<1>2. CASE syncer' \notin {"replaying", "applied"}
  BY <1>2 DEF ReplayOK, MergeStaged, AnswersIn, Carried, Asking, Replaying
<1>3. CASE Edit
  <2>1. CASE BeginSave \/ EndSave \/ RemoveEntry
    <3>1. UNCHANGED ReplayState
      BY <2>1 DEF BeginSave, EndSave, RemoveEntry, StartEdit, ReplayState, store, head, staging,
         sync, history
    <3> QED BY <1>1, <3>1
  <2>2. CASE CommitPaths
    BY <1>2, <2>2 DEF CommitPaths, CommitIndex, sync
  <2> QED BY <1>3, <2>1, <2>2 DEF Edit
<1>4. CASE Sync
  <2>1. CASE BeginSync \/ SyncUpToDate \/ MoveBranch \/ Checkout \/ RebaseRefused \/ FinishRebase
    BY <1>2, <2>1 DEF BeginSync, SyncUpToDate, MoveBranch, Checkout, RebaseRefused, FinishRebase
  <2>2. CASE OpenRebase
    <3>1. syncer' = "replaying"
      BY <2>2 DEF OpenRebase
    <3> QED BY <2>2, <3>1, OpenedCarries DEF ReplayOK, MergeStaged, AnswersIn, Asking
  <2>3. CASE NextCommit
    <3>1. /\ MayApply /\ index' = Merged /\ unmerged' = Conflicts(AncTree, OurTree, TheirTree)
          /\ syncer' = "applied" /\ UNCHANGED <<branch, detached, step, dropped>>
      BY <2>3 DEF NextCommit, head, history
    <3>2. UNCHANGED <<AncTree, OurTree, TheirTree, Merged>>
      BY <3>1 DEF AncTree, OurTree, TheirTree, Merged
    <3>3. MergeStaged'
      BY <3>1, <3>2 DEF MergeStaged
    <3>4. AnswersIn'
      BY <3>1, <3>2, MergeKeeps DEF AnswersIn
    <3>5. Carried'
      BY <3>1 DEF ReplayOK, Carried, CarriedTo, Replaying, MayApply, ToReplay
    <3> QED BY <3>3, <3>4, <3>5 DEF ReplayOK
  <2>4. CASE Answer
    <3>1. PICK ans \in AnswersNow :
            index' = AnswersStaged(ans, unmerged) /\ dropped' = dropped \cup Dropped(ans)
      BY <2>4 DEF Answer
    <3>2. Asking /\ unmerged' = {} /\ UNCHANGED <<branch, detached, step, syncer>>
      BY <2>4 DEF Answer, head, sync
    <3>3. UNCHANGED <<AncTree, TheirTree>>
      BY <3>2 DEF AncTree, TheirTree
    <3>4. MergeStaged'
      BY <3>2 DEF MergeStaged, Asking
    <3>5. AnswersIn'
      BY <3>1, <3>2, <3>3, AnswerKeeps DEF AnswersIn, ReplayOK
    <3>6. Carried'
      BY <3>1, <3>2 DEF ReplayOK, Carried, CarriedTo, Replaying
    <3> QED BY <3>4, <3>5, <3>6 DEF ReplayOK
  <2>5. CASE CommitReplayed
    <3>1. syncer' = "replaying"
      BY <2>5 DEF CommitReplayed
    <3> QED BY <2>5, <3>1, ReplayedCarries DEF ReplayOK, MergeStaged, AnswersIn, Carried, Asking
  <2> QED BY <1>4, <2>1, <2>2, <2>3, <2>4, <2>5 DEF Sync
<1>5. CASE Stop
  <2>1. syncer' = "idle"
    BY <1>5 DEF Stop, CommitFails, ReplayRefused, AnswerFails, SyncFails, Crash, SyncStops, sync
  <2> QED BY <1>2, <2>1
<1>6. CASE Push \/ OtherPushes \/ UNCHANGED vars
  <2>1. UNCHANGED ReplayState
    BY <1>6 DEF Push, OtherPushes, vars, ReplayState, store, head, staging, sync, history
  <2> QED BY <1>1, <2>1
<1> QED BY <1>3, <1>4, <1>5, <1>6 DEF Next

\* No step forgets what is kept: what leaves the branch or the detached HEAD is
\* in the other of them, or an answer cost it.
LEMMA KeptGrows == TypeOK /\ ReplayOK /\ [Next]_vars => Kept \subseteq Kept'
<1> SUFFICES ASSUME TypeOK, ReplayOK, [Next]_vars
             PROVE  Kept \subseteq Kept'
  OBVIOUS
<1>1. CASE UNCHANGED <<branch, detached, dropped>>
  BY <1>1 DEF Kept
<1>2. CASE Edit
  <2>1. CASE BeginSave \/ EndSave \/ RemoveEntry
    <3>1. UNCHANGED <<branch, detached, dropped>>
      BY <2>1 DEF BeginSave, EndSave, RemoveEntry, StartEdit, store, head, history
    <3> QED BY <1>1, <3>1
  <2>2. CASE CommitPaths
    <3>1. PICK c \in Commit :
            IF detached = <<>> THEN branch' = Append(branch, c) /\ detached' = detached
            ELSE detached' = Append(detached, c) /\ branch' = branch
      BY <2>2, CommitShape
    <3>2. /\ HistoryBlobs(branch) \subseteq HistoryBlobs(branch')
          /\ HistoryBlobs(detached) \subseteq HistoryBlobs(detached')
      BY <3>1, CommitIsInHistory DEF TypeOK, Typed
    <3>3. dropped' = dropped
      BY <2>2 DEF CommitPaths, CommitIndex
    <3> QED BY <3>2, <3>3 DEF Kept
  <2> QED BY <1>2, <2>1, <2>2 DEF Edit
<1>3. CASE Sync
  <2>1. CASE BeginSync \/ SyncUpToDate \/ RebaseRefused \/ NextCommit \/ Checkout
    <3>1. UNCHANGED <<branch, detached, dropped>>
      BY <2>1 DEF BeginSync, SyncUpToDate, RebaseRefused, NextCommit, Checkout, store, head, history
    <3> QED BY <1>1, <3>1
  <2>2. CASE MoveBranch
    <3>1. HistoryBlobs(branch) \subseteq HistoryBlobs(server)
      BY <2>2, HistoryGrows DEF MoveBranch, TypeOK, Typed
    <3>2. branch' = server /\ UNCHANGED <<detached, dropped>>
      BY <2>2 DEF MoveBranch, history
    <3> QED BY <3>1, <3>2 DEF Kept
  <2>3. CASE OpenRebase
    <3>1. detached = <<>> /\ UNCHANGED <<branch, dropped>>
      BY <2>3 DEF OpenRebase, MayOpen, Diverged, history
    <3>2. HistoryBlobs(<<>>) = {}
      BY DEF HistoryBlobs
    <3> QED BY <3>1, <3>2 DEF Kept
  <2>4. CASE Answer
    BY <2>4 DEF Answer, Kept, head
  <2>5. CASE CommitReplayed
    <3>1. HistoryBlobs(detached) \subseteq HistoryBlobs(detached')
      BY <2>5, ReplayedShape
    <3>2. UNCHANGED <<branch, dropped>>
      BY <2>5 DEF CommitReplayed, history
    <3> QED BY <3>1, <3>2 DEF Kept
  <2>6. CASE FinishRebase
    <3>1. HistoryBlobs(branch) \subseteq HistoryBlobs(detached) \cup dropped
      BY <2>6, AllCarried DEF FinishRebase, ReplayOK
    <3>2. branch' = detached /\ dropped' = dropped
      BY <2>6 DEF FinishRebase, history
    <3> QED BY <3>1, <3>2 DEF Kept
  <2> QED BY <1>3, <2>1, <2>2, <2>3, <2>4, <2>5, <2>6 DEF Sync
<1>4. CASE Stop
  <2>1. CASE CommitFails \/ ReplayRefused \/ AnswerFails \/ SyncFails
    <3>1. UNCHANGED <<branch, detached, dropped>>
      BY <2>1 DEF CommitFails, ReplayRefused, AnswerFails, SyncFails, store, head
    <3> QED BY <1>1, <3>1
  <2>2. CASE Crash
    <3>1. UNCHANGED <<detached, dropped>>
      BY <2>2 DEF Crash
    <3>2. CASE UNCHANGED branch
      BY <1>1, <3>1, <3>2
    <3>3. CASE syncer = "replaying" /\ step > Len(branch) /\ branch' = detached
      <4>1. HistoryBlobs(branch) \subseteq HistoryBlobs(detached) \cup dropped
        BY <3>3, AllCarried DEF ReplayOK
      <4> QED BY <3>1, <3>3, <4>1 DEF Kept
    <3> QED BY <2>2, <3>2, <3>3 DEF Crash
  <2> QED BY <1>4, <2>1, <2>2 DEF Stop
<1>5. CASE Push \/ OtherPushes \/ UNCHANGED vars
  <2>1. UNCHANGED <<branch, detached, dropped>>
    BY <1>5 DEF Push, OtherPushes, vars, store, head, history
  <2> QED BY <1>1, <2>1
<1> QED BY <1>2, <1>3, <1>4, <1>5 DEF Next

\* A commit puts on HEAD the version its edit wrote.
LEMMA CommitKeepsIts ==
  ASSUME TypeOK, FileIsEdit, CommitPaths, ~overlap, editor.op = "save"
  PROVE  <<editor.edit, editor.path>> \in Kept'
<1> DEFINE b == <<editor.edit, editor.path>>
<1>1. PICK c \in Commit :
        /\ c.tree = Staged
        /\ IF detached = <<>> THEN branch' = Append(branch, c) /\ detached' = detached
           ELSE detached' = Append(detached, c) /\ branch' = branch
  BY CommitShape
<1>2. editor.at = "written"
  BY DEF CommitPaths, CommitIndex
<1>3. editor.path \in Paths /\ Staged[editor.path] = b /\ b # Absent
  BY <1>2, StagedType DEF FileIsEdit, Absent
<1> HIDE DEF b
<1>4. b \in Blobs(c.tree)
  BY <1>1, <1>3 DEF Blobs
<1>5. b \in HistoryBlobs(branch') \/ b \in HistoryBlobs(detached')
  BY <1>1, <1>4, CommitIsInHistory DEF TypeOK, Typed
<1> QED BY <1>5 DEF Kept, b

LEMMA SurvivingStep == TypeOK /\ Surviving /\ [Next]_vars => Surviving'
<1> SUFFICES ASSUME TypeOK, Surviving, [Next]_vars
             PROVE  Surviving'
  OBVIOUS
<1>1. Kept \subseteq Kept'
  BY KeptGrows DEF Surviving, ReplayOK
<1>2. overlap => overlap'
  BY DEF Next, Edit, BeginSave, EndSave, RemoveEntry, StartEdit, CommitPaths, CommitIndex,
     Sync, BeginSync, SyncUpToDate, MoveBranch, Checkout, OpenRebase, RebaseRefused, NextCommit,
     Answer, CommitReplayed, FinishRebase, Stop, CommitFails, ReplayRefused, AnswerFails, SyncFails,
     Crash, Push, OtherPushes, vars, history
<1>3. SavedSurvives'
  <2>1. CASE CommitPaths
    <3>1. overlap' = overlap /\ saved' \subseteq saved \cup {<<editor.edit, editor.path>>}
          /\ (editor.op # "save" => saved' = saved)
      BY <2>1 DEF CommitPaths, CommitIndex
    <3> QED BY <1>1, <2>1, <3>1, CommitKeepsIts DEF Surviving, SavedSurvives
  <2>2. CASE saved' = saved
    BY <1>1, <1>2, <2>2 DEF Surviving, SavedSurvives
  <2>3. ~CommitPaths => saved' = saved
    BY DEF Next, Edit, BeginSave, EndSave, RemoveEntry,
       Sync, BeginSync, SyncUpToDate, MoveBranch, Checkout, OpenRebase, RebaseRefused, NextCommit,
       Answer, CommitReplayed, FinishRebase, Stop, CommitFails, ReplayRefused, AnswerFails, SyncFails,
       Crash, Push, OtherPushes, vars, history
  <2> QED BY <2>1, <2>2, <2>3
<1>4. Apart' /\ FileIsEdit'
  BY ApartStep, FileIsEditStep DEF Surviving
<1>5. (MergeStaged /\ AnswersIn /\ Carried)'
  BY ReplayStep DEF Surviving, ReplayOK
<1> QED BY <1>3, <1>4, <1>5 DEF Surviving

LEMMA InitSurviving == Init => Surviving
BY DEF Init, NoEdit, Surviving, Apart, FileIsEdit, MergeStaged, AnswersIn, Carried, Replaying,
   Asking, SavedSurvives

\* A version whose save and commit returned Ok stays in the history of the
\* branch or of a detached HEAD, unless an answer of the resolver cost it,
\* whatever fast-forwards, replays, error returns and kills follow, as long as
\* the app keeps edits and syncs apart: commit_paths, sync and rebase_onto.
THEOREM SavedVersionsSurvive == Spec => []SavedSurvives
<1>1. Init => TypeOK /\ Surviving
  BY InitHasType, InitSurviving
<1>2. TypeOK /\ Surviving /\ [Next]_vars => (TypeOK /\ Surviving)'
  BY StepKeepsType, SurvivingStep
<1>3. Surviving => SavedSurvives
  BY DEF Surviving
<1> QED BY <1>1, <1>2, <1>3, PTL DEF Spec

(***************************************************************************)
(* Commits of their paths.                                                 *)
(***************************************************************************)
\* As long as no call is killed or fails half way, the index is the tree of
\* HEAD except while a sync has yet to check out or to commit, only the commit
\* being replayed has conflicts, and HEAD is detached only during a rebase.
Undisturbed ==
  ~interrupted =>
    /\ syncer \notin {"moved", "applied"} => index = HeadTree
    /\ syncer # "applied" => unmerged = {}
    /\ detached # <<>> => Replaying

LEMMA UndisturbedStep == TypeOK /\ Undisturbed /\ [Next]_vars => Undisturbed'
<1> SUFFICES ASSUME TypeOK, Undisturbed, [Next]_vars
             PROVE  Undisturbed'
  OBVIOUS
<1>1. CASE UNCHANGED <<head, staging, syncer, interrupted>>
  BY <1>1 DEF Undisturbed, head, staging, HeadTree, HeadHistory, Replaying
<1>2. CASE Edit
  <2>1. CASE BeginSave \/ EndSave \/ RemoveEntry
    <3>1. UNCHANGED <<head, staging, syncer, interrupted>>
      BY <2>1 DEF BeginSave, EndSave, RemoveEntry, StartEdit, store, sync, history
    <3> QED BY <1>1, <3>1
  <2>2. CASE CommitPaths
    <3>1. PICK c \in Commit : /\ c.tree = Staged /\ index' = Staged
                              /\ HeadHistory' = Append(HeadHistory, c)
                              /\ detached = <<>> => detached' = detached
      BY <2>2, CommitShape
    <3>2. TipTree(HeadHistory') = index'
      BY <3>1, HeadType, CommitIsInHistory
    <3>3. syncer = "idle" /\ unmerged' = {} /\ UNCHANGED <<interrupted, syncer>>
      BY <2>2 DEF CommitPaths, CommitIndex, sync
    <3> QED BY <3>1, <3>2, <3>3 DEF Undisturbed, HeadTree, Replaying
  <2> QED BY <1>2, <2>1, <2>2 DEF Edit
<1>3. CASE Sync
  <2>1. CASE BeginSync \/ SyncUpToDate \/ RebaseRefused
    BY <2>1 DEF BeginSync, SyncUpToDate, RebaseRefused, store, head, staging, history, Undisturbed,
       HeadTree, HeadHistory, Replaying
  <2>2. CASE MoveBranch
    BY <2>2 DEF MoveBranch, staging, history, Undisturbed
  <2>3. CASE Checkout
    <3>1. syncer' = "idle" /\ index' = HeadTree /\ UNCHANGED <<head, unmerged, interrupted>>
      BY <2>3 DEF Checkout, history
    <3>2. HeadTree' = HeadTree /\ detached = <<>>
      BY <2>3, <3>1 DEF Checkout, HeadTree, HeadHistory, head, TypeOK, CallState
    <3>3. syncer # "applied"
      BY <2>3 DEF Checkout
    <3> QED BY <3>1, <3>2, <3>3 DEF Undisturbed, head
  <2>4. CASE OpenRebase
    <3>1. /\ syncer' = "replaying" /\ index' = TipTree(server) /\ detached' = server
          /\ syncer = "checked" /\ UNCHANGED <<unmerged, interrupted>>
      BY <2>4 DEF OpenRebase, MayOpen, history
    <3>2. server # <<>>
      BY <2>4 DEF OpenRebase, MayOpen, Diverged, IsAncestor, TypeOK, Typed
    <3>3. HeadTree' = TipTree(server)
      BY <3>1, <3>2 DEF HeadTree, HeadHistory
    <3> QED BY <3>1, <3>3 DEF Undisturbed, Replaying
  <2>5. CASE NextCommit \/ Answer
    BY <2>5 DEF NextCommit, Answer, Asking, sync, Undisturbed, Replaying
  <2>6. CASE CommitReplayed
    <3>1. /\ syncer' = "replaying" /\ unmerged = {} /\ UNCHANGED <<index, unmerged, interrupted>>
      BY <2>6 DEF CommitReplayed, staging, history
    <3>2. HeadTree' = index
      BY <2>6, ReplayedShape DEF HeadTree, HeadHistory
    <3> QED BY <3>1, <3>2 DEF Undisturbed, Replaying
  <2>7. CASE FinishRebase
    <3>1. /\ syncer = "replaying" /\ syncer' = "rebased" /\ branch' = detached /\ detached' = <<>>
          /\ UNCHANGED <<index, unmerged, interrupted>>
      BY <2>7 DEF FinishRebase, staging, history
    <3>2. HeadTree' = HeadTree
      BY <3>1 DEF HeadTree, HeadHistory, TypeOK, CallState, Replaying
    <3> QED BY <3>1, <3>2 DEF Undisturbed
  <2> QED BY <1>3, <2>1, <2>2, <2>3, <2>4, <2>5, <2>6, <2>7 DEF Sync
<1>4. CASE Stop
  BY <1>4 DEF Stop, CommitFails, ReplayRefused, AnswerFails, SyncFails, Crash, SyncStops, Undisturbed
<1>5. CASE Push \/ OtherPushes \/ UNCHANGED vars
  <2>1. UNCHANGED <<head, staging, syncer, interrupted>>
    BY <1>5 DEF Push, OtherPushes, vars, store, sync, history
  <2> QED BY <1>1, <2>1
<1> QED BY <1>2, <1>3, <1>4, <1>5 DEF Next

\* An edit ends with its commit, or with a call that stopped and left HEAD's
\* tree as it was.
LEMMA EndsOfEdits ==
  ASSUME TypeOK, Undisturbed, [Next]_vars, ~interrupted
  PROVE  OnlyItsPaths
<1> SUFFICES ASSUME NEW p \in Paths,
                    editor.at = "written", editor'.at = "none", p # editor.path
             PROVE  TipTree(HeadHistory')[p] = HeadTree[p]
  BY DEF OnlyItsPaths
<1>1. CASE CommitPaths
  <2>1. PICK c \in Commit : c.tree = Staged /\ HeadHistory' = Append(HeadHistory, c)
    BY <1>1, CommitShape
  <2>2. TipTree(HeadHistory') = Staged
    BY <2>1, HeadType, CommitIsInHistory
  <2>3. index = HeadTree
    BY <1>1 DEF CommitPaths, Undisturbed
  <2> QED BY <2>2, <2>3, StagedType
<1>2. CASE CommitFails \/ Crash
  <2>1. HeadHistory' = HeadHistory
    BY <1>2 DEF CommitFails, Crash, HeadHistory, head, TypeOK, CallState, Replaying
  <2> QED BY <2>1 DEF HeadTree
<1>3. CommitPaths \/ CommitFails \/ Crash
  BY DEF Next, Edit, BeginSave, EndSave, RemoveEntry, StartEdit, Sync, BeginSync, SyncUpToDate,
     MoveBranch, Checkout, OpenRebase, RebaseRefused, NextCommit, Answer, CommitReplayed,
     FinishRebase, Stop, ReplayRefused, AnswerFails, SyncFails, Push, OtherPushes, vars
<1> QED BY <1>1, <1>2, <1>3

\* commit_paths: a commit changes the path it was given and no other, however
\* edits and syncs interleave, as long as no call was killed or failed half way.
THEOREM CommitsAreOfTheirPaths == Spec => CommitsOnlyItsPaths
<1>1. Init => TypeOK /\ Undisturbed
  BY InitHasType DEF Init, Undisturbed
<1>2. TypeOK /\ Undisturbed /\ [Next]_vars => (TypeOK /\ Undisturbed)'
  BY StepKeepsType, UndisturbedStep
<1>3. TypeOK /\ Undisturbed /\ [Next]_vars => [~interrupted => OnlyItsPaths]_vars
  BY EndsOfEdits
<1> QED BY <1>1, <1>2, <1>3, PTL DEF Spec, CommitsOnlyItsPaths

(***************************************************************************)
(* A clean tree between calls.                                             *)
(***************************************************************************)
\* With edits and syncs apart, only the file of the edit being made differs
\* from what is staged.
FilesAreStaged ==
  ~overlap /\ ~interrupted =>
    /\ ~leftover
    /\ \A p \in Paths : files[p] = index[p] \/ (editor.at = "written" /\ p = editor.path)

\* A checkout where the files are as staged leaves them as the new tree says.
LEMMA CheckedOutIsTree ==
  ASSUME NEW tree, NEW p \in Paths, files[p] = index[p]
  PROVE  CheckedOut(tree)[p] = tree[p]
BY DEF CheckedOut

LEMMA FilesAreStagedStep ==
  TypeOK /\ Apart /\ FilesAreStaged /\ [Next]_vars => FilesAreStaged'
<1> SUFFICES ASSUME TypeOK, Apart, FilesAreStaged, [Next]_vars
             PROVE  FilesAreStaged'
  OBVIOUS
<1>1. CASE UNCHANGED <<files, index, leftover, editor, interrupted>> /\ (overlap => overlap')
  BY <1>1 DEF FilesAreStaged
<1>2. CASE Edit
  <2>1. CASE BeginSave \/ RemoveEntry
    BY <2>1 DEF BeginSave, RemoveEntry, StartEdit, FilesAreStaged, store, staging, TypeOK, Typed, Trees
  <2>2. CASE EndSave
    BY <2>2 DEF EndSave, FilesAreStaged, staging, history, TypeOK, Typed, Trees
  <2>3. CASE CommitPaths
    <3>1. editor.at = "written"
      BY <2>3 DEF CommitPaths, CommitIndex
    <3>2. /\ Staged[editor.path] = files[editor.path]
          /\ \A p \in Paths : p # editor.path => Staged[p] = index[p]
      BY <3>1, StagedType
    <3>3. index' = Staged /\ UNCHANGED <<files, leftover, overlap, interrupted>>
      BY <2>3 DEF CommitPaths, CommitIndex
    <3> QED BY <3>2, <3>3 DEF FilesAreStaged
  <2> QED BY <1>2, <2>1, <2>2, <2>3 DEF Edit
<1>3. CASE Sync
  <2>1. CASE BeginSync \/ SyncUpToDate \/ MoveBranch \/ RebaseRefused \/ CommitReplayed \/ FinishRebase
    <3>1. UNCHANGED <<files, index, leftover, editor, interrupted>> /\ (overlap => overlap')
      BY <2>1 DEF BeginSync, SyncUpToDate, MoveBranch, RebaseRefused, CommitReplayed, FinishRebase,
         store, staging, history, TypeOK, Typed
    <3> QED BY <1>1, <3>1
  <2>2. CASE OpenRebase \/ NextCommit \/ Checkout
    <3>1. PICK tree : index' = tree /\ files' = CheckedOut(tree)
      BY <2>2 DEF OpenRebase, NextCommit, Checkout
    <3>2. syncer # "idle" /\ UNCHANGED <<leftover, overlap, interrupted>>
      BY <2>2 DEF OpenRebase, MayOpen, NextCommit, MayApply, ToReplay, Checkout, history
    <3> QED BY <3>1, <3>2, CheckedOutIsTree DEF FilesAreStaged, Apart
  <2>3. CASE Answer
    <3>1. PICK ans \in AnswersNow :
            /\ files' = AnswersWritten(ans, unmerged) /\ index' = AnswersStaged(ans, unmerged)
      BY <2>3 DEF Answer
    <3>2. syncer # "idle" /\ UNCHANGED <<leftover, overlap, interrupted>>
      BY <2>3 DEF Answer, Asking
    <3>3. \A p \in Paths : files[p] = index[p] => files'[p] = index'[p]
      BY <3>1 DEF AnswersStaged, AnswersWritten
    <3> QED BY <3>2, <3>3 DEF FilesAreStaged, Apart
  <2> QED BY <1>3, <2>1, <2>2, <2>3 DEF Sync
<1>4. CASE Stop
  BY <1>4 DEF Stop, CommitFails, ReplayRefused, AnswerFails, SyncFails, Crash, SyncStops,
     FilesAreStaged
<1>5. CASE Push \/ OtherPushes \/ UNCHANGED vars
  <2>1. UNCHANGED <<files, index, leftover, editor, interrupted>> /\ (overlap => overlap')
    BY <1>5 DEF Push, OtherPushes, vars, store, staging, history
  <2> QED BY <1>1, <2>1
<1> QED BY <1>2, <1>3, <1>4, <1>5 DEF Next

\* When nothing runs, what is staged, written and committed is one tree.
LEMMA NothingIsDirty == TypeOK /\ Undisturbed /\ FilesAreStaged => CleanBetweenCalls
<1> SUFFICES ASSUME TypeOK, Undisturbed, FilesAreStaged,
                    editor.at = "none", syncer = "idle", ~overlap, ~interrupted
             PROVE  ~Dirty /\ detached = <<>>
  BY DEF CleanBetweenCalls
<1>1. files = index
  BY DEF FilesAreStaged, TypeOK, Typed, Trees
<1> QED BY <1>1 DEF Undisturbed, FilesAreStaged, Dirty, Replaying

\* Between calls HEAD is the branch and the working tree is clean, so that the
\* next sync is neither refused nor taken for up to date, as long as no edit
\* overlaps a sync and no call is killed or returns an error half way: status,
\* the fast-forward and the replay loop with its answers.
THEOREM TreeIsCleanBetweenCalls == Spec => []CleanBetweenCalls
<1> DEFINE IInv == TypeOK /\ Apart /\ Undisturbed /\ FilesAreStaged
<1>1. Init => IInv
  BY InitHasType DEF Init, NoEdit, Apart, Undisturbed, FilesAreStaged
<1>2. IInv /\ [Next]_vars => IInv'
  BY StepKeepsType, ApartStep, UndisturbedStep, FilesAreStagedStep
<1>3. IInv => CleanBetweenCalls
  BY NothingIsDirty
<1> QED BY <1>1, <1>2, <1>3, PTL DEF Spec
=============================================================================

---------------------------- MODULE GitSync_proofs ----------------------------
(***************************************************************************)
(* Theorems about GitSync for every value of its constants: its types,     *)
(* that no push replaces published history, whose work is unpublished, that *)
(* the versions of a rebased branch survive, that every edit is published  *)
(* once, and that the engine implements RemoteLog.                         *)
(***************************************************************************)
EXTENDS GitSync, GitTree_proofs, SequenceTheorems

(***************************************************************************)
(* Types of the helpers.                                                   *)
(***************************************************************************)
\* The trees of a well-formed history, the empty one before its first commit
\* included.
LEMMA HistoryTreeTypes ==
  ASSUME NEW h \in Seq(Commit)
  PROVE  /\ \A i \in 0..Len(h) : TreeAt(h, i) \in Trees
         /\ TipTree(h) \in Trees
<1>1. \A i \in 1..Len(h) : h[i] \in Commit
  OBVIOUS
<1>2. \A c \in Commit : c.tree \in Trees
  BY DEF Commit
<1> QED BY <1>1, <1>2, TreeTypes DEF TreeAt, TipTree

\* A freshly encrypted blob is a blob.
LEMMA NewBlobType ==
  ASSUME made \in Nat, NEW p \in Paths
  PROVE  NewBlob(p) \in BlobIds
BY DEF NewBlob, BlobIds

\* A fresh commit of a tree is a commit.
LEMMA NewCommitType ==
  ASSUME made \in Nat, NEW a \in Devices \cup {Nobody}, NEW t \in Trees
  PROVE  NewCommit(a, t) \in Commit
BY DEF NewCommit, Commit

\* While a commit is being replayed, the three trees of its merge are trees.
LEMMA MergeTreeTypes ==
  ASSUME TypeOK, NEW d \in Devices, InRebase(d), step[d] <= Len(local[d])
  PROVE  /\ step[d] \in 1..Len(local[d])
         /\ AncTree(d) \in Trees
         /\ OurTree(d) \in Trees
         /\ TheirTree(d) \in Trees
<1>1. step[d] \in 1..Len(local[d])
  BY DEF TypeOK, Typed, CallState
<1>2. local[d] \in Seq(Commit) /\ detached[d] \in Seq(Commit)
  BY DEF TypeOK, Typed
<1> QED BY <1>1, <1>2, HistoryTreeTypes DEF AncTree, OurTree, TheirTree

\* Replaying a commit adds at most that commit, under its own author.
LEMMA ReplayedType ==
  ASSUME TypeOK, NEW d \in Devices, InRebase(d), step[d] <= Len(local[d]),
         NEW t \in Trees
  PROVE  /\ Replayed(d, t) \in Seq(Commit)
         /\ Replayed(d, t) # <<>>
         /\ \/ Replayed(d, t) = detached[d]
            \/ \E c \in Commit : /\ Replayed(d, t) = Append(detached[d], c)
                                 /\ c.author = local[d][step[d]].author
                                 /\ c.edit = local[d][step[d]].edit
<1>1. step[d] \in 1..Len(local[d])
  BY MergeTreeTypes
<1>2. detached[d] \in Seq(Commit) /\ local[d] \in Seq(Commit) /\ detached[d] # <<>>
  BY DEF TypeOK, Typed, CallState
<1>3. local[d][step[d]] \in Commit
  BY <1>1, <1>2
<1> DEFINE c == [local[d][step[d]] EXCEPT !.tree = t]
<1>4. /\ c \in Commit
      /\ c.author = local[d][step[d]].author
      /\ c.edit = local[d][step[d]].edit
  BY <1>3 DEF Commit
<1>5. CASE t = OurTree(d)
  BY <1>2, <1>5 DEF Replayed
<1>6. CASE t # OurTree(d)
  <2>1. Replayed(d, t) = Append(detached[d], c)
    BY <1>6 DEF Replayed
  <2> HIDE DEF c
  <2>2. Append(detached[d], c) \in Seq(Commit) /\ Append(detached[d], c) # <<>>
    BY <1>2, <1>4
  <2> QED BY <1>4, <2>1, <2>2
<1> QED BY <1>5, <1>6

(***************************************************************************)
(* Type correctness.                                                       *)
(***************************************************************************)
\* Every editing operation commits a tree, or stages it where a conflict is left.
EditStep(d, t) == CommitTree(d, t) \/ \E paths \in SUBSET Paths : StageTree(d, paths, t)

\* What the working tree holds is a tree.
LEMMA PresentType ==
  ASSUME TypeOK, NEW d \in Devices
  PROVE  /\ Present(d) \in Trees /\ \A p \in Paths : NewBlob(p) \in BlobIds
         /\ detached[d] = <<>> => unmerged[d] = {} /\ Present(d) = TipTree(HeadHistory(d))
<1>1. TipTree(HeadHistory(d)) \in Trees
  BY HistoryTreeTypes DEF TypeOK, Typed, HeadHistory
<1>2. \A p \in Paths : NewBlob(p) \in BlobIds
  BY NewBlobType DEF TypeOK, Typed
<1> QED BY <1>1, <1>2 DEF Present, TypeOK, Typed, CallState

LEMMA EditCommits ==
  ASSUME TypeOK, NEW d \in Devices, Edit(d)
  PROVE  phase[d] = "idle" /\ \E t \in Trees : EditStep(d, t)
<1> DEFINE now == Present(d)
<1>1. now \in Trees /\ \A p \in Paths : NewBlob(p) \in BlobIds
  BY PresentType
<1> HIDE DEF now
<1>2. \A paths \in SUBSET Paths, t \in Trees : CommitPaths(d, paths, t) => EditStep(d, t)
  BY DEF CommitPaths, EditStep
<1>3. CASE Save(d)
  <2>1. PICK p \in Paths : CommitPaths(d, {p}, [now EXCEPT ![p] = NewBlob(p)])
    BY <1>3 DEF Save, now
  <2>2. [now EXCEPT ![p] = NewBlob(p)] \in Trees
    BY <1>1, TreeTypes
  <2> QED BY <1>2, <1>3, <2>1, <2>2 DEF Save, CanEdit
<1>4. CASE Remove(d)
  <2>1. PICK p \in Paths : CommitPaths(d, {p}, [now EXCEPT ![p] = Absent])
    BY <1>4 DEF Remove, now
  <2>2. [now EXCEPT ![p] = Absent] \in Trees
    BY <1>1, TreeTypes
  <2> QED BY <1>2, <1>4, <2>1, <2>2 DEF Remove, CanEdit
<1>5. CASE Transfer(d)
  <2>1. PICK op \in {"move", "copy"}, from, to \in Paths :
          /\ CanEdit(d, op)
          /\ IF op = "copy" THEN CommitPaths(d, {to}, [now EXCEPT ![to] = NewBlob(to)])
             ELSE CommitPaths(d, {from, to},
                              [[now EXCEPT ![to] = NewBlob(to)] EXCEPT ![from] = Absent])
    BY <1>5 DEF Transfer, now
  <2>2. [now EXCEPT ![to] = NewBlob(to)] \in Trees
    BY <1>1, TreeTypes
  <2>3. [[now EXCEPT ![to] = NewBlob(to)] EXCEPT ![from] = Absent] \in Trees
    BY <2>2, TreeTypes
  <2> QED BY <1>2, <2>1, <2>2, <2>3 DEF CanEdit
<1>6. CASE Reencrypt(d)
  <2>1. CommitPaths(d, {p \in Paths : now[p] # Absent},
                    [p \in Paths |-> IF now[p] = Absent THEN Absent ELSE NewBlob(p)])
    BY <1>6 DEF Reencrypt, now
  <2>2. [p \in Paths |-> IF now[p] = Absent THEN Absent ELSE NewBlob(p)] \in Trees
    BY <1>1 DEF Trees
  <2>3. {p \in Paths : now[p] # Absent} \in SUBSET Paths
    OBVIOUS
  <2> QED BY <1>2, <1>6, <2>1, <2>2, <2>3 DEF Reencrypt, CanEdit
<1> QED BY <1>3, <1>4, <1>5, <1>6 DEF Edit

\* Committing an edit, on the branch or on a detached HEAD.
LEMMA CommitKeepsType ==
  ASSUME TypeOK, NEW d \in Devices, phase[d] = "idle",
         NEW t \in Trees, CommitTree(d, t)
  PROVE  TypeOK'
<1>1. NewCommit(d, t) \in Commit
  BY NewCommitType DEF TypeOK, Typed
<1>2. CASE detached[d] = <<>>
  <2>1. local[d] \in Seq(Commit)
    BY DEF TypeOK, Typed
  <2>2. /\ Append(local[d], NewCommit(d, t)) \in Seq(Commit)
        /\ Len(Append(local[d], NewCommit(d, t))) = Len(local[d]) + 1
    BY <1>1, <2>1
  <2>3. /\ local' = [local EXCEPT ![d] = Append(local[d], NewCommit(d, t))]
        /\ unmerged' = [unmerged EXCEPT ![d] = {}] /\ staged' = [staged EXCEPT ![d] = EmptyTree]
        /\ made' = made + 1
        /\ UNCHANGED <<remote, tracking, detached, step, answers,
                       resolved, yielded, phase, advertised, budget>>
    BY <1>2 DEF CommitTree
  <2>4. ASSUME NEW e \in Devices
        PROVE  CallState(e)'
    <3>1. CallState(e)
      BY DEF TypeOK, Typed
    <3>2. CASE e = d
      BY <2>1, <2>2, <2>3, <3>1, <3>2 DEF TypeOK, Typed, CallState, InRebase
    <3>3. CASE e # d
      <4>1. /\ local'[e] = local[e] /\ detached'[e] = detached[e]
            /\ unmerged'[e] = unmerged[e] /\ staged'[e] = staged[e]
        BY <2>3, <3>3 DEF TypeOK, Typed
      <4> QED BY <2>3, <3>1, <4>1 DEF CallState, InRebase
    <3> QED BY <3>2, <3>3
  <2> QED BY <2>2, <2>3, <2>4, TreeTypes DEF TypeOK, Typed
<1>3. CASE detached[d] # <<>>
  <2>1. detached[d] \in Seq(Commit)
    BY DEF TypeOK, Typed
  <2>2. /\ Append(detached[d], NewCommit(d, t)) \in Seq(Commit)
        /\ Append(detached[d], NewCommit(d, t)) # <<>>
    BY <1>1, <2>1
  <2>3. /\ detached' = [detached EXCEPT ![d] = Append(detached[d], NewCommit(d, t))]
        /\ unmerged' = [unmerged EXCEPT ![d] = {}] /\ staged' = [staged EXCEPT ![d] = EmptyTree]
        /\ made' = made + 1
        /\ UNCHANGED <<remote, local, tracking, step, answers,
                       resolved, yielded, phase, advertised, budget>>
    BY <1>3 DEF CommitTree
  <2>4. ASSUME NEW e \in Devices
        PROVE  CallState(e)'
    <3>1. CallState(e)
      BY DEF TypeOK, Typed
    <3>2. CASE e = d
      BY <2>1, <2>2, <2>3, <3>1, <3>2 DEF TypeOK, Typed, CallState, InRebase
    <3>3. CASE e # d
      <4>1. /\ local'[e] = local[e] /\ detached'[e] = detached[e]
            /\ unmerged'[e] = unmerged[e] /\ staged'[e] = staged[e]
        BY <2>3, <3>3 DEF TypeOK, Typed
      <4> QED BY <2>3, <3>1, <4>1 DEF CallState, InRebase
    <3> QED BY <3>2, <3>3
  <2> QED BY <2>2, <2>3, <2>4, TreeTypes DEF TypeOK, Typed
<1> QED BY <1>2, <1>3

\* A call touches the state of its own device only.
LEMMA OneDeviceActs ==
  ASSUME TypeOK, NEW d \in Devices, Typed', CallState(d)',
         \A e \in Devices \ {d} :
           /\ local'[e] = local[e] /\ detached'[e] = detached[e]
           /\ step'[e] = step[e] /\ unmerged'[e] = unmerged[e] /\ staged'[e] = staged[e]
           /\ answers'[e] = answers[e] /\ phase'[e] = phase[e]
  PROVE  TypeOK'
<1> SUFFICES ASSUME NEW e \in Devices PROVE CallState(e)'
  BY DEF TypeOK
<1>1. CASE e = d
  BY <1>1
<1>2. CASE e # d
  BY <1>2 DEF TypeOK, CallState, InRebase
<1> QED BY <1>1, <1>2

\* Staging beside a conflict.
LEMMA StageKeepsType ==
  ASSUME TypeOK, NEW d \in Devices, phase[d] = "idle",
         NEW paths \in SUBSET Paths, NEW t \in Trees, StageTree(d, paths, t)
  PROVE  TypeOK'
<1>1. /\ ~(unmerged[d] \subseteq paths)
      /\ unmerged' = [unmerged EXCEPT ![d] = unmerged[d] \ paths]
      /\ staged' = [staged EXCEPT ![d] = t] /\ made' = made + 1
      /\ UNCHANGED <<remote, local, tracking, detached, step, answers, resolved, yielded, phase,
                     advertised, budget>>
  BY DEF StageTree, refs
<1>2. Typed'
  BY <1>1 DEF TypeOK, Typed
<1>3. unmerged'[d] # {} /\ unmerged[d] # {}
  BY <1>1 DEF TypeOK, Typed
<1>4. CallState(d)'
  BY <1>1, <1>3 DEF TypeOK, Typed, CallState, InRebase
<1> QED BY <1>1, <1>2, <1>4, OneDeviceActs DEF TypeOK, Typed

\* GitStore::init and clone.
LEMMA SetupKeepsType ==
  ASSUME TypeOK, NEW d \in Devices, InitStore(d) \/ Clone(d)
  PROVE  TypeOK'
<1>1. \E h \in Seq(Commit) : local' = [local EXCEPT ![d] = h]
  <2>1. CASE InitStore(d)
    <3>1. PICK S \in {{}} \cup {{<<n, 0>>} : n \in Names} :
            local' = [local EXCEPT ![d] =
                   <<NewCommit(d, [p \in Paths |->
                                     IF p \in S THEN NewBlob(p) ELSE Absent])>>]
      BY <2>1 DEF InitStore
    <3> DEFINE c == NewCommit(d, [p \in Paths |-> IF p \in S THEN NewBlob(p) ELSE Absent])
    <3>2. [p \in Paths |-> IF p \in S THEN NewBlob(p) ELSE Absent] \in Trees
      BY NewBlobType DEF TypeOK, Typed, Trees
    <3>3. c \in Commit /\ local' = [local EXCEPT ![d] = <<c>>]
      BY <3>1, <3>2, NewCommitType DEF TypeOK, Typed
    <3> HIDE DEF c
    <3>4. <<c>> \in Seq(Commit)
      BY <3>3
    <3> QED BY <3>3, <3>4
  <2>2. CASE Clone(d)
    BY <2>2 DEF Clone, TypeOK, Typed
  <2> QED BY <2>1, <2>2
<1>2. PICK h \in Seq(Commit) : local' = [local EXCEPT ![d] = h]
  BY <1>1
<1>3. /\ phase[d] = "absent" /\ phase' = [phase EXCEPT ![d] = "idle"]
      /\ tracking' \in [Devices -> Seq(Commit)]
      /\ made' \in Nat
      /\ UNCHANGED <<remote, detached, step, unmerged, staged, answers, resolved,
                     yielded, advertised, budget>>
  <2>1. CASE InitStore(d)
    <3>1. /\ phase[d] = "absent" /\ phase' = [phase EXCEPT ![d] = "idle"]
          /\ made' = made + 1
          /\ UNCHANGED <<remote, tracking, rebaseVars, advertised, budget>>
      BY <2>1 DEF InitStore
    <3> QED BY <3>1 DEF rebaseVars, TypeOK, Typed
  <2>2. CASE Clone(d)
    <3>1. /\ phase[d] = "absent" /\ phase' = [phase EXCEPT ![d] = "idle"]
          /\ tracking' = [tracking EXCEPT ![d] = remote]
          /\ UNCHANGED <<remote, rebaseVars, advertised, counters>>
      BY <2>2 DEF Clone
    <3> QED BY <3>1 DEF rebaseVars, counters, TypeOK, Typed
  <2> QED BY <2>1, <2>2
<1>4. Typed'
  BY <1>2, <1>3 DEF TypeOK, Typed, Phases
<1>5. CallState(d)'
  BY <1>2, <1>3 DEF TypeOK, Typed, CallState, InRebase
<1> QED BY <1>2, <1>3, <1>4, <1>5, OneDeviceActs DEF TypeOK, Typed

\* The three outcomes of a sync that has just fetched.
LEMMA SyncKeepsType ==
  ASSUME TypeOK, NEW d \in Devices, Sync(d)
  PROVE  TypeOK'
<1>1. CASE SyncUpToDate(d)
  <2>1. /\ tracking' = [tracking EXCEPT ![d] = remote]
        /\ UNCHANGED <<remote, local, detached, step, unmerged, staged, answers, resolved,
                       yielded, phase, advertised, made, budget>>
    BY <1>1 DEF SyncUpToDate, rebaseVars, counters
  <2>2. Typed'
    BY <2>1 DEF TypeOK, Typed
  <2> QED BY <2>1, <2>2 DEF TypeOK, CallState, InRebase
<1>2. CASE SyncFastForward(d)
  <2>1. /\ phase[d] = "idle" /\ unmerged[d] = {} /\ detached[d] = <<>>
        /\ local' = [local EXCEPT ![d] = remote]
        /\ tracking' = [tracking EXCEPT ![d] = remote]
        /\ UNCHANGED <<remote, detached, step, unmerged, staged, answers, resolved,
                       yielded, phase, advertised, made, budget>>
    BY <1>2 DEF SyncFastForward, CanSync, rebaseVars, counters
  <2>2. Typed'
    BY <2>1 DEF TypeOK, Typed
  <2>3. CallState(d)'
    BY <2>1 DEF TypeOK, Typed, CallState, InRebase
  <2> QED BY <2>1, <2>2, <2>3, OneDeviceActs DEF TypeOK, Typed
<1>3. CASE SyncDiverged(d)
  <2>1. PICK base \in DivergedAt(d) : step' = [step EXCEPT ![d] = base + 1]
    BY <1>3 DEF SyncDiverged
  <2>2. base \in 0..Len(local[d])
    BY <2>1 DEF DivergedAt, MergeBases
  <2>3. /\ phase[d] = "idle" /\ unmerged[d] = {} /\ detached[d] = <<>>
        /\ remote # <<>>
        /\ tracking' = [tracking EXCEPT ![d] = remote]
        /\ detached' = [detached EXCEPT ![d] = remote]
        /\ phase' = [phase EXCEPT ![d] = "replaying"]
        /\ UNCHANGED <<remote, local, unmerged, staged, answers, resolved, yielded,
                       advertised, made, budget>>
    BY <1>3 DEF SyncDiverged, CanSync, counters
  <2>4. Typed'
    BY <2>1, <2>2, <2>3 DEF TypeOK, Typed, Phases
  <2>5. CallState(d)'
    BY <2>1, <2>2, <2>3 DEF TypeOK, Typed, CallState, InRebase
  <2> QED BY <2>1, <2>3, <2>4, <2>5, OneDeviceActs DEF TypeOK, Typed
<1> QED BY <1>1, <1>2, <1>3 DEF Sync

\* No conflict, no answers.
LEMMA NoAnswersType == NoAnswers \in Answers /\ DOMAIN NoAnswers = {}
<1>1. NoAnswers \in [{} -> ConflictChoice] /\ DOMAIN NoAnswers = {}
  BY DEF NoAnswers
<1> QED BY <1>1 DEF Answers

\* One choice for each conflicted path is a set of answers.
LEMMA AnswersType ==
  ASSUME NEW S \in SUBSET Paths, NEW ans \in [S -> ConflictChoice]
  PROVE  ans \in Answers /\ DOMAIN ans = S
BY DEF Answers

\* What SyncReturns leaves, whatever the sync did before.
LEMMA ReturnKeepsType ==
  ASSUME TypeOK, NEW d \in Devices, SyncReturns(d),
         NEW h \in Seq(Commit), local' = [local EXCEPT ![d] = h],
         NEW x \in Seq(Commit), detached' = [detached EXCEPT ![d] = x],
         unmerged[d] # {} => x # <<>>,
         budget' \in [crashes : Nat, faults : Nat, rewrites : Nat],
         UNCHANGED <<remote, tracking, unmerged, staged, advertised, made>>
  PROVE  TypeOK'
<1>1. /\ step' = [step EXCEPT ![d] = 0]
      /\ answers' = [answers EXCEPT ![d] = NoAnswers]
      /\ resolved' = [resolved EXCEPT ![d] = {}]
      /\ yielded' = [yielded EXCEPT ![d] = {}]
      /\ phase' = [phase EXCEPT ![d] = "idle"]
  BY DEF SyncReturns
<1>2. NoAnswers \in Answers /\ DOMAIN NoAnswers = {}
  BY NoAnswersType
<1>3. Typed'
  BY <1>1, <1>2 DEF TypeOK, Typed, Phases
<1>4. answers'[d] = NoAnswers
  BY <1>1 DEF TypeOK, Typed
<1>5. CallState(d)'
  BY <1>1, <1>2, <1>4 DEF TypeOK, Typed, CallState, InRebase
<1>6. \A e \in Devices \ {d} :
           /\ local'[e] = local[e] /\ detached'[e] = detached[e]
           /\ step'[e] = step[e] /\ unmerged'[e] = unmerged[e] /\ staged'[e] = staged[e]
           /\ answers'[e] = answers[e] /\ phase'[e] = phase[e]
  BY <1>1 DEF TypeOK, Typed
<1> QED BY <1>3, <1>5, <1>6, OneDeviceActs

\* A replayed commit leaves the device with one commit fewer to replay.
LEMMA ReplayStepKeepsType ==
  ASSUME TypeOK, NEW d \in Devices, InRebase(d), step[d] <= Len(local[d]),
         NEW t \in Trees, detached' = [detached EXCEPT ![d] = Replayed(d, t)],
         step' = [step EXCEPT ![d] = @ + 1],
         unmerged' = [unmerged EXCEPT ![d] = {}],
         staged' = [staged EXCEPT ![d] = EmptyTree],
         answers' = [answers EXCEPT ![d] = NoAnswers],
         phase' = [phase EXCEPT ![d] = "replaying"],
         yielded' \in [Devices -> SUBSET (BlobIds \cup {Absent})],
         UNCHANGED <<remote, local, tracking, resolved, advertised, made, budget>>
  PROVE  TypeOK'
<1>1. Replayed(d, t) \in Seq(Commit) /\ Replayed(d, t) # <<>>
  BY ReplayedType
<1>2. NoAnswers \in Answers /\ DOMAIN NoAnswers = {}
  BY NoAnswersType
<1>3. step[d] \in 1..Len(local[d])
  BY MergeTreeTypes
<1>4. Typed'
  <2>1. /\ detached' \in [Devices -> Seq(Commit)]
        /\ step' \in [Devices -> Nat]
    BY <1>1, <1>3 DEF TypeOK, Typed
  <2>2. /\ unmerged' \in [Devices -> SUBSET Paths]
        /\ answers' \in [Devices -> Answers]
        /\ phase' \in [Devices -> Phases]
        /\ staged' \in [Devices -> Trees]
    BY <1>2, TreeTypes DEF TypeOK, Typed, Phases
  <2> QED BY <2>1, <2>2 DEF TypeOK, Typed
<1>5. answers'[d] = NoAnswers
  BY DEF TypeOK, Typed
<1>6. CallState(d)'
  BY <1>1, <1>2, <1>3, <1>5 DEF TypeOK, Typed, CallState, InRebase
<1>7. \A e \in Devices \ {d} :
           /\ local'[e] = local[e] /\ detached'[e] = detached[e]
           /\ step'[e] = step[e] /\ unmerged'[e] = unmerged[e] /\ staged'[e] = staged[e]
           /\ answers'[e] = answers[e] /\ phase'[e] = phase[e]
  BY DEF TypeOK, Typed
<1> QED BY <1>4, <1>6, <1>7, OneDeviceActs

\* The steps of rebase_onto.
LEMMA RebaseKeepsType ==
  ASSUME TypeOK, NEW d \in Devices, Rebase(d)
  PROVE  TypeOK'
<1>1. CASE ReplayClean(d)
  <2>1. InRebase(d) /\ step[d] <= Len(local[d])
    BY <1>1 DEF ReplayClean, InRebase
  <2>2. MergedTree(AncTree(d), OurTree(d), TheirTree(d)) \in Trees
    BY <2>1, MergeTreeTypes, MergedTreeType
  <2>3. /\ phase[d] = "replaying"
        /\ detached' = [detached EXCEPT ![d] =
                   Replayed(d, MergedTree(AncTree(d), OurTree(d), TheirTree(d)))]
        /\ step' = [step EXCEPT ![d] = @ + 1]
        /\ UNCHANGED <<remote, local, tracking, unmerged, staged, answers, resolved,
                       yielded, phase, advertised, made, budget>>
    BY <1>1 DEF ReplayClean, refs, counters
  <2>4. unmerged[d] = {} /\ staged[d] = EmptyTree /\ DOMAIN answers[d] = {}
    BY <2>3 DEF TypeOK, CallState
  <2>5. answers[d] = NoAnswers
    <3>1. answers[d] \in Answers
      BY DEF TypeOK, Typed
    <3>2. PICK S \in SUBSET Paths : answers[d] \in [S -> ConflictChoice]
      BY <3>1 DEF Answers
    <3>3. answers[d] \in [{} -> ConflictChoice] /\ NoAnswers \in [{} -> ConflictChoice]
      BY <2>4, <3>2 DEF NoAnswers
    <3> QED BY <3>3
  <2>6. /\ unmerged' = [unmerged EXCEPT ![d] = {}] /\ staged' = [staged EXCEPT ![d] = EmptyTree]
        /\ answers' = [answers EXCEPT ![d] = NoAnswers]
        /\ phase' = [phase EXCEPT ![d] = "replaying"]
        /\ yielded' \in [Devices -> SUBSET (BlobIds \cup {Absent})]
    BY <2>3, <2>4, <2>5 DEF TypeOK, Typed
  <2> QED BY <2>1, <2>2, <2>3, <2>6, ReplayStepKeepsType
<1>2. CASE AskResolver(d)
  <2>1. /\ phase[d] = "replaying" /\ step[d] <= Len(local[d])
        /\ ConflictsNow(d) # {}
        /\ unmerged' = [unmerged EXCEPT ![d] = ConflictsNow(d)]
        /\ staged' = [staged EXCEPT ![d] = MergedTree(AncTree(d), OurTree(d), TheirTree(d))]
        /\ resolved' = [resolved EXCEPT ![d] = @ \cup ConflictsNow(d)]
        /\ phase' = [phase EXCEPT ![d] = "asking"]
        /\ UNCHANGED <<remote, local, tracking, detached, step, answers,
                       yielded, advertised, made, budget>>
    BY <1>2 DEF AskResolver, refs, counters
  <2>2. /\ ConflictsNow(d) \subseteq Paths
        /\ MergedTree(AncTree(d), OurTree(d), TheirTree(d)) \in Trees
    <3>1. InRebase(d)
      BY <2>1 DEF InRebase
    <3> QED BY <2>1, <3>1, ConflictsType, MergeTreeTypes, MergedTreeType DEF ConflictsNow
  <2>3. Typed'
    BY <2>1, <2>2 DEF TypeOK, Typed, Phases
  <2>4. CallState(d)'
    BY <2>1 DEF TypeOK, Typed, CallState, InRebase
  <2>5. \A e \in Devices \ {d} :
             /\ local'[e] = local[e] /\ detached'[e] = detached[e]
             /\ step'[e] = step[e] /\ unmerged'[e] = unmerged[e] /\ staged'[e] = staged[e]
             /\ answers'[e] = answers[e] /\ phase'[e] = phase[e]
    BY <2>1 DEF TypeOK, Typed
  <2> QED BY <2>3, <2>4, <2>5, OneDeviceActs
<1>3. CASE Answer(d)
  <2>1. PICK ans \in [unmerged[d] -> ConflictChoice] :
          answers' = [answers EXCEPT ![d] = ans]
    BY <1>3 DEF Answer
  <2>2. /\ phase[d] = "asking"
        /\ phase' = [phase EXCEPT ![d] = "applying"]
        /\ UNCHANGED <<remote, local, tracking, detached, step, unmerged, staged, resolved,
                       yielded, advertised, made, budget>>
    BY <1>3 DEF Answer, refs, counters
  <2>3. ans \in Answers /\ DOMAIN ans = unmerged[d]
    BY AnswersType DEF TypeOK, Typed
  <2>4. Typed'
    BY <2>1, <2>2, <2>3 DEF TypeOK, Typed, Phases
  <2>5. answers'[d] = ans
    BY <2>1 DEF TypeOK, Typed
  <2>6. CallState(d)'
    BY <2>2, <2>3, <2>5 DEF TypeOK, Typed, CallState, InRebase
  <2>7. \A e \in Devices \ {d} :
             /\ local'[e] = local[e] /\ detached'[e] = detached[e]
             /\ step'[e] = step[e] /\ unmerged'[e] = unmerged[e] /\ staged'[e] = staged[e]
             /\ answers'[e] = answers[e] /\ phase'[e] = phase[e]
    BY <2>1, <2>2 DEF TypeOK, Typed
  <2> QED BY <2>4, <2>6, <2>7, OneDeviceActs
<1>4. CASE ApplyChoices(d)
  <2> DEFINE new == Resolved(answers[d], AncTree(d), OurTree(d), TheirTree(d))
  <2>1. /\ phase[d] = "applying"
        /\ detached' = [detached EXCEPT ![d] = Replayed(d, new)]
        /\ step' = [step EXCEPT ![d] = @ + 1]
        /\ unmerged' = [unmerged EXCEPT ![d] = {}] /\ staged' = [staged EXCEPT ![d] = EmptyTree]
        /\ answers' = [answers EXCEPT ![d] = NoAnswers]
        /\ phase' = [phase EXCEPT ![d] = "replaying"]
        /\ yielded' = [yielded EXCEPT ![d] = @ \cup
                          GivenUp(answers[d], OurTree(d), TheirTree(d))]
        /\ UNCHANGED <<remote, local, tracking, resolved, advertised, made, budget>>
    BY <1>4 DEF ApplyChoices, refs, counters
  <2>2. /\ InRebase(d) /\ step[d] <= Len(local[d])
        /\ DOMAIN answers[d] \subseteq Paths
    BY <2>1 DEF TypeOK, Typed, CallState, InRebase
  <2>3. /\ AncTree(d) \in Trees /\ OurTree(d) \in Trees /\ TheirTree(d) \in Trees
    BY <2>2, MergeTreeTypes
  <2>4. new \in Trees
    BY <2>2, <2>3, ResolvedType
  <2>5. GivenUp(answers[d], OurTree(d), TheirTree(d)) \subseteq BlobIds \cup {Absent}
    BY <2>2, <2>3, GivenUpType
  <2> HIDE DEF new
  <2>6. yielded' \in [Devices -> SUBSET (BlobIds \cup {Absent})]
    BY <2>1, <2>5 DEF TypeOK, Typed
  <2> QED BY <2>1, <2>2, <2>4, <2>6, ReplayStepKeepsType
<1>5. CASE ApplyFails(d)
  <2>1. /\ SyncReturns(d) /\ phase[d] = "applying"
        /\ UNCHANGED <<remote, local, tracking, detached, unmerged, staged, advertised,
                       made, budget>>
    BY <1>5 DEF ApplyFails, refs, counters
  <2>2. /\ local[d] \in Seq(Commit) /\ local' = [local EXCEPT ![d] = local[d]]
        /\ detached[d] \in Seq(Commit) /\ detached' = [detached EXCEPT ![d] = detached[d]]
        /\ unmerged[d] # {} => detached[d] # <<>>
        /\ budget' \in [crashes : Nat, faults : Nat, rewrites : Nat]
    BY <2>1 DEF TypeOK, Typed, CallState
  <2> QED BY <2>1, <2>2, ReturnKeepsType
<1>6. CASE FinishRebase(d)
  <2>1. /\ SyncReturns(d) /\ phase[d] = "replaying"
        /\ local' = [local EXCEPT ![d] = detached[d]]
        /\ detached' = [detached EXCEPT ![d] = <<>>]
        /\ UNCHANGED <<remote, tracking, unmerged, staged, advertised, made, budget>>
    BY <1>6 DEF FinishRebase, counters
  <2>2. detached[d] \in Seq(Commit) /\ unmerged[d] = {}
    BY <2>1 DEF TypeOK, Typed, CallState
  <2>3. budget' \in [crashes : Nat, faults : Nat, rewrites : Nat]
    BY <2>1 DEF TypeOK, Typed
  <2>4. <<>> \in Seq(Commit)
    OBVIOUS
  <2> QED BY <2>1, <2>2, <2>3, <2>4, ReturnKeepsType
<1> QED BY <1>1, <1>2, <1>3, <1>4, <1>5, <1>6 DEF Rebase

\* A kill in the middle of a rebase.
LEMMA CrashKeepsType ==
  ASSUME TypeOK, NEW d \in Devices, Crash(d)
  PROVE  TypeOK'
<1>1. /\ SyncReturns(d) /\ budget.crashes > 0
      /\ budget' = [budget EXCEPT !.crashes = @ - 1]
      /\ UNCHANGED <<remote, local, tracking, detached, unmerged, staged, advertised, made>>
  BY DEF Crash, refs
<1>2. /\ local[d] \in Seq(Commit) /\ local' = [local EXCEPT ![d] = local[d]]
      /\ detached[d] \in Seq(Commit) /\ detached' = [detached EXCEPT ![d] = detached[d]]
      /\ unmerged[d] # {} => detached[d] # <<>>
  BY <1>1 DEF TypeOK, Typed, CallState
<1>3. budget' \in [crashes : Nat, faults : Nat, rewrites : Nat]
  <2>1. budget \in [crashes : Nat, faults : Nat, rewrites : Nat]
    BY DEF TypeOK, Typed
  <2>2. budget.crashes - 1 \in Nat
    BY <1>1, <2>1
  <2> QED BY <1>1, <2>1, <2>2
<1> QED BY <1>1, <1>2, <1>3, ReturnKeepsType

\* Using up a fault leaves a budget.
LEMMA FaultType ==
  ASSUME TypeOK, SpendFault
  PROVE  budget' \in [crashes : Nat, faults : Nat, rewrites : Nat]
<1>1. budget \in [crashes : Nat, faults : Nat, rewrites : Nat]
  BY DEF TypeOK, Typed
<1>2. budget' = [budget EXCEPT !.faults = budget.faults - 1] /\ budget.faults - 1 \in Nat
  BY <1>1 DEF SpendFault
<1> QED BY <1>1, <1>2

\* push, and everything that can become of it.
LEMMA PushKeepsType ==
  ASSUME TypeOK, NEW d \in Devices,
         PushStart(d) \/ PushNothing(d) \/ PushReply(d)
  PROVE  TypeOK'
<1>1. CASE PushStart(d)
  <2>1. /\ phase[d] = "idle" /\ detached[d] = <<>> /\ local[d] # <<>>
        /\ advertised' = [advertised EXCEPT ![d] = remote]
        /\ phase' = [phase EXCEPT ![d] = "sending"]
        /\ UNCHANGED <<remote, local, tracking, detached, step, unmerged, staged, answers,
                       resolved, yielded, made, budget>>
    BY <1>1 DEF PushStart, refs, rebaseVars, counters
  <2>2. Typed'
    BY <2>1 DEF TypeOK, Typed, Phases
  <2>3. CallState(d)'
    BY <2>1 DEF TypeOK, Typed, CallState, InRebase
  <2> QED BY <2>1, <2>2, <2>3, OneDeviceActs DEF TypeOK, Typed
<1>2. CASE PushNothing(d)
  <2>1. /\ tracking' = [tracking EXCEPT ![d] = local[d]]
        /\ UNCHANGED <<remote, local, detached, step, unmerged, staged, answers, resolved,
                       yielded, phase, advertised, made, budget>>
    BY <1>2 DEF PushNothing, rebaseVars, counters
  <2>2. Typed'
    BY <2>1 DEF TypeOK, Typed
  <2> QED BY <2>1, <2>2 DEF TypeOK, CallState, InRebase
<1>3. CASE PushReply(d)
  <2>1. /\ phase[d] = "sending"
        /\ phase' = [phase EXCEPT ![d] = "idle"]
        /\ advertised' = [advertised EXCEPT ![d] = <<>>]
        /\ UNCHANGED <<local, detached, step, unmerged, staged, answers, resolved,
                       yielded, made>>
    BY <1>3 DEF PushReply, PushAccepted, PushRejected, PushBroken, PushEnds, rebaseVars
  <2>2. remote' \in {remote, local[d]}
    BY <1>3 DEF PushReply, PushAccepted, PushRejected, PushBroken
  <2>3. tracking' = tracking \/ tracking' = [tracking EXCEPT ![d] = local[d]]
    BY <1>3 DEF PushReply, PushAccepted, PushRejected, PushBroken
  <2>4. budget' \in [crashes : Nat, faults : Nat, rewrites : Nat]
    <3>1. budget' = budget \/ SpendFault
      BY <1>3 DEF PushReply, PushAccepted, PushRejected, PushBroken
    <3> QED BY <3>1, FaultType DEF TypeOK, Typed
  <2>5. <<>> \in Seq(Commit)
    OBVIOUS
  <2>6. tracking' \in [Devices -> Seq(Commit)]
    BY <2>3 DEF TypeOK, Typed
  <2>7. Typed'
    <3>1. remote' \in Seq(Commit)
      BY <2>2 DEF TypeOK, Typed
    <3>2. advertised' \in [Devices -> Seq(Commit)] /\ phase' \in [Devices -> Phases]
      BY <2>1, <2>5 DEF TypeOK, Typed, Phases
    <3> QED BY <2>1, <2>4, <2>6, <3>1, <3>2 DEF TypeOK, Typed
  <2>8. CallState(d)'
    BY <2>1 DEF TypeOK, Typed, CallState, InRebase
  <2> QED BY <2>1, <2>7, <2>8, OneDeviceActs DEF TypeOK, Typed
<1> QED BY <1>1, <1>2, <1>3

\* Somebody else's force-push leaves a history on the server.
LEMMA RewriteKeepsType ==
  ASSUME TypeOK, Rewrite
  PROVE  TypeOK'
<1>1. PICK k \in 0..(Len(remote) - 1), p \in Paths :
        remote' = Append(SubSeq(remote, 1, k),
                         NewCommit(Nobody, [TreeAt(remote, k) EXCEPT ![p] = NewBlob(p)]))
  BY DEF Rewrite
<1>2. remote \in Seq(Commit) /\ k \in 0..Len(remote)
  BY <1>1 DEF TypeOK, Typed
<1> DEFINE new == [TreeAt(remote, k) EXCEPT ![p] = NewBlob(p)]
<1>3. new \in Trees
  BY <1>2, HistoryTreeTypes, NewBlobType, TreeTypes DEF TypeOK, Typed
<1> HIDE DEF new
<1>4. NewCommit(Nobody, new) \in Commit
  BY <1>3, NewCommitType DEF TypeOK, Typed
<1>5. SubSeq(remote, 1, k) \in Seq(Commit)
  BY <1>2
<1>6. remote' \in Seq(Commit)
  BY <1>1, <1>4, <1>5 DEF new
<1>7. /\ made' = made + 1 /\ budget.rewrites > 0
      /\ budget' = [budget EXCEPT !.rewrites = budget.rewrites - 1]
      /\ UNCHANGED <<local, tracking, detached, step, unmerged, staged, answers,
                     resolved, yielded, phase, advertised>>
  BY DEF Rewrite, refs, rebaseVars
<1>8. budget' \in [crashes : Nat, faults : Nat, rewrites : Nat]
  <2>1. budget \in [crashes : Nat, faults : Nat, rewrites : Nat]
    BY DEF TypeOK, Typed
  <2>2. budget.rewrites - 1 \in Nat
    BY <1>7, <2>1
  <2> QED BY <1>7, <2>1, <2>2
<1>9. made' \in Nat
  BY <1>7 DEF TypeOK, Typed
<1>10. UNCHANGED <<local, tracking, detached, step, unmerged, staged, answers,
                   resolved, yielded, phase, advertised>>
  BY <1>7
<1>11. Typed'
  BY <1>6, <1>8, <1>9, <1>10 DEF TypeOK, Typed
<1> QED BY <1>10, <1>11 DEF TypeOK, CallState, InRebase

\* No store anywhere, nothing pushed.
LEMMA InitHasType == Init => TypeOK
<1> SUFFICES ASSUME Init PROVE TypeOK
  OBVIOUS
<1>1. NoAnswers \in Answers /\ DOMAIN NoAnswers = {}
  BY NoAnswersType
<1>2. Typed
  <2>1. budget \in [crashes : Nat, faults : Nat, rewrites : Nat]
    BY SyncAssumption DEF Init
  <2> QED BY <1>1, <2>1, TreeTypes DEF Init, Typed, Phases
<1>3. \A d \in Devices : CallState(d)
  BY <1>1 DEF Init, CallState, InRebase
<1> QED BY <1>2, <1>3 DEF TypeOK

\* TypeOK is inductive.
LEMMA StepKeepsType == TypeOK /\ [Next]_vars => TypeOK'
<1> SUFFICES ASSUME TypeOK, [Next]_vars PROVE TypeOK'
  OBVIOUS
<1>1. ASSUME NEW d \in Devices, InitStore(d) \/ Clone(d) PROVE TypeOK'
  BY <1>1, SetupKeepsType
<1>2. ASSUME NEW d \in Devices, Edit(d) PROVE TypeOK'
  BY <1>2, EditCommits, CommitKeepsType, StageKeepsType DEF EditStep
<1>3. ASSUME NEW d \in Devices, Sync(d) PROVE TypeOK'
  BY <1>3, SyncKeepsType
<1>4. ASSUME NEW d \in Devices, Rebase(d) PROVE TypeOK'
  BY <1>4, RebaseKeepsType
<1>5. ASSUME NEW d \in Devices, Crash(d) PROVE TypeOK'
  BY <1>5, CrashKeepsType
<1>6. ASSUME NEW d \in Devices, PushStart(d) \/ PushNothing(d) \/ PushReply(d)
      PROVE TypeOK'
  BY <1>6, PushKeepsType
<1>7. CASE Rewrite
  BY <1>7, RewriteKeepsType
<1>8. CASE UNCHANGED vars
  BY <1>8 DEF vars, refs, rebaseVars, counters, TypeOK, Typed, CallState, InRebase
<1> QED BY <1>1, <1>2, <1>3, <1>4, <1>5, <1>6, <1>7, <1>8 DEF Next, DeviceStep

\* However syncs, pushes, crashes and force-pushes interleave, every variable
\* keeps its type and no call leaves its working state behind.
THEOREM TypeCorrect == Spec => []TypeOK
<1>1. Init => TypeOK
  BY InitHasType
<1>2. TypeOK /\ [Next]_vars => TypeOK'
  BY StepKeepsType
<1> QED BY <1>1, <1>2, PTL DEF Spec

(***************************************************************************)
(* The server's history only grows.                                        *)
(*                                                                         *)
(* A push in flight carries a branch that extends the server history it    *)
(* was checked against: that holds when it starts, and nothing moves the   *)
(* branch while the call lasts.  The server swaps only if that history is  *)
(* still its own.                                                          *)
(***************************************************************************)
SendingExtends ==
  \A d \in Devices : phase[d] = "sending" => IsAncestor(advertised[d], local[d])

\* What of a device's state any step leaves alone while the device pushes.
LEMMA SendingFrame ==
  ASSUME TypeOK, [Next]_vars, NEW e \in Devices, phase'[e] = "sending"
  PROVE  \/ PushStart(e)
         \/ /\ phase[e] = "sending"
            /\ local'[e] = local[e]
            /\ advertised'[e] = advertised[e]
<1> DEFINE Frame == /\ phase[e] = "sending"
                    /\ local'[e] = local[e]
                    /\ advertised'[e] = advertised[e]
<1>1. ASSUME NEW d \in Devices, InitStore(d) \/ Clone(d) PROVE Frame
  <2>1. /\ phase' = [phase EXCEPT ![d] = "idle"] /\ UNCHANGED advertised
        /\ \E h : local' = [local EXCEPT ![d] = h]
    BY <1>1 DEF InitStore, Clone
  <2> QED BY <2>1 DEF TypeOK, Typed
<1>2. ASSUME NEW d \in Devices, Edit(d) PROVE Frame
  <2>1. phase[d] = "idle" /\ \E t \in Trees : EditStep(d, t)
    BY <1>2, EditCommits
  <2>2. /\ UNCHANGED <<phase, advertised>>
        /\ UNCHANGED local \/ \E h : local' = [local EXCEPT ![d] = h]
    BY <2>1 DEF EditStep, CommitTree, StageTree, refs
  <2> QED BY <2>1, <2>2 DEF TypeOK, Typed
<1>3. ASSUME NEW d \in Devices, Sync(d) PROVE Frame
  <2>1. /\ phase[d] = "idle" /\ UNCHANGED advertised
        /\ UNCHANGED phase \/ phase' = [phase EXCEPT ![d] = "replaying"]
        /\ UNCHANGED local \/ local' = [local EXCEPT ![d] = remote]
    BY <1>3 DEF Sync, SyncUpToDate, SyncFastForward, SyncDiverged, CanSync
  <2> QED BY <2>1 DEF TypeOK, Typed
<1>4. ASSUME NEW d \in Devices, Rebase(d) \/ Crash(d) PROVE Frame
  <2>1. /\ InRebase(d) /\ UNCHANGED advertised
        /\ \/ UNCHANGED phase
           \/ \E s \in {"idle", "replaying", "asking", "applying"} :
                phase' = [phase EXCEPT ![d] = s]
        /\ UNCHANGED local \/ local' = [local EXCEPT ![d] = detached[d]]
    BY <1>4 DEF Rebase, ReplayClean, AskResolver, Answer, ApplyChoices, ApplyFails,
                FinishRebase, Crash, SyncReturns, InRebase, refs
  <2> QED BY <2>1 DEF TypeOK, Typed, InRebase
<1>5. ASSUME NEW d \in Devices, PushStart(d) PROVE PushStart(e) \/ Frame
  BY <1>5 DEF PushStart, refs, TypeOK, Typed
<1>6. ASSUME NEW d \in Devices, PushNothing(d) PROVE Frame
  BY <1>6 DEF PushNothing
<1>7. ASSUME NEW d \in Devices, PushReply(d) PROVE Frame
  <2>1. /\ phase' = [phase EXCEPT ![d] = "idle"]
        /\ advertised' = [advertised EXCEPT ![d] = <<>>]
        /\ UNCHANGED local
    BY <1>7 DEF PushReply, PushAccepted, PushRejected, PushBroken, PushEnds
  <2> QED BY <2>1 DEF TypeOK, Typed
<1>8. CASE Rewrite \/ UNCHANGED vars
  BY <1>8 DEF Rewrite, vars, refs
<1> QED BY <1>1, <1>2, <1>3, <1>4, <1>5, <1>6, <1>7, <1>8 DEF Next, DeviceStep

\* A push in flight extends what it was checked against.
LEMMA SendingExtendsStep ==
  ASSUME TypeOK, SendingExtends, [Next]_vars
  PROVE  SendingExtends'
<1> SUFFICES ASSUME NEW e \in Devices, phase'[e] = "sending"
             PROVE  IsAncestor(advertised'[e], local'[e])
  BY DEF SendingExtends, IsAncestor
<1>1. CASE PushStart(e)
  BY <1>1 DEF PushStart, refs, TypeOK, Typed
<1>2. CASE phase[e] = "sending" /\ local'[e] = local[e] /\ advertised'[e] = advertised[e]
  BY <1>2 DEF SendingExtends
<1> QED BY <1>1, <1>2, SendingFrame

\* A step either leaves the server alone, or is a push of a branch that
\* extends it, or somebody else's force-push.
LEMMA ServerStep ==
  ASSUME TypeOK, SendingExtends, [Next]_vars
  PROVE  \/ UNCHANGED remote
         \/ \E d \in Devices : /\ PushReply(d)
                               /\ remote' = local[d]
                               /\ IsAncestor(remote, local[d])
         \/ Rewrite
<1>1. ASSUME NEW d \in Devices, InitStore(d) \/ Clone(d) \/ Sync(d)
      PROVE  UNCHANGED remote
  BY <1>1 DEF InitStore, Clone, Sync, SyncUpToDate, SyncFastForward, SyncDiverged
<1>2. ASSUME NEW d \in Devices, Edit(d) PROVE UNCHANGED remote
  BY <1>2, EditCommits DEF EditStep, CommitTree, StageTree
<1>3. ASSUME NEW d \in Devices, Rebase(d) \/ Crash(d) PROVE UNCHANGED remote
  BY <1>3 DEF Rebase, ReplayClean, AskResolver, Answer, ApplyChoices, ApplyFails,
              FinishRebase, Crash
<1>4. ASSUME NEW d \in Devices, PushStart(d) \/ PushNothing(d) PROVE UNCHANGED remote
  BY <1>4 DEF PushStart, PushNothing
<1>5. ASSUME NEW d \in Devices, PushReply(d)
      PROVE  UNCHANGED remote \/ (remote' = local[d] /\ IsAncestor(remote, local[d]))
  <2>1. \/ UNCHANGED remote
        \/ phase[d] = "sending" /\ remote = advertised[d] /\ remote' = local[d]
    BY <1>5 DEF PushReply, PushAccepted, PushRejected, PushBroken, PushEnds
  <2> QED BY <2>1 DEF SendingExtends
<1>6. CASE UNCHANGED vars
  BY <1>6 DEF vars
<1> QED BY <1>1, <1>2, <1>3, <1>4, <1>5, <1>6 DEF Next, DeviceStep

\* Unless somebody else force-pushes, a step only extends the server's history.
LEMMA ServerGrows ==
  ASSUME TypeOK, SendingExtends, [Next]_vars
  PROVE  IsAncestor(remote, remote') \/ budget'.rewrites < budget.rewrites
<1>1. CASE UNCHANGED remote
  BY <1>1, AncestorReflexive DEF TypeOK, Typed
<1>2. CASE Rewrite
  <2>1. budget \in [crashes : Nat, faults : Nat, rewrites : Nat]
    BY DEF TypeOK, Typed
  <2>2. budget' = [budget EXCEPT !.rewrites = budget.rewrites - 1]
    BY <1>2 DEF Rewrite
  <2> QED BY <2>1, <2>2
<1> QED BY <1>1, <1>2, ServerStep

\* PassPony never force-pushes: whatever it and the transport do, a step that
\* is not somebody else's rewrite only extends the server's history.
THEOREM NoForcePush == Spec => NeverForcePushes
<1> DEFINE Inv == TypeOK /\ SendingExtends
<1>1. Init => Inv
  BY InitHasType DEF Init, SendingExtends
<1>2. Inv /\ [Next]_vars => Inv'
  BY StepKeepsType, SendingExtendsStep
<1>3. Inv /\ [Next]_vars => [IsAncestor(remote, remote') \/ budget'.rewrites < budget.rewrites]_vars
  BY ServerGrows
<1> QED BY <1>1, <1>2, <1>3, PTL DEF Spec, NeverForcePushes

(***************************************************************************)
(* What a device has not published is its own work.                        *)
(*                                                                         *)
(* ForeignCommitsArePublished alone is not inductive: a rebase publishes   *)
(* nothing but builds the next branch at the detached HEAD, so the same    *)
(* must hold there, and every commit still to be replayed must be the      *)
(* device's own.  Commits of others enter a branch only by taking the      *)
(* server's history as a whole, and the server's history only grows.       *)
(***************************************************************************)
OwnOrOn(r, h, d) ==
  \A i \in 1..Len(h) :
    h[i].author # d => i <= Len(r) /\ \A j \in 1..i : h[j] = r[j]

OwnWorkOf(d) ==
  /\ OwnOrOn(remote, local[d], d)
  /\ OwnOrOn(remote, detached[d], d)
  /\ InRebase(d) => \A j \in step[d]..Len(local[d]) : local[d][j].author = d

OwnWork == \A d \in Devices : OwnWorkOf(d)

\* OwnOrOn survives the growth of the server's history.
LEMMA OwnOrOnGrows ==
  ASSUME NEW r \in Seq(Commit), NEW s \in Seq(Commit), NEW h \in Seq(Commit), NEW d,
         IsAncestor(r, s), OwnOrOn(r, h, d)
  PROVE  OwnOrOn(s, h, d)
BY DEF IsAncestor, OwnOrOn

\* Everything on the server's history is on the server.
LEMMA OwnOrOnItself ==
  ASSUME NEW r \in Seq(Commit), NEW d
  PROVE  OwnOrOn(r, r, d)
BY DEF OwnOrOn

\* A device's own commit on top keeps OwnOrOn.
LEMMA OwnOrOnAppend ==
  ASSUME NEW r \in Seq(Commit), NEW h \in Seq(Commit), NEW d, NEW c \in Commit,
         c.author = d, OwnOrOn(r, h, d)
  PROVE  OwnOrOn(r, Append(h, c), d)
<1> SUFFICES ASSUME NEW i \in 1..Len(Append(h, c)), Append(h, c)[i].author # d
             PROVE  i <= Len(r) /\ \A j \in 1..i : Append(h, c)[j] = r[j]
  BY DEF OwnOrOn
<1>1. i \in 1..Len(h) /\ \A j \in 1..i : Append(h, c)[j] = h[j]
  OBVIOUS
<1> QED BY <1>1 DEF OwnOrOn

\* A step that leaves a device's branch and HEAD alone keeps its work its own,
\* as long as the server's history only grows.
LEMMA UntouchedOwnWork ==
  ASSUME TypeOK, OwnWork, IsAncestor(remote, remote'), remote' \in Seq(Commit),
         NEW e \in Devices,
         local'[e] = local[e], detached'[e] = detached[e],
         InRebase(e)' => InRebase(e) /\ step'[e] = step[e]
  PROVE  OwnWorkOf(e)'
<1>1. /\ remote \in Seq(Commit) /\ local[e] \in Seq(Commit)
      /\ detached[e] \in Seq(Commit)
  BY DEF TypeOK, Typed
<1>2. OwnOrOn(remote', local[e], e) /\ OwnOrOn(remote', detached[e], e)
  BY <1>1, OwnOrOnGrows DEF OwnWork, OwnWorkOf
<1> QED BY <1>1, <1>2 DEF OwnWork, OwnWorkOf, OwnOrOn

\* What a step of another device leaves alone.
LEMMA OthersFrame ==
  ASSUME TypeOK, NEW d \in Devices, DeviceStep(d), NEW e \in Devices \ {d}
  PROVE  /\ local'[e] = local[e] /\ detached'[e] = detached[e]
         /\ step'[e] = step[e] /\ phase'[e] = phase[e]
<1>1. CASE InitStore(d) \/ Clone(d)
  <2>1. /\ \E s : phase' = [phase EXCEPT ![d] = s]
        /\ \E h : local' = [local EXCEPT ![d] = h]
        /\ UNCHANGED <<detached, step>>
    BY <1>1 DEF InitStore, Clone, rebaseVars
  <2> QED BY <2>1 DEF TypeOK, Typed
<1>2. CASE Edit(d)
  <2>1. \E t \in Trees : EditStep(d, t)
    BY <1>2, EditCommits
  <2>2. /\ UNCHANGED <<phase, step>>
        /\ UNCHANGED local \/ \E h : local' = [local EXCEPT ![d] = h]
        /\ UNCHANGED detached \/ \E h : detached' = [detached EXCEPT ![d] = h]
    BY <2>1 DEF EditStep, CommitTree, StageTree, refs
  <2> QED BY <2>2 DEF TypeOK, Typed
<1>3. CASE Sync(d)
  <2>1. /\ UNCHANGED phase \/ \E s : phase' = [phase EXCEPT ![d] = s]
        /\ UNCHANGED local \/ \E h : local' = [local EXCEPT ![d] = h]
        /\ UNCHANGED detached \/ \E h : detached' = [detached EXCEPT ![d] = h]
        /\ UNCHANGED step \/ \E i : step' = [step EXCEPT ![d] = i]
    BY <1>3 DEF Sync, SyncUpToDate, SyncFastForward, SyncDiverged, rebaseVars
  <2> QED BY <2>1 DEF TypeOK, Typed
<1>4. CASE Rebase(d) \/ Crash(d)
  <2>1. UNCHANGED local \/ \E h : local' = [local EXCEPT ![d] = h]
    BY <1>4 DEF Rebase, ReplayClean, AskResolver, Answer, ApplyChoices, ApplyFails,
                FinishRebase, Crash, refs
  <2>2. UNCHANGED detached \/ \E h : detached' = [detached EXCEPT ![d] = h]
    BY <1>4 DEF Rebase, ReplayClean, AskResolver, Answer, ApplyChoices, ApplyFails,
                FinishRebase, Crash
  <2>3. UNCHANGED step \/ \E i : step' = [step EXCEPT ![d] = i]
    BY <1>4 DEF Rebase, ReplayClean, AskResolver, Answer, ApplyChoices, ApplyFails,
                FinishRebase, Crash, SyncReturns
  <2>4. UNCHANGED phase \/ \E s : phase' = [phase EXCEPT ![d] = s]
    BY <1>4 DEF Rebase, ReplayClean, AskResolver, Answer, ApplyChoices, ApplyFails,
                FinishRebase, Crash, SyncReturns
  <2> QED BY <2>1, <2>2, <2>3, <2>4 DEF TypeOK, Typed
<1>5. CASE PushStart(d) \/ PushNothing(d) \/ PushReply(d)
  <2>1. /\ UNCHANGED <<local, detached, step>>
        /\ UNCHANGED phase \/ \E s : phase' = [phase EXCEPT ![d] = s]
    BY <1>5 DEF PushStart, PushNothing, PushReply, PushAccepted, PushRejected,
                PushBroken, PushEnds, refs, rebaseVars
  <2> QED BY <2>1 DEF TypeOK, Typed
<1> QED BY <1>1, <1>2, <1>3, <1>4, <1>5 DEF DeviceStep

\* Replaying a commit of the device's own work keeps HEAD its own work.
LEMMA ReplayKeepsOwnWork ==
  ASSUME TypeOK, OwnWork, NEW d \in Devices, InRebase(d), step[d] <= Len(local[d]),
         NEW t \in Trees
  PROVE  OwnOrOn(remote, Replayed(d, t), d)
<1>1. local[d][step[d]].author = d
  BY MergeTreeTypes DEF OwnWork, OwnWorkOf
<1>2. detached[d] \in Seq(Commit) /\ remote \in Seq(Commit)
  BY DEF TypeOK, Typed
<1>3. CASE Replayed(d, t) = detached[d]
  BY <1>3 DEF OwnWork, OwnWorkOf
<1>4. CASE \E c \in Commit : /\ Replayed(d, t) = Append(detached[d], c)
                             /\ c.author = local[d][step[d]].author
  BY <1>1, <1>2, <1>4, OwnOrOnAppend DEF OwnWork, OwnWorkOf
<1> QED BY <1>3, <1>4, ReplayedType

\* Whatever a device does, its branch and HEAD stay its own work.
LEMMA ActingDeviceKeepsOwnWork ==
  ASSUME TypeOK, OwnWork, TypeOK', IsAncestor(remote, remote'),
         NEW d \in Devices, DeviceStep(d)
  PROVE  OwnWorkOf(d)'
<1>1. /\ remote \in Seq(Commit) /\ local[d] \in Seq(Commit) /\ detached[d] \in Seq(Commit)
      /\ remote' \in Seq(Commit) /\ OwnWorkOf(d)
  BY DEF TypeOK, Typed, OwnWork
<1>2. OwnOrOn(remote, <<>>, d)
  BY DEF OwnOrOn
<1>3. CASE InitStore(d) \/ Clone(d)
  <2>1. \E t \in Trees : local'[d] = <<NewCommit(d, t)>> \/ local'[d] = remote
    <3>1. CASE InitStore(d)
      <4>1. PICK S \in {{}} \cup {{<<n, 0>>} : n \in Names} :
              local' = [local EXCEPT ![d] =
                     <<NewCommit(d, [p \in Paths |->
                                       IF p \in S THEN NewBlob(p) ELSE Absent])>>]
        BY <3>1 DEF InitStore
      <4>2. [p \in Paths |-> IF p \in S THEN NewBlob(p) ELSE Absent] \in Trees
        BY NewBlobType DEF TypeOK, Typed, Trees
      <4> QED BY <4>1, <4>2 DEF TypeOK, Typed
    <3>2. CASE Clone(d)
      BY <3>2, TreeTypes DEF Clone, TypeOK, Typed
    <3> QED BY <1>3, <3>1, <3>2
  <2>2. \A t \in Trees : NewCommit(d, t) \in Commit /\ NewCommit(d, t).author = d
    BY NewCommitType DEF TypeOK, Typed, NewCommit
  <2>3. OwnOrOn(remote, local'[d], d)
    <3>1. CASE local'[d] = remote
      BY <1>1, <3>1, OwnOrOnItself
    <3>2. ASSUME NEW c \in Commit, c.author = d, local'[d] = <<c>>
          PROVE  OwnOrOn(remote, local'[d], d)
      BY <3>2 DEF OwnOrOn
    <3> QED BY <2>1, <2>2, <3>1, <3>2
  <2>4. phase'[d] = "idle" /\ UNCHANGED <<remote, detached>>
    BY <1>3 DEF InitStore, Clone, rebaseVars, TypeOK, Typed
  <2> QED BY <1>1, <2>3, <2>4 DEF OwnWorkOf, InRebase
<1>4. CASE Edit(d)
  <2>1. phase[d] = "idle" /\ \E t \in Trees : EditStep(d, t)
    BY <1>4, EditCommits
  <2>2. PICK t \in Trees : EditStep(d, t)
    BY <2>1
  <2>3. NewCommit(d, t) \in Commit /\ NewCommit(d, t).author = d
    BY NewCommitType DEF TypeOK, Typed, NewCommit
  <2>4. /\ UNCHANGED <<remote, phase>>
        /\ local'[d] \in {local[d], Append(local[d], NewCommit(d, t))}
        /\ detached'[d] \in {detached[d], Append(detached[d], NewCommit(d, t))}
    BY <2>2 DEF EditStep, CommitTree, StageTree, refs, TypeOK, Typed
  <2>5. /\ OwnOrOn(remote, Append(local[d], NewCommit(d, t)), d)
        /\ OwnOrOn(remote, Append(detached[d], NewCommit(d, t)), d)
    BY <1>1, <2>3, OwnOrOnAppend DEF OwnWorkOf
  <2> QED BY <1>1, <2>1, <2>4, <2>5 DEF OwnWorkOf, InRebase
<1>5. CASE Sync(d)
  <2>1. CASE SyncUpToDate(d)
    BY <1>1, <2>1, UntouchedOwnWork DEF SyncUpToDate, rebaseVars, InRebase
  <2>2. CASE SyncFastForward(d)
    <3>1. /\ phase[d] = "idle" /\ UNCHANGED <<remote, detached, phase>>
          /\ local'[d] = remote
      BY <2>2 DEF SyncFastForward, CanSync, rebaseVars, TypeOK, Typed
    <3> QED BY <1>1, <3>1, OwnOrOnItself DEF OwnWorkOf, InRebase
  <2>3. CASE SyncDiverged(d)
    <3>1. PICK base \in DivergedAt(d) : step' = [step EXCEPT ![d] = base + 1]
      BY <2>3 DEF SyncDiverged
    <3>2. /\ UNCHANGED <<remote, local>> /\ detached'[d] = remote
          /\ step'[d] = base + 1
      BY <2>3, <3>1 DEF SyncDiverged, TypeOK, Typed
    <3>3. /\ base \in Nat /\ base < Len(local[d]) /\ base < Len(remote)
          /\ local[d][base + 1] # remote[base + 1]
      BY <1>1, <3>1 DEF DivergedAt, MergeBases
    <3>4. ASSUME NEW j \in (base + 1)..Len(local[d]) PROVE local[d][j].author = d
      <4>1. j \in 1..Len(local[d]) /\ base + 1 \in 1..j
        BY <1>1, <3>3
      <4> QED BY <1>1, <3>3, <4>1 DEF OwnWorkOf, OwnOrOn
    <3> QED BY <1>1, <3>2, <3>4, OwnOrOnItself DEF OwnWorkOf
  <2> QED BY <1>5, <2>1, <2>2, <2>3 DEF Sync
<1>6. CASE Rebase(d) \/ Crash(d)
  <2>1. CASE ReplayClean(d) \/ ApplyChoices(d)
    <3>1. InRebase(d) /\ step[d] <= Len(local[d])
      BY <2>1 DEF ReplayClean, ApplyChoices, InRebase, TypeOK, CallState
    <3>2. /\ AncTree(d) \in Trees /\ OurTree(d) \in Trees /\ TheirTree(d) \in Trees
          /\ step[d] \in 1..Len(local[d])
      BY <3>1, MergeTreeTypes
    <3>3. \E t \in Trees : detached'[d] = Replayed(d, t)
      <4>1. CASE ReplayClean(d)
        BY <3>2, <4>1, MergedTreeType DEF ReplayClean, TypeOK, Typed
      <4>2. CASE ApplyChoices(d)
        <5>1. DOMAIN answers[d] \subseteq Paths
          BY <4>2 DEF ApplyChoices, TypeOK, Typed, CallState
        <5>2. Resolved(answers[d], AncTree(d), OurTree(d), TheirTree(d)) \in Trees
          BY <3>2, <5>1, ResolvedType
        <5> QED BY <4>2, <5>2 DEF ApplyChoices, TypeOK, Typed
      <4> QED BY <2>1, <4>1, <4>2
    <3>4. UNCHANGED <<remote, local>> /\ step'[d] = step[d] + 1
      BY <2>1 DEF ReplayClean, ApplyChoices, refs, TypeOK, Typed
    <3>5. OwnOrOn(remote, detached'[d], d)
      BY <3>1, <3>3, ReplayKeepsOwnWork
    <3> QED BY <1>1, <3>1, <3>2, <3>4, <3>5 DEF OwnWorkOf
  <2>2. CASE AskResolver(d) \/ Answer(d)
    <3>1. /\ InRebase(d) /\ UNCHANGED <<local, detached, step>>
      BY <2>2 DEF AskResolver, Answer, InRebase, refs
    <3> QED BY <1>1, <3>1, UntouchedOwnWork
  <2>3. CASE ApplyFails(d) \/ Crash(d)
    <3>1. UNCHANGED <<local, detached>> /\ phase'[d] = "idle"
      BY <2>3 DEF ApplyFails, Crash, SyncReturns, refs, TypeOK, Typed
    <3> QED BY <1>1, <3>1, UntouchedOwnWork DEF InRebase
  <2>4. CASE FinishRebase(d)
    <3>1. /\ UNCHANGED remote /\ local'[d] = detached[d] /\ detached'[d] = <<>>
          /\ phase'[d] = "idle"
      BY <2>4 DEF FinishRebase, SyncReturns, TypeOK, Typed
    <3> QED BY <1>1, <1>2, <3>1 DEF OwnWorkOf, InRebase
  <2> QED BY <1>6, <2>1, <2>2, <2>3, <2>4 DEF Rebase
<1>7. CASE PushStart(d) \/ PushNothing(d) \/ PushReply(d)
  <2>1. UNCHANGED <<local, detached>> /\ phase'[d] \in {"idle", "sending"}
    BY <1>7 DEF PushStart, PushNothing, PushReply, PushAccepted, PushRejected,
                PushBroken, PushEnds, refs, rebaseVars, TypeOK, Typed
  <2> QED BY <1>1, <2>1, UntouchedOwnWork DEF InRebase
<1> QED BY <1>3, <1>4, <1>5, <1>6, <1>7 DEF DeviceStep

NoRewrites == budget.rewrites = 0

\* No step adds to the budget of rewrites.
LEMMA NoRewritesStep ==
  ASSUME TypeOK, NoRewrites, [Next]_vars
  PROVE  NoRewrites' /\ ~Rewrite
<1>1. budget \in [crashes : Nat, faults : Nat, rewrites : Nat]
  BY DEF TypeOK, Typed
<1>2. ~Rewrite
  BY <1>1 DEF Rewrite, NoRewrites
<1>3. \/ budget' = budget
      \/ budget' = [budget EXCEPT !.crashes = budget.crashes - 1]
      \/ budget' = [budget EXCEPT !.faults = budget.faults - 1]
  <2>1. ASSUME NEW d \in Devices, InitStore(d) \/ Clone(d) \/ Sync(d) PROVE budget' = budget
    BY <2>1 DEF InitStore, Clone, Sync, SyncUpToDate, SyncFastForward, SyncDiverged, counters
  <2>2. ASSUME NEW d \in Devices, Edit(d) PROVE budget' = budget
    BY <2>2, EditCommits DEF EditStep, CommitTree, StageTree
  <2>3. ASSUME NEW d \in Devices, Rebase(d) PROVE budget' = budget
    BY <2>3 DEF Rebase, ReplayClean, AskResolver, Answer, ApplyChoices, ApplyFails,
                FinishRebase, counters
  <2>4. ASSUME NEW d \in Devices, Crash(d)
        PROVE  budget' = [budget EXCEPT !.crashes = budget.crashes - 1]
    BY <2>4 DEF Crash
  <2>5. ASSUME NEW d \in Devices, PushStart(d) \/ PushNothing(d) PROVE budget' = budget
    BY <2>5 DEF PushStart, PushNothing, counters
  <2>6. ASSUME NEW d \in Devices, PushReply(d)
        PROVE  budget' = budget \/ budget' = [budget EXCEPT !.faults = budget.faults - 1]
    BY <2>6 DEF PushReply, PushAccepted, PushRejected, PushBroken, SpendFault
  <2>7. CASE UNCHANGED vars
    BY <2>7 DEF vars, counters
  <2> QED BY <1>2, <2>1, <2>2, <2>3, <2>4, <2>5, <2>6, <2>7 DEF Next, DeviceStep
<1> QED BY <1>1, <1>2, <1>3 DEF NoRewrites

\* OwnWork is inductive while nobody rewrites the server.
LEMMA OwnWorkStep ==
  ASSUME TypeOK, SendingExtends, NoRewrites, OwnWork, [Next]_vars
  PROVE  OwnWork'
<1>1. TypeOK' /\ ~Rewrite
  BY StepKeepsType, NoRewritesStep
<1>2. IsAncestor(remote, remote')
  <2>1. CASE UNCHANGED remote
    BY <2>1, AncestorReflexive DEF TypeOK, Typed
  <2> QED BY <1>1, <2>1, ServerStep
<1> SUFFICES ASSUME NEW e \in Devices PROVE OwnWorkOf(e)'
  BY DEF OwnWork
<1>3. remote' \in Seq(Commit)
  BY <1>1 DEF TypeOK, Typed
<1>4. CASE UNCHANGED vars
  BY <1>2, <1>3, <1>4, UntouchedOwnWork DEF vars, refs, rebaseVars, InRebase
<1>5. ASSUME NEW d \in Devices, DeviceStep(d) PROVE OwnWorkOf(e)'
  <2>1. CASE e = d
    BY <1>1, <1>2, <1>5, <2>1, ActingDeviceKeepsOwnWork
  <2>2. CASE e # d
    <3>1. /\ local'[e] = local[e] /\ detached'[e] = detached[e]
          /\ step'[e] = step[e] /\ phase'[e] = phase[e]
      BY <1>5, <2>2, OthersFrame
    <3> QED BY <1>2, <1>3, <3>1, UntouchedOwnWork DEF InRebase
  <2> QED BY <2>1, <2>2
<1> QED BY <1>1, <1>4, <1>5 DEF Next

\* On a server nobody force-pushes to, for any number of devices, edits,
\* crashes and lost pushes: a device's branch holds commits of others only
\* where the server has them.  So sync never replays and push never publishes
\* somebody else's commit a second time.
THEOREM OnlyOwnWorkIsUnpublished ==
  ASSUME MaxRewrites = 0
  PROVE  Spec => []ForeignCommitsArePublished
<1> DEFINE Inv == TypeOK /\ SendingExtends /\ NoRewrites /\ OwnWork
<1>1. Init => Inv
  <2>1. Init => OwnWork
    BY DEF Init, OwnWork, OwnWorkOf, OwnOrOn, InRebase
  <2> QED BY <2>1, InitHasType DEF Init, SendingExtends, NoRewrites
<1>2. Inv /\ [Next]_vars => Inv'
  BY StepKeepsType, SendingExtendsStep, NoRewritesStep, OwnWorkStep
<1>3. Inv => ForeignCommitsArePublished
  BY DEF OwnWork, OwnWorkOf, OwnOrOn, ForeignCommitsArePublished, PublishedUpTo
<1> QED BY <1>1, <1>2, <1>3, PTL DEF Spec

(***************************************************************************)
(* A completed rebase loses no version.                                    *)
(*                                                                         *)
(* Inductive once it is known that each commit of the server, of a branch  *)
(* and of a replay writes a single version (which rules out a move or a    *)
(* re-encryption of the whole store, and is not so on a HEAD left detached *)
(* at a conflict), that the answers are for the conflicts of the commit    *)
(* being replayed, and that the commits replayed so far have left their    *)
(* versions behind the detached HEAD or in an answer that gave them up.    *)
(***************************************************************************)
OneVersionEach(h) ==
  \A i \in 1..Len(h) : WritesOne(TreeAt(h, i - 1), h[i].tree)

\* What the first k - 1 commits of h wrote is in g or given up.
CarriedTo(h, k, g, given) ==
  \A i \in 1..(k - 1), p \in Paths :
    h[i].tree[p] # TreeAt(h, i - 1)[p] =>
      h[i].tree[p] \in HistoryBlobs(g) \cup given \cup {Absent}

Asked(d) ==
  /\ phase[d] \in {"asking", "applying"} => unmerged[d] = ConflictsNow(d)
  /\ phase[d] = "applying" =>
       \A p \in DOMAIN answers[d] : answers[d][p] = "KeepBoth" => p[2] < MaxSuffix

Carried(d) ==
  InRebase(d) => CarriedTo(local[d], step[d], detached[d], yielded[d])

CarryingOf(d) ==
  /\ OneVersionEach(local[d]) /\ (InRebase(d) => OneVersionEach(detached[d]))
  /\ Asked(d) /\ Carried(d)

Carrying == OneVersionEach(remote) /\ \A d \in Devices : CarryingOf(d)

\* The versions of a history, one by one.
LEMMA InHistory ==
  ASSUME NEW h \in Seq(Commit), NEW b
  PROVE  b \in HistoryBlobs(h) <=>
           b # Absent /\ \E i \in 1..Len(h), p \in Paths : h[i].tree[p] = b
BY DEF HistoryBlobs, Blobs

\* A longer history has every version of a shorter one.
LEMMA HistoryGrows ==
  ASSUME NEW h \in Seq(Commit), NEW g \in Seq(Commit), IsAncestor(h, g)
  PROVE  HistoryBlobs(h) \subseteq HistoryBlobs(g)
<1> SUFFICES ASSUME NEW b \in HistoryBlobs(h)
             PROVE  b \in HistoryBlobs(g)
  OBVIOUS
<1>1. b # Absent /\ \E i \in 1..Len(h), p \in Paths : h[i].tree[p] = b
  BY InHistory
<1>2. \A i \in 1..Len(h) : i \in 1..Len(g) /\ h[i] = g[i]
  BY DEF IsAncestor
<1> QED BY <1>1, <1>2, InHistory

\* What is in the tree at the tip is in the history.
LEMMA TipIsHistory ==
  ASSUME NEW h \in Seq(Commit), NEW q \in Paths, TipTree(h)[q] # Absent
  PROVE  TipTree(h)[q] \in HistoryBlobs(h)
<1>1. Len(h) # 0
  BY DEF TipTree, TreeAt, EmptyTree
<1>2. Len(h) \in 1..Len(h) /\ h[Len(h)].tree[q] = TipTree(h)[q]
  BY <1>1 DEF TipTree, TreeAt
<1> QED BY <1>2, InHistory

\* A commit on top of h that writes a single version.
LEMMA OneVersionAppend ==
  ASSUME NEW h \in Seq(Commit), NEW c \in Commit, OneVersionEach(h),
         WritesOne(TipTree(h), c.tree)
  PROVE  OneVersionEach(Append(h, c))
<1> DEFINE g == Append(h, c)
<1>1. /\ Len(g) = Len(h) + 1 /\ Len(h) \in Nat /\ g[Len(h) + 1] = c
      /\ \A i \in 1..Len(h) : g[i] = h[i]
  OBVIOUS
<1> HIDE DEF g
<1>2. \A i \in 0..Len(h) : TreeAt(g, i) = TreeAt(h, i)
  BY <1>1 DEF TreeAt
<1>3. ASSUME NEW i \in 1..Len(g)
      PROVE  WritesOne(TreeAt(g, i - 1), g[i].tree)
  <2>1. CASE i \in 1..Len(h)
    <3>1. i - 1 \in 0..Len(h)
      BY <1>1, <2>1
    <3> QED BY <1>1, <1>2, <2>1, <3>1 DEF OneVersionEach
  <2>2. CASE i = Len(h) + 1
    <3>1. i - 1 = Len(h) /\ Len(h) \in 0..Len(h)
      BY <1>1, <2>2
    <3> QED BY <1>1, <1>2, <2>2, <3>1 DEF TipTree
  <2> QED BY <1>1, <2>1, <2>2
<1>4. OneVersionEach(g)
  BY <1>3 DEF OneVersionEach
<1> QED BY <1>4 DEF g

\* A shortened history.
LEMMA OneVersionPrefix ==
  ASSUME NEW h \in Seq(Commit), NEW k \in 0..Len(h), OneVersionEach(h)
  PROVE  /\ SubSeq(h, 1, k) \in Seq(Commit)
         /\ OneVersionEach(SubSeq(h, 1, k))
         /\ TipTree(SubSeq(h, 1, k)) = TreeAt(h, k)
<1> DEFINE g == SubSeq(h, 1, k)
<1>1. g \in Seq(Commit) /\ Len(g) = k /\ k \in Nat /\ \A i \in 1..k : g[i] = h[i]
  OBVIOUS
<1> HIDE DEF g
<1>2. \A i \in 0..k : TreeAt(g, i) = TreeAt(h, i)
  BY <1>1 DEF TreeAt
<1>3. \A i \in 1..k : i - 1 \in 0..k /\ i \in 1..Len(h)
  OBVIOUS
<1>4. OneVersionEach(g)
  BY <1>1, <1>2, <1>3 DEF OneVersionEach
<1>5. k \in 0..k
  BY <1>1
<1>6. TipTree(g) = TreeAt(h, k)
  BY <1>1, <1>2, <1>5 DEF TipTree
<1> QED BY <1>1, <1>4, <1>6 DEF g

\* An empty history, and one of a single commit of a single entry.
LEMMA OneVersionShort ==
  /\ OneVersionEach(<<>>)
  /\ \A c \in Commit : WritesOne(EmptyTree, c.tree) => OneVersionEach(<<c>>)
<1>1. OneVersionEach(<<>>)
  BY DEF OneVersionEach
<1>2. ASSUME NEW c \in Commit, WritesOne(EmptyTree, c.tree)
      PROVE  OneVersionEach(<<c>>)
  <2>1. /\ Len(<<c>>) = 1 /\ <<c>>[1] = c /\ 1 - 1 = 0
        /\ \A i \in 1..1 : i = 1
    OBVIOUS
  <2>2. TreeAt(<<c>>, 0) = EmptyTree
    BY DEF TreeAt
  <2> QED BY <1>2, <2>1, <2>2 DEF OneVersionEach
<1> QED BY <1>1, <1>2

\* Rewriting or removing one path writes a single version.
LEMMA OnePathWritesOne ==
  ASSUME NEW t \in Trees, NEW p \in Paths, NEW b
  PROVE  WritesOne(t, [t EXCEPT ![p] = b])
BY DEF WritesOne, Trees

\* A save, a removal or a copy writes a single version to the branch.
LEMMA EditWritesOne ==
  ASSUME TypeOK, Operations \cap {"move", "reencrypt"} = {},
         NEW d \in Devices, Edit(d), detached[d] = <<>>
  PROVE  \E t \in Trees : CommitTree(d, t) /\ WritesOne(TipTree(HeadHistory(d)), t)
<1> DEFINE tip == TipTree(HeadHistory(d))
<1>1. /\ tip \in Trees /\ \A p \in Paths : NewBlob(p) \in BlobIds
      /\ Present(d) = tip /\ unmerged[d] = {}
  BY PresentType
<1> HIDE DEF tip
<1>2. \A paths, t : CommitPaths(d, paths, t) => CommitTree(d, t)
  BY <1>1 DEF CommitPaths, StageTree
<1>3. CASE Save(d)
  <2>1. PICK p \in Paths : CommitPaths(d, {p}, [tip EXCEPT ![p] = NewBlob(p)])
    BY <1>1, <1>3 DEF Save
  <2> QED BY <1>1, <1>2, <2>1, TreeTypes, OnePathWritesOne DEF tip
<1>4. CASE Remove(d)
  <2>1. PICK p \in Paths : CommitPaths(d, {p}, [tip EXCEPT ![p] = Absent])
    BY <1>1, <1>4 DEF Remove
  <2> QED BY <1>1, <1>2, <2>1, TreeTypes, OnePathWritesOne DEF tip
<1>5. CASE Transfer(d)
  <2>1. PICK op \in {"move", "copy"}, to \in Paths :
          /\ CanEdit(d, op)
          /\ op = "copy" => CommitPaths(d, {to}, [tip EXCEPT ![to] = NewBlob(to)])
    BY <1>1, <1>5 DEF Transfer
  <2>2. op = "copy"
    BY <2>1 DEF CanEdit
  <2> QED BY <1>1, <1>2, <2>1, <2>2, TreeTypes, OnePathWritesOne DEF tip
<1>6. CASE Reencrypt(d)
  BY <1>6 DEF Reencrypt, CanEdit
<1> QED BY <1>3, <1>4, <1>5, <1>6 DEF Edit

\* Replaying a commit: what it gives up is recorded, everything else it wrote
\* is behind the new HEAD.
LEMMA ReplayCarries ==
  ASSUME TypeOK, NEW d \in Devices, InRebase(d), step[d] <= Len(local[d]),
         NEW t \in Trees, NEW given, yielded[d] \subseteq given,
         OneVersionEach(detached[d]), WritesOne(OurTree(d), t),
         CarriedTo(local[d], step[d], detached[d], yielded[d]),
         \A w \in Paths : AncTree(d)[w] # TheirTree(d)[w] /\ TheirTree(d)[w] # Absent =>
           (\E q \in Paths : t[q] = TheirTree(d)[w]) \/ TheirTree(d)[w] \in given
  PROVE  /\ OneVersionEach(Replayed(d, t))
         /\ CarriedTo(local[d], step[d] + 1, Replayed(d, t), given)
<1> DEFINE g == Replayed(d, t)
           h == local[d]
           k == step[d]
<1>1. /\ detached[d] \in Seq(Commit) /\ h \in Seq(Commit) /\ k \in 1..Len(h)
      /\ g \in Seq(Commit)
  BY MergeTreeTypes, ReplayedType DEF TypeOK, Typed
<1>2. /\ IsAncestor(detached[d], g) /\ TipTree(g) = t
      /\ OneVersionEach(g)
  <2>1. CASE t = OurTree(d)
    <3>1. g = detached[d]
      BY <2>1 DEF Replayed
    <3> QED BY <1>1, <2>1, <3>1, AncestorReflexive DEF OurTree
  <2>2. CASE t # OurTree(d)
    <3> DEFINE c == [local[d][step[d]] EXCEPT !.tree = t]
    <3>1. g = Append(detached[d], c)
      BY <2>2 DEF Replayed
    <3>2. c \in Commit /\ c.tree = t
      <4>1. local[d][step[d]] \in Commit
        BY <1>1
      <4> QED BY <4>1 DEF Commit
    <3> HIDE DEF c, g
    <3>3. /\ Len(g) = Len(detached[d]) + 1 /\ g[Len(detached[d]) + 1] = c
          /\ Len(detached[d]) \in Nat
      BY <1>1, <3>1, <3>2
    <3>4. TipTree(g) = t
      BY <3>2, <3>3 DEF TipTree, TreeAt
    <3>5. IsAncestor(detached[d], g)
      BY <1>1, <3>1, <3>2, AncestorReflexive, AncestorAppend
    <3>6. OneVersionEach(g)
      BY <1>1, <3>1, <3>2, OneVersionAppend DEF OurTree
    <3> QED BY <3>4, <3>5, <3>6
  <2> QED BY <2>1, <2>2
<1> HIDE DEF g
<1>3. HistoryBlobs(detached[d]) \subseteq HistoryBlobs(g)
  BY <1>1, <1>2, HistoryGrows
<1>4. ASSUME NEW i \in 1..((k + 1) - 1), NEW p \in Paths, h[i].tree[p] # TreeAt(h, i - 1)[p]
      PROVE  h[i].tree[p] \in HistoryBlobs(g) \cup given \cup {Absent}
  <2>1. k \in Nat /\ i \in 1..k
    BY <1>1
  <2>2. CASE i = k
    <3>1. TheirTree(d) = h[i].tree /\ AncTree(d) = TreeAt(h, i - 1)
      BY <2>1, <2>2 DEF TheirTree, AncTree, TreeAt
    <3>2. CASE h[i].tree[p] = Absent
      BY <3>2
    <3>3. CASE \E q \in Paths : t[q] = h[i].tree[p] /\ h[i].tree[p] # Absent
      BY <1>1, <1>2, <3>3, TipIsHistory
    <3> QED BY <1>4, <3>1, <3>2, <3>3
  <2>3. CASE i # k
    <3>1. i \in 1..(k - 1)
      BY <2>1, <2>3
    <3>2. h[i].tree[p] \in HistoryBlobs(detached[d]) \cup yielded[d] \cup {Absent}
      BY <1>4, <3>1 DEF CarriedTo
    <3> QED BY <1>3, <3>2
  <2> QED BY <2>2, <2>3
<1>5. CarriedTo(h, k + 1, g, given)
  BY <1>4 DEF CarriedTo
<1> QED BY <1>2, <1>5 DEF g

\* The commit to replay writes a single version.
LEMMA TheirWritesOne ==
  ASSUME TypeOK, NEW d \in Devices, InRebase(d), step[d] <= Len(local[d]),
         OneVersionEach(local[d])
  PROVE  WritesOne(AncTree(d), TheirTree(d))
<1>1. step[d] \in 1..Len(local[d]) /\ step[d] # 0
  BY MergeTreeTypes
<1> QED BY <1>1 DEF OneVersionEach, AncTree, TheirTree, TreeAt

\* A commit that applies.
LEMMA ReplayCleanCarries ==
  ASSUME TypeOK, NEW d \in Devices, CarryingOf(d), ReplayClean(d)
  PROVE  CarryingOf(d)'
<1> DEFINE t == MergedTree(AncTree(d), OurTree(d), TheirTree(d))
<1>1. InRebase(d) /\ step[d] <= Len(local[d]) /\ phase[d] = "replaying"
  BY DEF ReplayClean, InRebase
<1>2. /\ AncTree(d) \in Trees /\ OurTree(d) \in Trees /\ TheirTree(d) \in Trees
      /\ t \in Trees
  BY <1>1, MergeTreeTypes, MergedTreeType
<1>3. WritesOne(OurTree(d), t)
  BY <1>1, <1>2, TheirWritesOne, ReplayWritesOne DEF CarryingOf
<1>4. \A w \in Paths : AncTree(d)[w] # TheirTree(d)[w] => t[w] = TheirTree(d)[w]
  BY <1>2, MergeKeepsVersion DEF ReplayClean, ConflictsNow
<1>5. /\ detached' = [detached EXCEPT ![d] = Replayed(d, t)]
      /\ step' = [step EXCEPT ![d] = step[d] + 1]
      /\ UNCHANGED <<local, unmerged, answers, yielded, phase>>
  BY DEF ReplayClean, refs
<1> HIDE DEF t
<1>6. /\ OneVersionEach(Replayed(d, t))
      /\ CarriedTo(local[d], step[d] + 1, Replayed(d, t), yielded[d])
  BY <1>1, <1>2, <1>3, <1>4, ReplayCarries DEF CarryingOf, Carried
<1>7. /\ detached'[d] = Replayed(d, t) /\ step'[d] = step[d] + 1
      /\ phase'[d] = "replaying" /\ local'[d] = local[d] /\ yielded'[d] = yielded[d]
  BY <1>1, <1>5 DEF TypeOK, Typed
<1>8. OneVersionEach(local'[d]) /\ OneVersionEach(detached'[d])
  BY <1>6, <1>7 DEF CarryingOf
<1>9. CarriedTo(local'[d], step'[d], detached'[d], yielded'[d])
  BY <1>6, <1>7
<1> QED BY <1>7, <1>8, <1>9 DEF CarryingOf, Carried, Asked, OneVersionEach, CarriedTo

\* A commit whose conflicts were answered.
LEMMA ApplyCarries ==
  ASSUME TypeOK, NEW d \in Devices, CarryingOf(d), ApplyChoices(d)
  PROVE  CarryingOf(d)'
<1> DEFINE t == Resolved(answers[d], AncTree(d), OurTree(d), TheirTree(d))
           given == yielded[d] \cup GivenUp(answers[d], OurTree(d), TheirTree(d))
<1>1. InRebase(d) /\ step[d] <= Len(local[d]) /\ phase[d] = "applying"
  BY DEF ApplyChoices, InRebase, TypeOK, CallState
<1>2. AncTree(d) \in Trees /\ OurTree(d) \in Trees /\ TheirTree(d) \in Trees
  BY <1>1, MergeTreeTypes
<1>3. /\ DOMAIN answers[d] = Conflicts(AncTree(d), OurTree(d), TheirTree(d))
      /\ \A p \in DOMAIN answers[d] : answers[d][p] \in ConflictChoice
      /\ \A p \in DOMAIN answers[d] : answers[d][p] = "KeepBoth" => p[2] < MaxSuffix
  <2>1. answers[d] \in Answers
    BY DEF TypeOK, Typed
  <2>2. PICK S \in SUBSET Paths : answers[d] \in [S -> ConflictChoice]
    BY <2>1 DEF Answers
  <2>3. \A p \in DOMAIN answers[d] : answers[d][p] \in ConflictChoice
    BY <2>2
  <2> QED BY <1>1, <2>3 DEF CarryingOf, Asked, ConflictsNow, TypeOK, CallState
<1>4. t \in Trees
  BY <1>2, <1>3, ResolvedType, ConflictsType
<1>5. WritesOne(AncTree(d), TheirTree(d))
  BY <1>1, TheirWritesOne DEF CarryingOf
<1>6. WritesOne(OurTree(d), t)
  BY <1>2, <1>3, <1>5, ReplayWritesOne
<1>7. \A w \in Paths : AncTree(d)[w] # TheirTree(d)[w] /\ TheirTree(d)[w] # Absent =>
        (\E q \in Paths : t[q] = TheirTree(d)[w]) \/ TheirTree(d)[w] \in given
  BY <1>2, <1>3, <1>5, AnswersKeepVersion
<1>8. /\ detached' = [detached EXCEPT ![d] = Replayed(d, t)]
      /\ step' = [step EXCEPT ![d] = step[d] + 1]
      /\ phase' = [phase EXCEPT ![d] = "replaying"]
      /\ yielded' = [yielded EXCEPT ![d] = given]
      /\ UNCHANGED local
  BY DEF ApplyChoices, refs
<1>9. yielded[d] \subseteq given
  OBVIOUS
<1> HIDE DEF t, given
<1>10. /\ OneVersionEach(Replayed(d, t))
       /\ CarriedTo(local[d], step[d] + 1, Replayed(d, t), given)
  BY <1>1, <1>4, <1>6, <1>7, <1>9, ReplayCarries DEF CarryingOf, Carried
<1>11. /\ detached'[d] = Replayed(d, t) /\ step'[d] = step[d] + 1
       /\ phase'[d] = "replaying" /\ local'[d] = local[d] /\ yielded'[d] = given
  BY <1>8 DEF TypeOK, Typed
<1>12. OneVersionEach(local'[d]) /\ OneVersionEach(detached'[d])
  BY <1>10, <1>11 DEF CarryingOf
<1>13. CarriedTo(local'[d], step'[d], detached'[d], yielded'[d])
  BY <1>10, <1>11
<1> QED BY <1>11, <1>12, <1>13 DEF CarryingOf, Carried, Asked, OneVersionEach, CarriedTo

\* The steps of a device that put nothing into a history: it asks, it is
\* answered, its call ends.
LEMMA QuietCarries ==
  ASSUME TypeOK, NEW d \in Devices, CarryingOf(d), local'[d] = local[d],
         detached'[d] = detached[d],
         \/ ~InRebase(d)'
         \/ InRebase(d) /\ step'[d] = step[d] /\ yielded'[d] = yielded[d] /\ Asked(d)'
  PROVE  CarryingOf(d)'
<1>1. OneVersionEach(local'[d]) /\ (InRebase(d) => OneVersionEach(detached'[d]))
  BY DEF CarryingOf
<1>2. CASE ~InRebase(d)'
  BY <1>1, <1>2 DEF CarryingOf, Carried, Asked, InRebase, OneVersionEach
<1>3. CASE InRebase(d) /\ step'[d] = step[d] /\ yielded'[d] = yielded[d] /\ Asked(d)'
  <2>1. CarriedTo(local'[d], step'[d], detached'[d], yielded'[d])
    BY <1>3 DEF CarryingOf, Carried
  <2> QED BY <1>1, <1>3, <2>1 DEF CarryingOf, Carried, OneVersionEach, CarriedTo
<1> QED BY <1>2, <1>3

\* A device outside a rebase needs only a branch of commits that write one
\* version each.
LEMMA IdleCarries ==
  ASSUME NEW d \in Devices, ~InRebase(d)', OneVersionEach(local'[d])
  PROVE  CarryingOf(d)'
BY DEF CarryingOf, Carried, Asked, InRebase, OneVersionEach

LEMMA SetupCarries ==
  ASSUME TypeOK, Carrying, NEW d \in Devices, InitStore(d) \/ Clone(d)
  PROVE  CarryingOf(d)'
<1>1. \E h : local' = [local EXCEPT ![d] = h] /\ OneVersionEach(h)
  <2>1. CASE InitStore(d)
    <3>1. PICK S \in {{}} \cup {{<<n, 0>>} : n \in Names} :
            local' = [local EXCEPT ![d] =
                   <<NewCommit(d, [p \in Paths |->
                                     IF p \in S THEN NewBlob(p) ELSE Absent])>>]
      BY <2>1 DEF InitStore
    <3> DEFINE t == [p \in Paths |-> IF p \in S THEN NewBlob(p) ELSE Absent]
               c == NewCommit(d, t)
    <3>2. t \in Trees
      BY NewBlobType DEF Trees, TypeOK, Typed
    <3>3. WritesOne(EmptyTree, t)
      BY <3>1 DEF WritesOne, EmptyTree
    <3> HIDE DEF t
    <3>4. c \in Commit /\ c.tree = t
      BY <3>2, NewCommitType DEF NewCommit, TypeOK, Typed
    <3> HIDE DEF c
    <3>5. OneVersionEach(<<c>>)
      BY <3>3, <3>4, OneVersionShort
    <3> QED BY <3>1, <3>5 DEF c, t
  <2>2. CASE Clone(d)
    BY <2>2 DEF Clone, Carrying
  <2> QED BY <2>1, <2>2
<1>2. phase' = [phase EXCEPT ![d] = "idle"] /\ detached' = detached
  BY DEF InitStore, Clone, rebaseVars
<1>3. ~InRebase(d)' /\ OneVersionEach(local'[d])
  BY <1>1, <1>2 DEF TypeOK, Typed, InRebase, Carrying, CarryingOf
<1> QED BY <1>3, IdleCarries

LEMMA CommitCarries ==
  ASSUME TypeOK, Carrying, Operations \cap {"move", "reencrypt"} = {},
         NEW d \in Devices, Edit(d)
  PROVE  CarryingOf(d)'
<1>1. PICK u \in Trees : EditStep(d, u)
  BY EditCommits
<1>2. ~InRebase(d)'
  BY <1>1, EditCommits DEF EditStep, CommitTree, StageTree, InRebase
<1>3. local[d] \in Seq(Commit) /\ OneVersionEach(local[d])
  BY DEF TypeOK, Typed, Carrying, CarryingOf
<1>4. CASE detached[d] = <<>>
  <2>1. PICK t \in Trees : CommitTree(d, t) /\ WritesOne(TipTree(HeadHistory(d)), t)
    BY <1>4, EditWritesOne
  <2> DEFINE c == NewCommit(d, t)
  <2>2. c \in Commit /\ c.tree = t
    BY NewCommitType DEF NewCommit, TypeOK, Typed
  <2> HIDE DEF c
  <2>3. local'[d] = Append(local[d], c)
    BY <1>4, <2>1 DEF CommitTree, c, TypeOK, Typed
  <2>4. OneVersionEach(local'[d])
    BY <1>3, <1>4, <2>1, <2>2, <2>3, OneVersionAppend DEF HeadHistory
  <2> QED BY <1>2, <2>4, IdleCarries
<1>5. CASE detached[d] # <<>>
  <2>1. local' = local
    BY <1>1, <1>5 DEF EditStep, CommitTree, StageTree, refs
  <2> QED BY <1>2, <1>3, <2>1, IdleCarries
<1> QED BY <1>4, <1>5

\* A rebase begins behind what both sides share.
LEMMA SyncCarries ==
  ASSUME TypeOK, Carrying, NEW d \in Devices, Sync(d)
  PROVE  CarryingOf(d)'
<1>1. CASE SyncUpToDate(d)
  BY <1>1, QuietCarries DEF SyncUpToDate, CanSync, rebaseVars, InRebase, Carrying
<1>2. CASE SyncFastForward(d)
  <2>1. local'[d] = remote /\ detached'[d] = detached[d] /\ phase'[d] = "idle"
    BY <1>2 DEF SyncFastForward, CanSync, rebaseVars, TypeOK, Typed
  <2> QED BY <2>1, IdleCarries DEF InRebase, Carrying, CarryingOf
<1>3. CASE SyncDiverged(d)
  <2>1. PICK base \in MergeBases(local[d], remote) :
          base < Len(remote) /\ step' = [step EXCEPT ![d] = base + 1]
    BY <1>3 DEF SyncDiverged, DivergedAt
  <2>2. /\ local'[d] = local[d] /\ detached'[d] = remote /\ step'[d] = base + 1
        /\ phase'[d] = "replaying"
    BY <1>3, <2>1 DEF SyncDiverged, TypeOK, Typed
  <2>3. /\ base \in Nat /\ base + 1 - 1 = base
        /\ local[d] \in Seq(Commit) /\ remote \in Seq(Commit)
        /\ \A i \in 1..base : i \in 1..Len(remote) /\ local[d][i] = remote[i]
    BY <2>1 DEF MergeBases, TypeOK, Typed
  <2>4. CarriedTo(local'[d], step'[d], detached'[d], yielded'[d])
    BY <2>2, <2>3, InHistory DEF CarriedTo
  <2>5. OneVersionEach(local'[d]) /\ OneVersionEach(detached'[d])
    BY <2>2 DEF Carrying, CarryingOf
  <2> QED BY <2>2, <2>4, <2>5 DEF CarryingOf, Carried, Asked, OneVersionEach, CarriedTo
<1> QED BY <1>1, <1>2, <1>3 DEF Sync

LEMMA RebaseCarries ==
  ASSUME TypeOK, Carrying, NEW d \in Devices, Rebase(d) \/ Crash(d)
  PROVE  CarryingOf(d)'
<1>0. CarryingOf(d)
  BY DEF Carrying
<1>1. CASE ReplayClean(d)
  BY <1>0, <1>1, ReplayCleanCarries
<1>2. CASE AskResolver(d)
  <2>1. /\ unmerged'[d] = ConflictsNow(d) /\ phase'[d] = "asking" /\ phase[d] = "replaying"
        /\ UNCHANGED <<local, detached, step, yielded, answers>>
    BY <1>2 DEF AskResolver, refs, TypeOK, Typed
  <2>2. ConflictsNow(d)' = ConflictsNow(d)
    BY <2>1 DEF ConflictsNow, AncTree, OurTree, TheirTree, Conflicts, TreeAt, TipTree
  <2>3. Asked(d)'
    BY <2>1, <2>2 DEF Asked
  <2> QED BY <1>0, <2>1, <2>3, QuietCarries DEF InRebase
<1>3. CASE Answer(d)
  <2>1. PICK ans \in [unmerged[d] -> ConflictChoice] :
          /\ \A p \in unmerged[d] : ans[p] = "KeepBoth" => p[2] < MaxSuffix
          /\ answers' = [answers EXCEPT ![d] = ans]
    BY <1>3 DEF Answer
  <2>2. /\ phase'[d] = "applying" /\ phase[d] = "asking" /\ answers'[d] = ans
        /\ UNCHANGED <<local, detached, step, yielded, unmerged>>
    BY <1>3, <2>1 DEF Answer, refs, TypeOK, Typed
  <2>3. ConflictsNow(d)' = ConflictsNow(d) /\ unmerged[d] = ConflictsNow(d)
    BY <1>0, <2>2 DEF ConflictsNow, AncTree, OurTree, TheirTree, Conflicts, TreeAt, TipTree,
                      CarryingOf, Asked
  <2>4. Asked(d)'
    BY <2>1, <2>2, <2>3 DEF Asked
  <2> QED BY <1>0, <2>2, <2>4, QuietCarries DEF InRebase
<1>4. CASE ApplyChoices(d)
  BY <1>0, <1>4, ApplyCarries
<1>5. CASE ApplyFails(d) \/ Crash(d)
  BY <1>0, <1>5, QuietCarries DEF ApplyFails, Crash, SyncReturns, refs, InRebase, TypeOK, Typed
<1>6. CASE FinishRebase(d)
  <2>1. /\ local'[d] = detached[d] /\ phase'[d] = "idle" /\ phase[d] = "replaying"
    BY <1>6 DEF FinishRebase, SyncReturns, TypeOK, Typed
  <2>2. OneVersionEach(local'[d])
    BY <1>0, <2>1 DEF InRebase, CarryingOf
  <2>3. ~InRebase(d)'
    BY <2>1 DEF InRebase
  <2> QED BY <2>2, <2>3, IdleCarries
<1> QED BY <1>1, <1>2, <1>3, <1>4, <1>5, <1>6 DEF Rebase

LEMMA PushCarries ==
  ASSUME TypeOK, Carrying, NEW d \in Devices,
         PushStart(d) \/ PushNothing(d) \/ PushReply(d)
  PROVE  CarryingOf(d)'
<1>1. UNCHANGED <<local, detached>>
  BY DEF PushStart, PushNothing, PushReply, PushAccepted, PushRejected, PushBroken,
         PushEnds, refs, rebaseVars
<1>2. ~InRebase(d)'
  BY DEF PushStart, PushNothing, PushReply, PushAccepted, PushRejected, PushBroken,
         PushEnds, InRebase, TypeOK, Typed
<1> QED BY <1>1, <1>2, IdleCarries DEF Carrying, CarryingOf

\* What other devices do leaves a device's rebase alone.
LEMMA OthersCarry ==
  ASSUME TypeOK, Carrying, NEW d \in Devices, DeviceStep(d), NEW e \in Devices \ {d}
  PROVE  CarryingOf(e)'
<1>1. /\ local'[e] = local[e] /\ detached'[e] = detached[e]
      /\ step'[e] = step[e] /\ phase'[e] = phase[e]
  BY OthersFrame
<1>2. unmerged'[e] = unmerged[e] /\ answers'[e] = answers[e] /\ yielded'[e] = yielded[e]
  <2>1. CASE InitStore(d) \/ Clone(d)
    BY <2>1 DEF InitStore, Clone, rebaseVars
  <2>2. CASE Edit(d)
    <3>1. PICK t \in Trees : EditStep(d, t)
      BY <2>2, EditCommits
    <3> QED BY <3>1 DEF EditStep, CommitTree, StageTree, refs, TypeOK, Typed
  <2>3. CASE Sync(d)
    BY <2>3 DEF Sync, SyncUpToDate, SyncFastForward, SyncDiverged, rebaseVars
  <2>4. CASE Rebase(d) \/ Crash(d)
    <3>1. UNCHANGED unmerged \/ \E x : unmerged' = [unmerged EXCEPT ![d] = x]
      BY <2>4 DEF Rebase, ReplayClean, AskResolver, Answer, ApplyChoices, ApplyFails,
                  FinishRebase, Crash
    <3>2. UNCHANGED answers \/ \E x : answers' = [answers EXCEPT ![d] = x]
      BY <2>4 DEF Rebase, ReplayClean, AskResolver, Answer, ApplyChoices, ApplyFails,
                  FinishRebase, Crash, SyncReturns
    <3>3. UNCHANGED yielded \/ \E x : yielded' = [yielded EXCEPT ![d] = x]
      BY <2>4 DEF Rebase, ReplayClean, AskResolver, Answer, ApplyChoices, ApplyFails,
                  FinishRebase, Crash, SyncReturns
    <3> QED BY <3>1, <3>2, <3>3 DEF TypeOK, Typed
  <2>5. CASE PushStart(d) \/ PushNothing(d) \/ PushReply(d)
    BY <2>5 DEF PushStart, PushNothing, PushReply, PushAccepted, PushRejected,
                PushBroken, PushEnds, rebaseVars
  <2> QED BY <2>1, <2>2, <2>3, <2>4, <2>5 DEF DeviceStep
<1>3. Asked(e)'
  BY <1>1, <1>2 DEF Carrying, CarryingOf, Asked, ConflictsNow, AncTree, OurTree, TheirTree,
                    Conflicts, TreeAt, TipTree
<1>4. CarryingOf(e) /\ (InRebase(e)' <=> InRebase(e))
  BY <1>1 DEF Carrying, InRebase
<1> QED BY <1>1, <1>2, <1>3, <1>4, QuietCarries

LEMMA CarryingStep ==
  ASSUME TypeOK, SendingExtends, Carrying, Operations \cap {"move", "reencrypt"} = {},
         [Next]_vars
  PROVE  Carrying'
<1>1. OneVersionEach(remote')
  <2>1. CASE Rewrite
    <3>1. PICK k \in 0..(Len(remote) - 1), p \in Paths :
            remote' = Append(SubSeq(remote, 1, k),
                             NewCommit(Nobody, [TreeAt(remote, k) EXCEPT ![p] = NewBlob(p)]))
      BY <2>1 DEF Rewrite
    <3>2. remote \in Seq(Commit) /\ k \in 0..Len(remote) /\ NewBlob(p) \in BlobIds
      BY <3>1, NewBlobType DEF TypeOK, Typed
    <3> DEFINE t == [TreeAt(remote, k) EXCEPT ![p] = NewBlob(p)]
               c == NewCommit(Nobody, t)
    <3>3. TreeAt(remote, k) \in Trees
      BY <3>2, HistoryTreeTypes
    <3>4. t \in Trees /\ WritesOne(TreeAt(remote, k), t)
      BY <3>2, <3>3, TreeTypes, OnePathWritesOne
    <3> HIDE DEF t
    <3>5. c \in Commit /\ c.tree = t
      BY <3>4, NewCommitType DEF NewCommit, TypeOK, Typed
    <3> HIDE DEF c
    <3>6. OneVersionEach(Append(SubSeq(remote, 1, k), c))
      BY <3>2, <3>4, <3>5, OneVersionPrefix, OneVersionAppend DEF Carrying
    <3> QED BY <3>1, <3>6 DEF c, t
  <2>2. CASE ~Rewrite
    BY <2>2, ServerStep DEF Carrying, CarryingOf
  <2> QED BY <2>1, <2>2
<1>2. ASSUME NEW e \in Devices
      PROVE  CarryingOf(e)'
  <2>1. CASE UNCHANGED vars \/ Rewrite
    <3>1. UNCHANGED <<refs, rebaseVars, phase>>
      BY <2>1 DEF vars, Rewrite
    <3>2. Asked(e)'
      BY <3>1 DEF refs, rebaseVars, Carrying, CarryingOf, Asked, ConflictsNow, AncTree, OurTree,
                  TheirTree, Conflicts, TreeAt, TipTree
    <3> QED BY <3>1, <3>2, QuietCarries DEF refs, rebaseVars, Carrying, InRebase
  <2>2. ASSUME NEW d \in Devices, DeviceStep(d)
        PROVE  CarryingOf(e)'
    <3>1. CASE e = d
      BY <2>2, <3>1, SetupCarries, CommitCarries, SyncCarries, RebaseCarries, PushCarries
         DEF DeviceStep
    <3>2. CASE e # d
      BY <2>2, <3>2, OthersCarry
    <3> QED BY <3>1, <3>2
  <2> QED BY <2>1, <2>2 DEF Next
<1> QED BY <1>1, <1>2 DEF Carrying, OneVersionEach

\* What has been replayed when a rebase completes is the whole branch.
LEMMA FinishedCarries ==
  ASSUME TypeOK, Carrying, [Next]_vars, NEW d \in Devices, Finishes(d)
  PROVE  \A i \in 1..Len(local[d]) : \A p \in ChangedPaths(local[d], i) :
           local[d][i].tree[p] \in HistoryBlobs(local'[d]) \cup yielded[d] \cup {Absent}
<1>1. local[d] \in Seq(Commit) /\ CarryingOf(d)
  BY DEF TypeOK, Typed, Carrying
<1>2. FinishRebase(d) \/ local'[d] = local[d]
  <2>1. CASE UNCHANGED vars \/ Rewrite
    BY <2>1 DEF vars, refs, Rewrite
  <2>2. ASSUME NEW e \in Devices, DeviceStep(e), e # d
        PROVE  local'[d] = local[d]
    BY <2>2, OthersFrame
  <2>3. CASE DeviceStep(d)
    <3>1. phase[d] = "replaying"
      BY DEF Finishes
    <3>2. ~(InitStore(d) \/ Clone(d) \/ Edit(d) \/ Sync(d))
      BY <3>1, EditCommits DEF InitStore, Clone, Sync, SyncUpToDate, SyncFastForward,
                               SyncDiverged, CanSync
    <3> QED BY <2>3, <3>1, <3>2
            DEF DeviceStep, Rebase, ReplayClean, AskResolver, Answer, ApplyChoices, ApplyFails,
                Crash, PushStart, PushNothing, PushReply, PushAccepted, PushRejected,
                PushBroken, PushEnds, refs
  <2> QED BY <2>1, <2>2, <2>3 DEF Next
<1>3. CASE local'[d] = local[d]
  BY <1>1, <1>3, InHistory DEF ChangedPaths
<1>4. CASE FinishRebase(d)
  <2>1. /\ step[d] \in Nat /\ step[d] > Len(local[d]) /\ InRebase(d)
        /\ local'[d] = detached[d]
    BY <1>4 DEF FinishRebase, Finishes, InRebase, TypeOK, Typed
  <2>2. \A i \in 1..Len(local[d]) : i \in 1..(step[d] - 1)
    BY <1>1, <2>1
  <2> QED BY <1>1, <2>1, <2>2 DEF CarryingOf, Carried, CarriedTo, ChangedPaths
<1> QED BY <1>2, <1>3, <1>4

\* Where every commit writes a single version (saves, removals and copies do), a
\* completed rebase leaves every version a commit of the device wrote in its
\* history, unless the user let the other side win that very version: for any
\* number of devices, entries, commits and suffixes, both store formats and
\* every sequence of answers, kills and force-pushes.
THEOREM RebasesKeepVersions ==
  ASSUME Operations \cap {"move", "reencrypt"} = {}
  PROVE  Spec => EveryVersionSurvives
<1> DEFINE Inv == TypeOK /\ SendingExtends /\ Carrying
<1>1. Init => Inv
  <2>1. Init => Carrying
    BY OneVersionShort DEF Init, Carrying, CarryingOf, Carried, Asked, InRebase
  <2> QED BY <2>1, InitHasType DEF Init, SendingExtends
<1>2. Inv /\ [Next]_vars => Inv'
  BY StepKeepsType, SendingExtendsStep, CarryingStep
<1>3. Inv /\ [Next]_vars =>
        [\A d \in Devices : Finishes(d) =>
           \A i \in 1..Len(local[d]) : \A p \in ChangedPaths(local[d], i) :
             local[d][i].tree[p] \in
               HistoryBlobs(local'[d]) \cup yielded[d] \cup {Absent}]_vars
  BY FinishedCarries
<1> QED BY <1>1, <1>2, <1>3, PTL DEF Spec, EveryVersionSurvives

-----------------------------------------------------------------------------
(***************************************************************************)
(* What reaches the server: every edit at most once, and only as a whole   *)
(* queue at the end of the shared log that RemoteLog specifies.  Both are  *)
(* about a server nobody force-pushes to.                                  *)
(***************************************************************************)

(***************************************************************************)
(* The things a device's step can do to its branch, its HEAD and the       *)
(* server; everything below argues over these.                             *)
(***************************************************************************)
\* A clone, or a fast-forward.
Adopts(d) ==
  /\ local'[d] = remote /\ detached'[d] = detached[d]
  /\ IsAncestor(local[d], remote) /\ ~InRebase(d)'
  /\ UNCHANGED <<remote, made>>

\* A fresh commit on the branch or on a detached HEAD.
Commits(d) ==
  /\ made' = made + 1 /\ ~InRebase(d)' /\ UNCHANGED remote
  /\ \E c \in Commit :
       /\ c.edit = made + 1 /\ c.author = d
       /\ \/ local'[d] = Append(local[d], c) /\ detached'[d] = detached[d]
          \/ detached'[d] = Append(detached[d], c) /\ local'[d] = local[d]

Diverges(d) ==
  /\ local'[d] = local[d] /\ detached'[d] = remote
  /\ \E base \in DivergedAt(d) : step'[d] = base + 1
  /\ UNCHANGED <<remote, made>>

\* A commit is replayed, or skipped because it changes nothing.
Replays(d) ==
  /\ InRebase(d) /\ step[d] \in 1..Len(local[d]) /\ step'[d] = step[d] + 1
  /\ local'[d] = local[d]
  /\ \/ detached'[d] = detached[d]
     \/ \E c \in Commit : /\ detached'[d] = Append(detached[d], c)
                          /\ c.edit = local[d][step[d]].edit
                          /\ c.author = local[d][step[d]].author
  /\ UNCHANGED <<remote, made>>

Completes(d) ==
  /\ InRebase(d) /\ ~InRebase(d)'
  /\ local'[d] = detached[d] /\ detached'[d] = <<>>
  /\ UNCHANGED <<remote, made>>

\* Nothing moves; an edit that was staged only has used up its number.
Stays(d) ==
  /\ local'[d] = local[d] /\ detached'[d] = detached[d]
  /\ InRebase(d)' => InRebase(d) /\ step'[d] = step[d]
  /\ made' \in {made, made + 1} /\ UNCHANGED remote

Publishes(d) ==
  /\ local'[d] = local[d] /\ detached[d] = <<>> /\ detached'[d] = <<>> /\ ~InRebase(d)'
  /\ IsAncestor(remote, local[d]) /\ remote' = local[d]
  /\ UNCHANGED made

\* A device without a store has no history.
Blank == \A d \in Devices : phase[d] = "absent" => local[d] = <<>> /\ detached[d] = <<>>

LEMMA SetupShape ==
  ASSUME TypeOK, Blank, NEW d \in Devices, InitStore(d) \/ Clone(d)
  PROVE  Adopts(d) \/ Commits(d)
<1>1. /\ local[d] = <<>> /\ phase'[d] = "idle" /\ UNCHANGED <<remote, detached>>
  BY DEF InitStore, Clone, rebaseVars, Blank, TypeOK, Typed
<1>2. CASE InitStore(d)
  <2>1. PICK S \in {{}} \cup {{<<n, 0>>} : n \in Names} :
          local' = [local EXCEPT ![d] =
                 <<NewCommit(d, [p \in Paths |->
                                   IF p \in S THEN NewBlob(p) ELSE Absent])>>]
    BY <1>2 DEF InitStore
  <2> DEFINE t == [p \in Paths |-> IF p \in S THEN NewBlob(p) ELSE Absent]
  <2>2. t \in Trees
    BY NewBlobType DEF TypeOK, Typed, Trees
  <2>3. /\ NewCommit(d, t) \in Commit
        /\ NewCommit(d, t).edit = made + 1 /\ NewCommit(d, t).author = d
    <3> HIDE DEF t
    <3> QED BY <2>2, NewCommitType DEF TypeOK, Typed, NewCommit
  <2>4. local'[d] = <<NewCommit(d, t)>>
    BY <2>1 DEF TypeOK, Typed
  <2> HIDE DEF t
  <2>5. local'[d] = Append(local[d], NewCommit(d, t)) /\ detached'[d] = detached[d]
    BY <1>1, <2>4
  <2> QED BY <1>1, <1>2, <2>3, <2>5 DEF InitStore, Commits, InRebase
<1>3. CASE Clone(d)
  <2>1. local'[d] = remote /\ IsAncestor(local[d], remote)
    BY <1>1, <1>3 DEF Clone, TypeOK, Typed, IsAncestor
  <2> QED BY <1>1, <1>3, <2>1 DEF Clone, Adopts, InRebase, counters
<1> QED BY <1>2, <1>3

LEMMA EditShape ==
  ASSUME TypeOK, NEW d \in Devices, Edit(d)
  PROVE  Commits(d) \/ Stays(d)
<1>1. phase[d] = "idle"
  BY EditCommits
<1>2. PICK t \in Trees : EditStep(d, t)
  BY EditCommits
<1>3. /\ NewCommit(d, t) \in Commit
      /\ NewCommit(d, t).edit = made + 1 /\ NewCommit(d, t).author = d
  BY NewCommitType DEF TypeOK, Typed, NewCommit
<1>4. CASE CommitTree(d, t)
  <2>1. \/ /\ local'[d] = Append(local[d], NewCommit(d, t)) /\ detached'[d] = detached[d]
        \/ /\ detached'[d] = Append(detached[d], NewCommit(d, t)) /\ local'[d] = local[d]
    BY <1>4 DEF CommitTree, TypeOK, Typed
  <2>2. made' = made + 1 /\ UNCHANGED <<remote, phase>>
    BY <1>4 DEF CommitTree
  <2> QED BY <1>1, <1>3, <2>1, <2>2 DEF Commits, InRebase
<1>5. CASE \E paths \in SUBSET Paths : StageTree(d, paths, t)
  <2>1. made' = made + 1 /\ UNCHANGED <<remote, local, detached, phase>>
    BY <1>5 DEF StageTree, refs
  <2> QED BY <1>1, <2>1 DEF Stays, InRebase
<1> QED BY <1>2, <1>4, <1>5 DEF EditStep

LEMMA SyncShape ==
  ASSUME TypeOK, NEW d \in Devices, Sync(d)
  PROVE  (Stays(d) \/ Adopts(d) \/ Diverges(d)) /\ phase'[d] # "absent"
<1>1. CASE SyncUpToDate(d)
  BY <1>1 DEF SyncUpToDate, CanSync, rebaseVars, counters, Stays, InRebase
<1>2. CASE SyncFastForward(d)
  BY <1>2 DEF SyncFastForward, CanSync, rebaseVars, counters, Adopts, InRebase, TypeOK, Typed
<1>3. CASE SyncDiverged(d)
  BY <1>3 DEF SyncDiverged, CanSync, counters, Diverges, TypeOK, Typed
<1> QED BY <1>1, <1>2, <1>3 DEF Sync

LEMMA RebaseShape ==
  ASSUME TypeOK, NEW d \in Devices, Rebase(d) \/ Crash(d)
  PROVE  (Stays(d) \/ Replays(d) \/ Completes(d)) /\ phase'[d] # "absent"
<1>1. CASE ReplayClean(d) \/ ApplyChoices(d)
  <2>1. InRebase(d) /\ step[d] <= Len(local[d]) /\ phase'[d] = "replaying"
    BY <1>1 DEF ReplayClean, ApplyChoices, InRebase, TypeOK, Typed, CallState
  <2>2. /\ AncTree(d) \in Trees /\ OurTree(d) \in Trees /\ TheirTree(d) \in Trees
        /\ step[d] \in 1..Len(local[d])
    BY <2>1, MergeTreeTypes
  <2>3. \E t \in Trees : detached'[d] = Replayed(d, t)
    <3>1. CASE ReplayClean(d)
      BY <2>2, <3>1, MergedTreeType DEF ReplayClean, TypeOK, Typed
    <3>2. CASE ApplyChoices(d)
      <4>1. DOMAIN answers[d] \subseteq Paths
        BY <3>2 DEF ApplyChoices, TypeOK, Typed, CallState
      <4>2. Resolved(answers[d], AncTree(d), OurTree(d), TheirTree(d)) \in Trees
        BY <2>2, <4>1, ResolvedType
      <4> QED BY <3>2, <4>2 DEF ApplyChoices, TypeOK, Typed
    <3> QED BY <1>1, <3>1, <3>2
  <2>4. UNCHANGED <<remote, local, made>> /\ step'[d] = step[d] + 1
    BY <1>1 DEF ReplayClean, ApplyChoices, refs, counters, TypeOK, Typed
  <2>5. \/ detached'[d] = detached[d]
        \/ \E c \in Commit : /\ detached'[d] = Append(detached[d], c)
                             /\ c.author = local[d][step[d]].author
                             /\ c.edit = local[d][step[d]].edit
    BY <2>1, <2>3, ReplayedType
  <2> QED BY <2>1, <2>2, <2>4, <2>5 DEF Replays
<1>2. CASE AskResolver(d) \/ Answer(d)
  <2>1. UNCHANGED <<remote, local, detached, step, made>> /\ InRebase(d)
        /\ phase'[d] \in {"asking", "applying"}
    BY <1>2 DEF AskResolver, Answer, InRebase, refs, counters, TypeOK, Typed
  <2> QED BY <2>1 DEF Stays
<1>3. CASE ApplyFails(d) \/ Crash(d)
  <2>1. UNCHANGED <<remote, local, detached, made>> /\ phase'[d] = "idle"
    BY <1>3 DEF ApplyFails, Crash, SyncReturns, refs, counters, TypeOK, Typed
  <2> QED BY <2>1 DEF Stays, InRebase
<1>4. CASE FinishRebase(d)
  <2>1. /\ UNCHANGED <<remote, made>> /\ local'[d] = detached[d] /\ detached'[d] = <<>>
        /\ phase[d] = "replaying" /\ phase'[d] = "idle"
    BY <1>4 DEF FinishRebase, SyncReturns, counters, TypeOK, Typed
  <2> QED BY <2>1 DEF Completes, InRebase
<1> QED BY <1>1, <1>2, <1>3, <1>4 DEF Rebase

LEMMA PushShape ==
  ASSUME TypeOK, SendingExtends, NEW d \in Devices,
         PushStart(d) \/ PushNothing(d) \/ PushReply(d)
  PROVE  (Stays(d) \/ Publishes(d)) /\ phase'[d] # "absent"
<1>1. CASE PushStart(d) \/ PushNothing(d)
  <2>1. UNCHANGED <<remote, local, detached, step, made>> /\ phase'[d] \in {"idle", "sending"}
    BY <1>1 DEF PushStart, PushNothing, refs, rebaseVars, counters, TypeOK, Typed
  <2> QED BY <2>1 DEF Stays, InRebase
<1>2. CASE PushReply(d)
  <2>1. UNCHANGED <<local, detached, step, made>> /\ phase[d] = "sending" /\ phase'[d] = "idle"
    BY <1>2 DEF PushReply, PushAccepted, PushRejected, PushBroken, PushEnds, rebaseVars, TypeOK, Typed
  <2>2. detached[d] = <<>>
    BY <2>1 DEF TypeOK, CallState
  <2>3. \/ UNCHANGED remote
        \/ remote = advertised[d] /\ remote' = local[d]
    BY <1>2 DEF PushReply, PushAccepted, PushRejected, PushBroken
  <2> QED BY <2>1, <2>2, <2>3 DEF Stays, Publishes, InRebase, SendingExtends
<1> QED BY <1>1, <1>2

LEMMA DeviceStepShape ==
  ASSUME TypeOK, SendingExtends, Blank, NEW d \in Devices, DeviceStep(d)
  PROVE  /\ \/ Adopts(d) \/ Commits(d) \/ Diverges(d) \/ Replays(d) \/ Completes(d)
            \/ Stays(d) \/ Publishes(d)
         /\ phase'[d] # "absent"
<1>1. CASE InitStore(d) \/ Clone(d)
  BY <1>1, SetupShape DEF InitStore, Clone, TypeOK, Typed
<1>2. CASE Edit(d)
  <2>1. phase[d] = "idle" /\ \E t \in Trees : EditStep(d, t)
    BY <1>2, EditCommits
  <2> QED BY <1>2, <2>1, EditShape DEF EditStep, CommitTree, StageTree
<1> QED BY <1>1, <1>2, SyncShape, RebaseShape, PushShape DEF DeviceStep

LEMMA BlankStep ==
  ASSUME TypeOK, SendingExtends, NoRewrites, Blank, [Next]_vars
  PROVE  Blank'
<1> SUFFICES ASSUME NEW e \in Devices, phase'[e] = "absent"
             PROVE  local'[e] = <<>> /\ detached'[e] = <<>>
  BY DEF Blank
<1>1. ASSUME NEW d \in Devices, DeviceStep(d)
      PROVE  local'[e] = <<>> /\ detached'[e] = <<>>
  BY <1>1, DeviceStepShape, OthersFrame DEF Blank
<1>2. CASE UNCHANGED vars
  BY <1>2 DEF vars, refs, rebaseVars, Blank
<1> QED BY <1>1, <1>2, NoRewritesStep DEF Next

(***************************************************************************)
(* Every edit is in a history at most once.                                *)
(*                                                                         *)
(* A replayed commit keeps its edit, so an edit can be in the old branch   *)
(* and in its replay at HEAD; what makes PublishedOnce hold is that a      *)
(* device's branch has an edit of the server's only where the server has   *)
(* it (OnServer), that edits identify their authors (Attributed), and that *)
(* the commits still to be replayed lie beyond the point where branch and  *)
(* server part (Parted), so that none of them is at HEAD already.          *)
(***************************************************************************)
On(h, c) == \E i \in 1..Len(h) : h[i] = c
Exists(c) == On(remote, c) \/ \E d \in Devices : On(local[d], c) \/ On(detached[d], c)

Attributed ==
  /\ \A a \in Commit : Exists(a) => a.edit <= made
  /\ \A a, b \in Commit : Exists(a) /\ Exists(b) /\ a.edit = b.edit => a.author = b.author

EachOnce(h) == \A i, j \in 1..Len(h) : h[i].edit = h[j].edit => i = j

OnServer(r, h) ==
  \A i \in 1..Len(h), j \in 1..Len(r) :
    h[i].edit = r[j].edit => i <= Len(r) /\ \A k \in 1..i : h[k] = r[k]

Parted(r, h, n) == \E k \in 1..Len(h) : k <= n /\ k <= Len(r) /\ h[k] # r[k]

OnceOf(d) ==
  /\ EachOnce(local[d]) /\ EachOnce(detached[d])
  /\ OnServer(remote, local[d]) /\ OnServer(remote, detached[d])
  /\ InRebase(d) =>
       /\ Parted(remote, local[d], step[d])
       /\ \A i \in 1..Len(detached[d]), j \in step[d]..Len(local[d]) :
            detached[d][i].edit # local[d][j].edit

Once == Attributed /\ EachOnce(remote) /\ \A d \in Devices : OnceOf(d)

\* What the argument has to hand, and what it shows to be invariant.
Ground == TypeOK /\ SendingExtends /\ NoRewrites /\ OwnWork /\ Blank

LEMMA AlwaysGround ==
  ASSUME MaxRewrites = 0
  PROVE  Spec => []Ground
<1>1. Init => Ground
  BY InitHasType DEF Init, Ground, SendingExtends, NoRewrites, OwnWork, OwnWorkOf, OwnOrOn,
     InRebase, Blank
<1>2. Ground /\ [Next]_vars => Ground'
  BY StepKeepsType, SendingExtendsStep, NoRewritesStep, OwnWorkStep, BlankStep DEF Ground
<1> QED BY <1>1, <1>2, PTL DEF Spec

LEMMA HistoryTypes ==
  ASSUME TypeOK
  PROVE  /\ remote \in Seq(Commit) /\ made \in Nat
         /\ \A d \in Devices : /\ local[d] \in Seq(Commit) /\ detached[d] \in Seq(Commit)
                               /\ step[d] \in Nat
BY DEF TypeOK, Typed

\* A history and the commit appended to it.
LEMMA OnAppend ==
  ASSUME NEW h \in Seq(Commit), NEW c \in Commit, NEW a, On(Append(h, c), a)
  PROVE  On(h, a) \/ a = c
BY DEF On

\* A commit a step brings into being continues one that exists, or is fresh.
LEMMA WhatAppears ==
  ASSUME Ground, NEW d \in Devices, DeviceStep(d), NEW a \in Commit, Exists(a)'
  PROVE  \/ \E b \in Commit : Exists(b) /\ b.edit = a.edit /\ b.author = a.author
         \/ a.edit = made + 1 /\ a.author = d /\ made' = made + 1
<1> DEFINE Descends == \E b \in Commit : Exists(b) /\ b.edit = a.edit /\ b.author = a.author
<1>1. \A e \in Devices \ {d} : local'[e] = local[e] /\ detached'[e] = detached[e]
  BY OthersFrame DEF Ground
<1>2. /\ local[d] \in Seq(Commit) /\ detached[d] \in Seq(Commit) /\ remote \in Seq(Commit)
  BY HistoryTypes DEF Ground
<1>3. SUFFICES ASSUME ~Exists(a)
               PROVE  Descends \/ (a.edit = made + 1 /\ a.author = d /\ made' = made + 1)
  OBVIOUS
<1>4. \/ On(remote', a) /\ remote' # remote
      \/ On(local'[d], a) /\ local'[d] # local[d]
      \/ On(detached'[d], a) /\ detached'[d] # detached[d]
  BY <1>1, <1>3 DEF Exists
<1>5. CASE Adopts(d) \/ Diverges(d) \/ Completes(d) \/ Stays(d) \/ Publishes(d)
  <2>1. /\ remote' = remote \/ remote' = local[d]
        /\ local'[d] \in {remote, local[d], detached[d]}
        /\ detached'[d] \in {remote, detached[d], <<>>}
    BY <1>5 DEF Adopts, Diverges, Completes, Stays, Publishes
  <2>2. ~On(<<>>, a)
    BY DEF On
  <2> QED BY <1>3, <1>4, <2>1, <2>2 DEF Exists
<1>6. CASE Commits(d)
  <2>1. PICK c \in Commit :
          /\ c.edit = made + 1 /\ c.author = d
          /\ \/ local'[d] = Append(local[d], c) /\ detached'[d] = detached[d]
             \/ detached'[d] = Append(detached[d], c) /\ local'[d] = local[d]
    BY <1>6 DEF Commits
  <2>2. ~On(local[d], a) /\ ~On(detached[d], a) /\ remote' = remote
    BY <1>3, <1>6 DEF Exists, Commits
  <2>3. On(Append(local[d], c), a) \/ On(Append(detached[d], c), a)
    BY <1>4, <2>1, <2>2
  <2>4. a = c
    BY <1>2, <2>2, <2>3, OnAppend
  <2> QED BY <1>6, <2>1, <2>4 DEF Commits
<1>7. CASE Replays(d)
  <2>1. PICK c \in Commit : /\ detached'[d] = Append(detached[d], c)
                            /\ c.edit = local[d][step[d]].edit
                            /\ c.author = local[d][step[d]].author
    BY <1>4, <1>7 DEF Replays
  <2>2. a = c
    BY <1>2, <1>3, <1>4, <1>7, <2>1, OnAppend DEF Exists, Replays
  <2>3. local[d][step[d]] \in Commit /\ On(local[d], local[d][step[d]])
    BY <1>2, <1>7 DEF Replays, On
  <2> QED BY <2>1, <2>2, <2>3 DEF Exists
<1> QED BY <1>5, <1>6, <1>7, DeviceStepShape DEF Ground

LEMMA AttributedStep ==
  ASSUME Ground, Attributed, NEW d \in Devices, DeviceStep(d)
  PROVE  Attributed'
<1>1. made \in Nat /\ made' \in {made, made + 1}
  <2>1. made \in Nat
    BY HistoryTypes DEF Ground
  <2>2. made' \in {made, made + 1}
    BY DeviceStepShape DEF Ground, Adopts, Commits, Diverges, Replays, Completes, Stays, Publishes
  <2> QED BY <2>1, <2>2
<1> DEFINE Descends(a) == \E b \in Commit : Exists(b) /\ b.edit = a.edit /\ b.author = a.author
           Fresh(a) == a.edit = made + 1 /\ a.author = d /\ made' = made + 1
<1>2. \A a \in Commit : Exists(a)' => Descends(a) \/ Fresh(a)
  BY WhatAppears
<1>3. \A a \in Commit : Descends(a) => a.edit <= made
  BY DEF Attributed
<1>4. \A a, b \in Commit : Descends(a) /\ Descends(b) /\ a.edit = b.edit => a.author = b.author
  BY DEF Attributed
<1> HIDE DEF Descends
<1>5. \A a \in Commit : a.edit \in Nat
  BY DEF Commit
<1>6. \A a \in Commit : Exists(a)' => a.edit <= made'
  BY <1>1, <1>2, <1>3, <1>5
<1>7. \A a, b \in Commit : Exists(a)' /\ Exists(b)' /\ a.edit = b.edit => a.author = b.author
  BY <1>1, <1>2, <1>3, <1>4, <1>5
<1> QED BY <1>6, <1>7 DEF Attributed

\* OnServer and Parted survive the growth of the server's history by commits of
\* another device.
LEMMA OnServerGrows ==
  ASSUME NEW r \in Seq(Commit), NEW s \in Seq(Commit), NEW h \in Seq(Commit), NEW e,
         IsAncestor(r, s), OnServer(r, h), OwnOrOn(r, h, e),
         \A j \in (Len(r) + 1)..Len(s) : s[j].author # e,
         \A i \in 1..Len(h), j \in 1..Len(s) :
           h[i].edit = s[j].edit => h[i].author = s[j].author
  PROVE  OnServer(s, h)
<1> SUFFICES ASSUME NEW i \in 1..Len(h), NEW j \in 1..Len(s), h[i].edit = s[j].edit
             PROVE  i <= Len(s) /\ \A k \in 1..i : h[k] = s[k]
  BY DEF OnServer
<1>1. Len(r) <= Len(s) /\ \A k \in 1..Len(r) : s[k] = r[k]
  BY DEF IsAncestor
<1>2. Len(r) \in Nat /\ Len(s) \in Nat /\ Len(h) \in Nat
  OBVIOUS
<1>3. i <= Len(r) /\ \A k \in 1..i : h[k] = r[k]
  <2>1. CASE j <= Len(r)
    BY <1>1, <1>2, <2>1 DEF OnServer
  <2>2. CASE j > Len(r)
    <3>1. h[i].author # e
      BY <1>2, <2>2
    <3> QED BY <3>1 DEF OwnOrOn
  <2> QED BY <1>2, <2>1, <2>2
<1>4. \A k \in 1..i : k \in 1..Len(r)
  BY <1>2, <1>3
<1>5. i <= Len(s)
  BY <1>1, <1>2, <1>3
<1> QED BY <1>1, <1>3, <1>4, <1>5

LEMMA PartedGrows ==
  ASSUME NEW r \in Seq(Commit), NEW s \in Seq(Commit), NEW h \in Seq(Commit), NEW n,
         IsAncestor(r, s), Parted(r, h, n)
  PROVE  Parted(s, h, n)
BY DEF IsAncestor, Parted

\* Beyond the point where a branch parts from the server's history, none of its
\* edits is there.
LEMMA PartedIsNew ==
  ASSUME NEW r \in Seq(Commit), NEW h \in Seq(Commit), NEW n \in Nat,
         OnServer(r, h), Parted(r, h, n)
  PROVE  \A i \in n..Len(h), j \in 1..Len(r) : i >= 1 => h[i].edit # r[j].edit
<1> SUFFICES ASSUME NEW i \in n..Len(h), NEW j \in 1..Len(r), i >= 1, h[i].edit = r[j].edit
             PROVE  FALSE
  OBVIOUS
<1>1. i \in 1..Len(h)
  OBVIOUS
<1>2. \A k \in 1..i : h[k] = r[k]
  BY <1>1 DEF OnServer
<1> QED BY <1>1, <1>2 DEF Parted

\* An edit nobody made yet, on top of a history.
LEMMA FreshOnTop ==
  ASSUME Ground, Attributed, NEW h \in Seq(Commit), \A a \in Commit : On(h, a) => Exists(a),
         NEW c \in Commit, c.edit = made + 1, EachOnce(h), OnServer(remote, h)
  PROVE  EachOnce(Append(h, c)) /\ OnServer(remote, Append(h, c))
<1>1. remote \in Seq(Commit) /\ made \in Nat
  BY HistoryTypes DEF Ground
<1>2. \A i \in 1..Len(h) : h[i] \in Commit /\ h[i].edit <= made
  BY DEF On, Attributed
<1>3. \A i \in 1..Len(remote) : remote[i] \in Commit /\ remote[i].edit <= made
  BY <1>1 DEF On, Exists, Attributed
<1>4. \A a \in Commit : a.edit \in Nat
  BY DEF Commit
<1>5. /\ Len(Append(h, c)) = Len(h) + 1 /\ Append(h, c)[Len(h) + 1] = c
      /\ \A i \in 1..Len(h) : Append(h, c)[i] = h[i]
  OBVIOUS
<1>6. EachOnce(Append(h, c))
  <2> SUFFICES ASSUME NEW i \in 1..(Len(h) + 1), NEW j \in 1..(Len(h) + 1),
                      Append(h, c)[i].edit = Append(h, c)[j].edit
               PROVE  i = j
    BY <1>5 DEF EachOnce
  <2>1. CASE i \in 1..Len(h) /\ j \in 1..Len(h)
    BY <1>5, <2>1 DEF EachOnce
  <2>2. CASE i = Len(h) + 1 \/ j = Len(h) + 1
    BY <1>1, <1>2, <1>4, <1>5, <2>2
  <2> QED BY <2>1, <2>2
<1>7. OnServer(remote, Append(h, c))
  <2> SUFFICES ASSUME NEW i \in 1..(Len(h) + 1), NEW j \in 1..Len(remote),
                      Append(h, c)[i].edit = remote[j].edit
               PROVE  i <= Len(remote) /\ \A k \in 1..i : Append(h, c)[k] = remote[k]
    BY <1>5 DEF OnServer
  <2>1. i # Len(h) + 1
    BY <1>1, <1>3, <1>4, <1>5
  <2>2. i \in 1..Len(h)
    BY <2>1
  <2> QED BY <1>5, <2>2 DEF OnServer
<1> QED BY <1>6, <1>7

\* An edit that is neither in a history nor on the server, on top of it.
LEMMA ReplayedOnTop ==
  ASSUME NEW r \in Seq(Commit), NEW h \in Seq(Commit), NEW c \in Commit,
         EachOnce(h), OnServer(r, h),
         \A i \in 1..Len(h) : h[i].edit # c.edit,
         \A j \in 1..Len(r) : r[j].edit # c.edit
  PROVE  EachOnce(Append(h, c)) /\ OnServer(r, Append(h, c))
<1>1. /\ Len(Append(h, c)) = Len(h) + 1 /\ Append(h, c)[Len(h) + 1] = c
      /\ \A i \in 1..Len(h) : Append(h, c)[i] = h[i]
  OBVIOUS
<1>2. \A i \in 1..(Len(h) + 1) : i \in 1..Len(h) \/ i = Len(h) + 1
  OBVIOUS
<1>3. EachOnce(Append(h, c))
  BY <1>1, <1>2 DEF EachOnce
<1>4. OnServer(r, Append(h, c))
  <2> SUFFICES ASSUME NEW i \in 1..(Len(h) + 1), NEW j \in 1..Len(r),
                      Append(h, c)[i].edit = r[j].edit
               PROVE  i <= Len(r) /\ \A k \in 1..i : Append(h, c)[k] = r[k]
    BY <1>1 DEF OnServer
  <2>1. i \in 1..Len(h)
    BY <1>1, <1>2
  <2> QED BY <1>1, <2>1 DEF OnServer
<1> QED BY <1>3, <1>4

\* The branch of the device that acts.
LEMMA ActingDeviceOnce ==
  ASSUME Ground, Once, NEW d \in Devices, DeviceStep(d)
  PROVE  OnceOf(d)'
<1>1. /\ local[d] \in Seq(Commit) /\ detached[d] \in Seq(Commit) /\ remote \in Seq(Commit)
      /\ made \in Nat /\ step[d] \in Nat
  BY HistoryTypes DEF Ground
<1>2. OnceOf(d) /\ EachOnce(remote)
  BY DEF Once
<1>3. OnServer(remote, remote) /\ EachOnce(<<>>) /\ OnServer(remote, <<>>)
  BY <1>1, <1>2 DEF EachOnce, OnServer
<1>4. CASE Adopts(d)
  BY <1>2, <1>3, <1>4 DEF Adopts, OnceOf
<1>5. CASE Commits(d)
  <2>1. PICK c \in Commit :
          /\ c.edit = made + 1
          /\ \/ local'[d] = Append(local[d], c) /\ detached'[d] = detached[d]
             \/ detached'[d] = Append(detached[d], c) /\ local'[d] = local[d]
    BY <1>5 DEF Commits
  <2>2. /\ EachOnce(Append(local[d], c)) /\ OnServer(remote, Append(local[d], c))
        /\ EachOnce(Append(detached[d], c)) /\ OnServer(remote, Append(detached[d], c))
    BY <1>1, <1>2, <2>1, FreshOnTop DEF Once, OnceOf, Exists
  <2> QED BY <1>2, <1>5, <2>1, <2>2 DEF Commits, OnceOf
<1>6. CASE Diverges(d)
  <2>1. PICK base \in DivergedAt(d) : step'[d] = base + 1
    BY <1>6 DEF Diverges
  <2>2. /\ base \in Nat /\ base < Len(local[d]) /\ base < Len(remote)
        /\ local[d][base + 1] # remote[base + 1]
    BY <1>1, <2>1 DEF DivergedAt, MergeBases
  <2>3. Parted(remote, local[d], base + 1)
    BY <1>1, <2>2 DEF Parted
  <2>4. \A j \in (base + 1)..Len(local[d]), i \in 1..Len(remote) : local[d][j].edit # remote[i].edit
    BY <1>1, <1>2, <2>2, <2>3, PartedIsNew DEF OnceOf
  <2> QED BY <1>2, <1>3, <1>6, <2>1, <2>3, <2>4 DEF Diverges, OnceOf
<1>7. CASE Replays(d)
  <2>1. step[d] \in 1..Len(local[d]) /\ InRebase(d) /\ step'[d] = step[d] + 1
        /\ local'[d] = local[d] /\ remote' = remote
    BY <1>7 DEF Replays
  <2> DEFINE now == local[d][step[d]].edit
  <2>2. Parted(remote, local[d], step[d] + 1)
    BY <1>1, <1>2, <2>1 DEF OnceOf, Parted
  <2>3. /\ \A i \in 1..Len(detached[d]) : detached[d][i].edit # now
        /\ \A j \in 1..Len(remote) : remote[j].edit # now
        /\ \A j \in (step[d] + 1)..Len(local[d]) : local[d][j].edit # now
    <3>1. \A i \in 1..Len(detached[d]) : detached[d][i].edit # now
      BY <1>1, <1>2, <2>1 DEF OnceOf
    <3>2. \A j \in 1..Len(remote) : remote[j].edit # now
      BY <1>1, <1>2, <2>1, PartedIsNew DEF OnceOf
    <3>3. \A j \in (step[d] + 1)..Len(local[d]) : local[d][j].edit # now
      BY <1>1, <1>2, <2>1 DEF OnceOf, EachOnce
    <3> QED BY <3>1, <3>2, <3>3
  <2>4. CASE detached'[d] = detached[d]
    BY <1>1, <1>2, <2>1, <2>2, <2>4 DEF OnceOf
  <2>5. ASSUME NEW c \in Commit, detached'[d] = Append(detached[d], c), c.edit = now
        PROVE  OnceOf(d)'
    <3>1. EachOnce(Append(detached[d], c)) /\ OnServer(remote, Append(detached[d], c))
      BY <1>1, <1>2, <2>3, <2>5, ReplayedOnTop DEF OnceOf
    <3>2. \A i \in 1..Len(Append(detached[d], c)), j \in (step[d] + 1)..Len(local[d]) :
            Append(detached[d], c)[i].edit # local[d][j].edit
      <4>0. Len(Append(detached[d], c)) = Len(detached[d]) + 1
        BY <1>1
      <4> SUFFICES ASSUME NEW i \in 1..(Len(detached[d]) + 1),
                          NEW j \in (step[d] + 1)..Len(local[d])
                   PROVE  Append(detached[d], c)[i].edit # local[d][j].edit
        BY <4>0
      <4>1. CASE i \in 1..Len(detached[d])
        BY <1>1, <1>2, <2>1, <4>1 DEF OnceOf
      <4>2. CASE i = Len(detached[d]) + 1
        BY <1>1, <2>3, <2>5, <4>2
      <4> QED BY <1>1, <4>1, <4>2
    <3> QED BY <1>2, <2>1, <2>2, <2>5, <3>1, <3>2 DEF OnceOf
  <2> QED BY <1>7, <2>4, <2>5 DEF Replays
<1>8. CASE Completes(d)
  BY <1>2, <1>3, <1>8 DEF Completes, OnceOf
<1>9. CASE Stays(d)
  BY <1>2, <1>9 DEF Stays, OnceOf
<1>10. CASE Publishes(d)
  <2>1. OnServer(local[d], local[d]) /\ OnServer(local[d], <<>>)
    BY <1>1, <1>2 DEF OnceOf, EachOnce, OnServer
  <2> QED BY <1>2, <1>3, <1>10, <2>1 DEF Publishes, OnceOf
<1> QED BY <1>4, <1>5, <1>6, <1>7, <1>8, <1>9, <1>10, DeviceStepShape DEF Ground

\* The branch of a device that does not.
LEMMA OtherDeviceOnce ==
  ASSUME Ground, Once, NEW d \in Devices, DeviceStep(d), NEW e \in Devices \ {d}
  PROVE  OnceOf(e)'
<1>1. /\ local'[e] = local[e] /\ detached'[e] = detached[e]
      /\ step'[e] = step[e] /\ phase'[e] = phase[e]
  BY OthersFrame DEF Ground
<1>2. /\ local[e] \in Seq(Commit) /\ detached[e] \in Seq(Commit) /\ remote \in Seq(Commit)
      /\ local[d] \in Seq(Commit)
  BY HistoryTypes DEF Ground
<1>3. OnceOf(e)
  BY DEF Once
<1>4. CASE remote' = remote
  BY <1>1, <1>3, <1>4 DEF OnceOf, InRebase
<1>5. CASE Publishes(d)
  <2>1. remote' = local[d] /\ IsAncestor(remote, local[d])
    BY <1>5 DEF Publishes
  <2>2. \A j \in (Len(remote) + 1)..Len(local[d]) : local[d][j].author # e
    BY <1>2 DEF Ground, OwnWork, OwnWorkOf, OwnOrOn
  <2>3. \A h \in {local[e], detached[e]} : \A i \in 1..Len(h), j \in 1..Len(local[d]) :
          h[i].edit = local[d][j].edit => h[i].author = local[d][j].author
    <3>1. \A h \in {local[e], detached[e]} : \A i \in 1..Len(h) : h[i] \in Commit /\ Exists(h[i])
      BY <1>2 DEF Exists, On
    <3>2. \A j \in 1..Len(local[d]) : local[d][j] \in Commit /\ Exists(local[d][j])
      BY <1>2 DEF Exists, On
    <3> QED BY <3>1, <3>2 DEF Once, Attributed
  <2>4. OnServer(local[d], local[e]) /\ OnServer(local[d], detached[e])
    BY <1>2, <1>3, <2>1, <2>2, <2>3, OnServerGrows DEF OnceOf, Ground, OwnWork, OwnWorkOf
  <2>5. InRebase(e) => Parted(local[d], local[e], step[e])
    BY <1>2, <1>3, <2>1, PartedGrows DEF OnceOf
  <2> QED BY <1>1, <1>3, <2>1, <2>4, <2>5 DEF OnceOf, InRebase
<1> QED BY <1>4, <1>5, DeviceStepShape DEF Ground, Adopts, Commits, Diverges, Replays, Completes, Stays

LEMMA OnceStep ==
  ASSUME Ground, Once, [Next]_vars
  PROVE  Once'
<1>1. CASE UNCHANGED vars
  BY <1>1 DEF vars, refs, rebaseVars, counters, Once, OnceOf, InRebase, Attributed, Exists
<1>2. ASSUME NEW d \in Devices, DeviceStep(d)
      PROVE  Once'
  <2>1. Attributed'
    BY <1>2, AttributedStep DEF Once
  <2>2. EachOnce(remote')
    BY <1>2, DeviceStepShape DEF Ground, Once, OnceOf, Adopts, Commits, Diverges, Replays,
       Completes, Stays, Publishes
  <2>3. \A e \in Devices : OnceOf(e)'
    BY <1>2, ActingDeviceOnce, OtherDeviceOnce
  <2> QED BY <2>1, <2>2, <2>3 DEF Once
<1> QED BY <1>1, <1>2, NoRewritesStep DEF Ground, Next

LEMMA AlwaysOnce ==
  ASSUME MaxRewrites = 0
  PROVE  Spec => [](Ground /\ Once)
<1>1. Init => Once
  BY DEF Init, Once, Attributed, Exists, On, EachOnce, OnceOf, OnServer, InRebase
<1>2. Once /\ Ground /\ [Next]_vars => Once'
  BY OnceStep
<1> QED BY <1>1, <1>2, AlwaysGround, PTL DEF Spec

\* On a server nobody force-pushes to, an edit is published at most once, for
\* any number of devices and whatever rebases, crashes, lost replies and
\* retries it goes through.
THEOREM EditsPublishedOnce ==
  ASSUME MaxRewrites = 0
  PROVE  Spec => []PublishedOnce
<1>1. Once => PublishedOnce
  BY DEF Once, EachOnce, PublishedOnce
<1> QED BY <1>1, AlwaysOnce, PTL

(***************************************************************************)
(* Where two histories part.                                               *)
(***************************************************************************)
\* Two linear histories have exactly one merge base.
LEMMA OneMergeBase ==
  ASSUME NEW s \in Seq(Commit), NEW t \in Seq(Commit)
  PROVE  /\ \E k \in MergeBases(s, t) : TRUE
         /\ \A k, l \in MergeBases(s, t) : k = l
<1>1. Len(s) \in Nat /\ Len(t) \in Nat
  OBVIOUS
<1> DEFINE Ends == {n \in Nat : n = Len(s) \/ n = Len(t) \/ s[n + 1] # t[n + 1]}
<1>2. PICK n \in Ends : \A m \in Ends : n <= m
  <2>1. Ends \in SUBSET Nat /\ Len(s) \in Ends
    BY <1>1
  <2> HIDE DEF Ends
  <2> QED BY <2>1, NumbersHaveLeast
<1>3. n \in Nat /\ n <= Len(s) /\ n <= Len(t)
  BY <1>1, <1>2
<1>4. \A i \in 1..n : s[i] = t[i]
  <2> SUFFICES ASSUME NEW i \in 1..n
               PROVE  s[i] = t[i]
    OBVIOUS
  <2>1. i - 1 \in Nat /\ i - 1 < n
    BY <1>3
  <2>2. i - 1 \notin Ends
    <3> HIDE DEF Ends
    <3> QED BY <1>2, <1>3, <2>1
  <2>3. (i - 1) + 1 = i
    OBVIOUS
  <2> QED BY <2>1, <2>2, <2>3
<1>5. n \in MergeBases(s, t)
  BY <1>1, <1>2, <1>3, <1>4 DEF MergeBases
<1>6. ASSUME NEW k \in MergeBases(s, t), NEW l \in MergeBases(s, t), k < l
      PROVE  FALSE
  BY <1>1, <1>6 DEF MergeBases
<1>7. \A k \in MergeBases(s, t) : k \in Nat
  BY <1>1 DEF MergeBases
<1>8. ASSUME NEW k \in MergeBases(s, t), NEW l \in MergeBases(s, t)
      PROVE  k = l
  <2>1. k \in Nat /\ l \in Nat
    BY <1>7
  <2>2. ~(k < l) /\ ~(l < k)
    BY <1>6
  <2> QED BY <2>1, <2>2
<1> QED BY <1>5, <1>8

\* The edits of a history from where it parts from the server's.
EditsAfter(h, k) == [i \in 1..(Len(h) - k) |-> h[k + i].edit]

LEMMA QueueIs ==
  ASSUME NEW h \in Seq(Commit), NEW s \in Seq(Commit), NEW k \in MergeBases(h, s)
  PROVE  QueueOf(h, s) = EditsAfter(h, k) /\ k \in 0..Len(h)
<1>1. (CHOOSE l \in MergeBases(h, s) : TRUE) = k
  <2>1. (CHOOSE l \in MergeBases(h, s) : TRUE) \in MergeBases(h, s)
    OBVIOUS
  <2> QED BY <2>1, OneMergeBase
<1>2. k \in 0..Len(h)
  BY DEF MergeBases
<1> DEFINE after == SubSeq(h, k + 1, Len(h))
<1>3. Len(after) = Len(h) - k /\ \A i \in 1..(Len(h) - k) : after[i] = h[k + i]
  <2>1. k \in Nat /\ Len(h) \in Nat /\ k + 1 \in 1..(Len(h) + 1)
    BY <1>2
  <2>2. CASE k = Len(h)
    <3>1. after = <<>>
      BY <2>1, <2>2, SubSeqEmpty
    <3> QED BY <2>1, <2>2, <3>1
  <2>3. CASE k < Len(h)
    BY <2>1, <2>3
  <2> QED BY <1>2, <2>1, <2>2, <2>3
<1> HIDE DEF after
<1>4. EditsOf(after) = EditsAfter(h, k)
  BY <1>3 DEF EditsOf, EditsAfter
<1> QED BY <1>1, <1>2, <1>4 DEF QueueOf, after

(***************************************************************************)
(* The refinement of RemoteLog.  At HEAD of a rebase stand the server's    *)
(* first n commits and then, in order, edits of the branch from its base   *)
(* on: what the branch is left with when the rebase completes is what is   *)
(* left of its queue.                                                      *)
(***************************************************************************)
\* h beyond its first n commits holds edits of the commits of l that follow
\* base, the first m of them, in their order.
TakenOver(h, n, l, base, m) ==
  \E f \in [1..(Len(h) - n) -> 1..m] :
    /\ \A i, j \in 1..(Len(h) - n) : i < j => f[i] < f[j]
    /\ \A i \in 1..(Len(h) - n) : h[n + i].edit = l[base + f[i]].edit

RebasedFrom(d, base, n) ==
  /\ base \in MergeBases(local[d], remote)
  /\ base < Len(local[d]) /\ base < Len(remote) /\ base < step[d]
  /\ n \in 0..Len(detached[d]) /\ n <= Len(remote)
  /\ \A i \in 1..n : detached[d][i] = remote[i]
  /\ TakenOver(detached[d], n, local[d], base, step[d] - 1 - base)

Rebased ==
  \A d \in Devices : InRebase(d) =>
    \E base \in 0..Len(local[d]), n \in 0..Len(detached[d]) : RebasedFrom(d, base, n)

LEMMA NothingTakenOver ==
  ASSUME NEW h \in Seq(Commit), NEW l \in Seq(Commit), NEW base \in Nat, NEW m \in Nat
  PROVE  TakenOver(h, Len(h), l, base, m)
<1>1. Len(h) - Len(h) = 0
  OBVIOUS
<1>2. 1..0 = {}
  OBVIOUS
<1>3. [i \in 1..0 |-> 1] \in [1..0 -> 1..m]
  BY <1>2
<1> QED BY <1>1, <1>2, <1>3 DEF TakenOver

LEMMA TakenOverGrows ==
  ASSUME NEW h \in Seq(Commit), NEW l \in Seq(Commit), NEW base \in Nat, NEW m \in Nat,
         NEW n \in 0..Len(h), TakenOver(h, n, l, base, m)
  PROVE  /\ TakenOver(h, n, l, base, m + 1)
         /\ \A c \in Commit :
              c.edit = l[base + m + 1].edit =>
                TakenOver(Append(h, c), n, l, base, m + 1)
<1> DEFINE len == Len(h) - n
<1>1. PICK f \in [1..len -> 1..m] :
        /\ \A i, j \in 1..len : i < j => f[i] < f[j]
        /\ \A i \in 1..len : h[n + i].edit = l[base + f[i]].edit
  BY DEF TakenOver
<1>2. /\ len \in Nat /\ n \in Nat /\ Len(h) \in Nat /\ n + len = Len(h)
      /\ n + (len + 1) = Len(h) + 1 /\ base + (m + 1) = base + m + 1
  OBVIOUS
<1>3. TakenOver(h, n, l, base, m + 1)
  <2>1. f \in [1..len -> 1..(m + 1)]
    BY <1>2
  <2> QED BY <1>1, <2>1 DEF TakenOver
<1>4. ASSUME NEW c \in Commit, c.edit = l[base + m + 1].edit
      PROVE  TakenOver(Append(h, c), n, l, base, m + 1)
  <2> DEFINE k == Append(h, c)
             g == [i \in 1..(len + 1) |-> IF i <= len THEN f[i] ELSE m + 1]
  <2>1. /\ Len(k) = Len(h) + 1 /\ k[Len(h) + 1] = c
        /\ \A i \in 1..Len(h) : k[i] = h[i]
    OBVIOUS
  <2>2. Len(k) - n = len + 1
    BY <2>1
  <2>3. g \in [1..(len + 1) -> 1..(m + 1)]
    BY <1>2
  <2>4. ASSUME NEW i \in 1..(len + 1), NEW j \in 1..(len + 1), i < j
        PROVE  g[i] < g[j]
    <3>1. i \in 1..len /\ f[i] \in 1..m
      BY <1>2, <2>4
    <3> HIDE DEF len
    <3>2. CASE j <= len
      BY <1>1, <1>2, <2>4, <3>1, <3>2
    <3>3. CASE ~(j <= len)
      BY <1>2, <2>4, <3>1, <3>3
    <3> QED BY <3>2, <3>3
  <2>5. ASSUME NEW i \in 1..(len + 1)
        PROVE  k[n + i].edit = l[base + g[i]].edit
    <3>1. CASE i <= len
      <4> HIDE DEF len, k
      <4>1. i \in 1..len /\ n + i \in 1..Len(h) /\ g[i] = f[i]
        BY <1>2, <3>1
      <4> HIDE DEF g
      <4> QED BY <1>1, <2>1, <4>1
    <3>2. CASE ~(i <= len)
      <4> HIDE DEF len, k
      <4>1. i = len + 1 /\ g[i] = m + 1
        BY <1>2, <3>2
      <4> HIDE DEF g
      <4> QED BY <1>2, <1>4, <2>1, <4>1
    <3> QED BY <3>1, <3>2
  <2> HIDE DEF g, k, len
  <2> QED BY <2>2, <2>3, <2>4, <2>5 DEF TakenOver, k
<1> QED BY <1>3, <1>4

\* The edits taken over so far, and one more.
LEMMA OneMoreReplayed ==
  ASSUME Ground, NEW d \in Devices, NEW base \in Nat, NEW n \in Nat,
         RebasedFrom(d, base, n), Replays(d)
  PROVE  RebasedFrom(d, base, n)'
<1>1. /\ local[d] \in Seq(Commit) /\ detached[d] \in Seq(Commit) /\ remote \in Seq(Commit)
      /\ step[d] \in Nat
  BY HistoryTypes DEF Ground
<1> DEFINE m == step[d] - 1 - base
<1>2. /\ step'[d] = step[d] + 1 /\ local'[d] = local[d] /\ remote' = remote
  BY DEF Replays
<1>3. /\ m \in Nat /\ base + m + 1 = step[d] /\ step'[d] - 1 - base = m + 1
      /\ base < step'[d] /\ n \in 0..Len(detached[d]) /\ Len(detached[d]) \in Nat
  BY <1>1, <1>2 DEF RebasedFrom
<1>4. TakenOver(detached[d], n, local[d], base, m)
  BY DEF RebasedFrom
<1>5. CASE detached'[d] = detached[d]
  <2> HIDE DEF m
  <2>1. TakenOver(detached'[d], n, local'[d], base, step'[d] - 1 - base)
    BY <1>1, <1>2, <1>3, <1>4, <1>5, TakenOverGrows
  <2> QED BY <1>2, <1>3, <1>5, <2>1 DEF RebasedFrom
<1>6. ASSUME NEW c \in Commit, detached'[d] = Append(detached[d], c),
             c.edit = local[d][step[d]].edit
      PROVE  RebasedFrom(d, base, n)'
  <2> HIDE DEF m
  <2>1. TakenOver(Append(detached[d], c), n, local[d], base, m + 1)
    BY <1>1, <1>3, <1>4, <1>6, TakenOverGrows
  <2>2. TakenOver(detached'[d], n, local'[d], base, step'[d] - 1 - base)
    BY <1>2, <1>3, <1>6, <2>1
  <2>3. /\ n \in 0..Len(detached'[d]) /\ \A i \in 1..n : detached'[d][i] = remote[i]
    <3>1. /\ Len(detached'[d]) = Len(detached[d]) + 1
          /\ \A i \in 1..Len(detached[d]) : detached'[d][i] = detached[d][i]
      BY <1>1, <1>6
    <3>2. \A i \in 1..n : i \in 1..Len(detached[d]) /\ detached[d][i] = remote[i]
      BY <1>3 DEF RebasedFrom
    <3> QED BY <1>3, <3>1, <3>2
  <2> QED BY <1>2, <1>3, <2>2, <2>3 DEF RebasedFrom
<1> QED BY <1>5, <1>6 DEF Replays

LEMMA RebasedStep ==
  ASSUME Ground, Rebased, [Next]_vars
  PROVE  Rebased'
<1> SUFFICES ASSUME NEW e \in Devices, InRebase(e)'
             PROVE  \E base \in 0..Len(local'[e]), n \in 0..Len(detached'[e]) :
                      RebasedFrom(e, base, n)'
  BY DEF Rebased
<1>0. /\ local[e] \in Seq(Commit) /\ detached[e] \in Seq(Commit) /\ remote \in Seq(Commit)
      /\ step[e] \in Nat
  BY HistoryTypes DEF Ground
<1>1. CASE InRebase(e) /\ local'[e] = local[e] /\ detached'[e] = detached[e] /\ step'[e] = step[e]
           /\ IsAncestor(remote, remote') /\ remote' \in Seq(Commit)
  <2>1. PICK base \in 0..Len(local[e]), n \in 0..Len(detached[e]) : RebasedFrom(e, base, n)
    BY <1>1 DEF Rebased
  <2>2. Len(remote) <= Len(remote') /\ \A i \in 1..Len(remote) : remote'[i] = remote[i]
    BY <1>1 DEF IsAncestor
  <2>3. Len(remote) \in Nat /\ Len(remote') \in Nat /\ base \in Nat /\ n \in Nat
        /\ base < Len(remote) /\ base < Len(local[e]) /\ n <= Len(remote)
    BY <1>0, <1>1, <2>1 DEF RebasedFrom
  <2>4. base \in MergeBases(local[e], remote')
    <3>1. /\ \A i \in 1..base : local[e][i] = remote[i]
          /\ local[e][base + 1] # remote[base + 1]
      BY <2>1, <2>3 DEF RebasedFrom, MergeBases
    <3>2. /\ \A i \in 1..base : local[e][i] = remote'[i]
          /\ local[e][base + 1] # remote'[base + 1]
      BY <2>2, <2>3, <3>1
    <3> QED BY <1>0, <2>2, <2>3, <3>2 DEF MergeBases
  <2>5. \A i \in 1..n : detached[e][i] = remote'[i]
    BY <2>1, <2>2, <2>3 DEF RebasedFrom
  <2>6. base < Len(remote') /\ n <= Len(remote')
    BY <2>2, <2>3
  <2>7. RebasedFrom(e, base, n)'
    <3>1. /\ base < step'[e] /\ n \in 0..Len(detached'[e])
          /\ TakenOver(detached'[e], n, local'[e], base, step'[e] - 1 - base)
      BY <1>1, <2>1 DEF RebasedFrom
    <3> QED BY <1>1, <2>3, <2>4, <2>5, <2>6, <3>1 DEF RebasedFrom
  <2> QED BY <1>1, <2>1, <2>7
<1>2. CASE UNCHANGED vars
  <2>1. /\ InRebase(e) /\ local'[e] = local[e] /\ detached'[e] = detached[e] /\ step'[e] = step[e]
        /\ remote' = remote
    BY <1>2 DEF vars, refs, rebaseVars, InRebase
  <2> QED BY <1>0, <1>1, <2>1, AncestorReflexive
<1>3. ASSUME NEW d \in Devices, DeviceStep(d), d # e
      PROVE  \E base \in 0..Len(local'[e]), n \in 0..Len(detached'[e]) : RebasedFrom(e, base, n)'
  <2>1. /\ local'[e] = local[e] /\ detached'[e] = detached[e]
        /\ step'[e] = step[e] /\ phase'[e] = phase[e]
    BY <1>3, OthersFrame DEF Ground
  <2>2. IsAncestor(remote, remote') /\ remote' \in Seq(Commit)
    <3>1. remote' = remote \/ Publishes(d)
      BY <1>3, DeviceStepShape DEF Ground, Adopts, Commits, Diverges, Replays, Completes, Stays
    <3>2. local[d] \in Seq(Commit)
      BY HistoryTypes DEF Ground
    <3> QED BY <1>0, <3>1, <3>2, AncestorReflexive DEF Publishes
  <2> QED BY <1>1, <2>1, <2>2 DEF InRebase
<1>4. CASE DeviceStep(e)
  <2>1. CASE Stays(e)
    BY <1>0, <1>1, <2>1, AncestorReflexive DEF Stays
  <2>2. CASE Replays(e)
    <3>1. PICK base \in 0..Len(local[e]), n \in 0..Len(detached[e]) : RebasedFrom(e, base, n)
      BY <2>2 DEF Rebased, Replays
    <3>2. RebasedFrom(e, base, n)'
      BY <1>0, <2>2, <3>1, OneMoreReplayed
    <3>3. local'[e] = local[e] /\ n \in 0..Len(detached'[e])
      BY <2>2, <3>2 DEF Replays, RebasedFrom
    <3> QED BY <3>1, <3>2, <3>3
  <2>3. CASE Diverges(e)
    <3>1. PICK base \in DivergedAt(e) : step'[e] = base + 1
      BY <2>3 DEF Diverges
    <3>2. /\ base \in MergeBases(local[e], remote) /\ base < Len(local[e]) /\ base < Len(remote)
          /\ base \in Nat /\ base \in 0..Len(local[e])
      BY <1>0, <3>1 DEF DivergedAt, MergeBases
    <3>3. local'[e] = local[e] /\ detached'[e] = remote /\ remote' = remote
      BY <2>3 DEF Diverges
    <3>4. /\ step'[e] - 1 - base = 0 /\ Len(remote) \in 0..Len(detached'[e])
          /\ base < step'[e]
      BY <1>0, <3>1, <3>2, <3>3
    <3>5. TakenOver(detached'[e], Len(remote), local'[e], base, step'[e] - 1 - base)
      BY <1>0, <3>2, <3>3, <3>4, NothingTakenOver
    <3>6. RebasedFrom(e, base, Len(remote))'
      BY <3>2, <3>3, <3>4, <3>5 DEF RebasedFrom
    <3> QED BY <3>2, <3>3, <3>4, <3>6
  <2> QED BY <1>4, <2>1, <2>2, <2>3, DeviceStepShape DEF Ground, Adopts, Commits, Completes, Publishes
<1> QED BY <1>2, <1>3, <1>4, NoRewritesStep DEF Ground, Next

LEMMA AlwaysRebased ==
  ASSUME MaxRewrites = 0
  PROVE  Spec => [](Ground /\ Once /\ Rebased)
<1>1. Init => Rebased
  BY DEF Init, Rebased, InRebase
<1>2. Ground /\ Rebased /\ [Next]_vars => Rebased'
  BY RebasedStep
<1> QED BY <1>1, <1>2, AlwaysOnce, PTL DEF Spec

(***************************************************************************)
(* What the steps do to a queue.                                           *)
(***************************************************************************)
LEMMA EditType ==
  ASSUME NEW h \in Seq(Commit), NEW i \in 1..Len(h)
  PROVE  h[i].edit \in Nat
<1>1. h[i] \in Commit
  OBVIOUS
<1> QED BY <1>1 DEF Commit

LEMMA EditsAfterType ==
  ASSUME NEW h \in Seq(Commit), NEW k \in 0..Len(h)
  PROVE  /\ EditsAfter(h, k) \in Seq(Nat) /\ Len(EditsAfter(h, k)) = Len(h) - k
         /\ \A i \in 1..(Len(h) - k) : EditsAfter(h, k)[i] = h[k + i].edit
<1>1. Len(h) - k \in Nat
  OBVIOUS
<1>2. \A i \in 1..(Len(h) - k) : k + i \in 1..Len(h)
  OBVIOUS
<1>3. \A i \in 1..(Len(h) - k) : h[k + i].edit \in Nat
  BY <1>2, EditType
<1> QED BY <1>1, <1>3 DEF EditsAfter

\* What is on the server is not queued.
LEMMA NothingQueued ==
  ASSUME NEW h \in Seq(Commit), NEW s \in Seq(Commit), IsAncestor(h, s)
  PROVE  QueueOf(h, s) = <<>>
<1>1. Len(h) \in MergeBases(h, s)
  BY DEF IsAncestor, MergeBases
<1>2. Len(EditsAfter(h, Len(h))) = 0 /\ EditsAfter(h, Len(h)) \in Seq(Nat)
  BY EditsAfterType
<1> QED BY <1>1, <1>2, QueueIs

\* A commit that is not on the server joins the end of the queue.
LEMMA OneMoreQueued ==
  ASSUME NEW h \in Seq(Commit), NEW s \in Seq(Commit), NEW c \in Commit,
         \A j \in 1..Len(s) : s[j] # c
  PROVE  QueueOf(Append(h, c), s) = Append(QueueOf(h, s), c.edit)
<1> DEFINE g == Append(h, c)
<1>1. PICK k \in MergeBases(h, s) : TRUE
  BY OneMergeBase
<1>2. /\ g \in Seq(Commit) /\ Len(g) = Len(h) + 1 /\ g[Len(h) + 1] = c
      /\ \A i \in 1..Len(h) : g[i] = h[i]
  OBVIOUS
<1>3. /\ k \in 0..Len(h) /\ k \in Nat /\ k <= Len(s) /\ Len(s) \in Nat /\ Len(h) \in Nat
      /\ \A i \in 1..k : h[i] = s[i]
      /\ k < Len(h) /\ k < Len(s) => h[k + 1] # s[k + 1]
  BY <1>1 DEF MergeBases
<1> HIDE DEF g
<1>4. k \in MergeBases(g, s)
  <2>1. k \in 0..Len(g) /\ k <= Len(s) /\ \A i \in 1..k : g[i] = s[i]
    BY <1>2, <1>3
  <2>2. k < Len(s) => g[k + 1] # s[k + 1]
    BY <1>2, <1>3
  <2> QED BY <2>1, <2>2 DEF MergeBases
<1>5. EditsAfter(g, k) = Append(EditsAfter(h, k), c.edit)
  <2> DEFINE a == EditsAfter(g, k)
             b == EditsAfter(h, k)
  <2>1. a \in Seq(Nat) /\ Len(a) = Len(h) + 1 - k
        /\ \A i \in 1..(Len(h) + 1 - k) : a[i] = g[k + i].edit
    <3>1. k \in 0..Len(g)
      BY <1>2, <1>3
    <3> HIDE DEF a
    <3>2. a \in Seq(Nat) /\ Len(a) = Len(g) - k
          /\ \A i \in 1..(Len(g) - k) : a[i] = g[k + i].edit
      BY <1>2, <3>1, EditsAfterType DEF a
    <3>3. Len(g) - k = Len(h) + 1 - k
      BY <1>2, <1>3
    <3> QED BY <3>2, <3>3
  <2>2. b \in Seq(Nat) /\ Len(b) = Len(h) - k
        /\ \A i \in 1..(Len(h) - k) : b[i] = h[k + i].edit
    BY <1>3, EditsAfterType
  <2>3. c.edit \in Nat
    BY DEF Commit
  <2> HIDE DEF a, b
  <2>4. /\ Append(b, c.edit) \in Seq(Nat) /\ Len(Append(b, c.edit)) = Len(a)
    BY <1>3, <2>1, <2>2, <2>3
  <2>5. ASSUME NEW i \in 1..Len(a)
        PROVE  a[i] = Append(b, c.edit)[i]
    <3>1. CASE i <= Len(h) - k
      <4>1. i \in 1..(Len(h) - k) /\ k + i \in 1..Len(h)
        BY <1>3, <2>1, <3>1
      <4>2. Append(b, c.edit)[i] = b[i]
        BY <2>2, <2>3, <4>1
      <4> QED BY <1>2, <2>1, <2>2, <4>1, <4>2
    <3>2. CASE ~(i <= Len(h) - k)
      <4>1. k + i = Len(h) + 1 /\ i = Len(b) + 1
        BY <1>3, <2>1, <2>2, <3>2
      <4>2. Append(b, c.edit)[i] = c.edit
        BY <2>2, <2>3, <4>1
      <4>3. a[i] = g[k + i].edit
        BY <2>1
      <4> QED BY <1>2, <4>1, <4>2, <4>3
    <3> QED BY <3>1, <3>2
  <2>6. a = Append(b, c.edit)
    BY <2>1, <2>4, <2>5, SeqEqual
  <2> QED BY <2>6 DEF a, b
<1>6. QueueOf(g, s) = EditsAfter(g, k) /\ QueueOf(h, s) = EditsAfter(h, k)
  BY <1>1, <1>2, <1>4, QueueIs
<1> QED BY <1>5, <1>6 DEF g

\* A branch that extends the server's history is that history and the queue.
LEMMA QueueExtends ==
  ASSUME NEW h \in Seq(Commit), NEW s \in Seq(Commit), IsAncestor(s, h)
  PROVE  EditsOf(h) = EditsOf(s) \o QueueOf(h, s)
<1>1. /\ Len(s) \in MergeBases(h, s) /\ Len(s) \in 0..Len(h)
      /\ Len(s) \in Nat /\ Len(h) \in Nat /\ \A i \in 1..Len(s) : s[i] = h[i]
  BY DEF IsAncestor, MergeBases
<1>2. \A i \in 1..Len(h) : h[i].edit \in Nat
  BY EditType
<1>3. \A i \in 1..Len(s) : s[i].edit \in Nat
  BY EditType
<1> DEFINE a == EditsOf(h)
           b == EditsOf(s)
           q == EditsAfter(h, Len(s))
<1>4. a \in Seq(Nat) /\ Len(a) = Len(h) /\ \A i \in 1..Len(h) : a[i] = h[i].edit
  BY <1>1, <1>2 DEF EditsOf
<1>5. b \in Seq(Nat) /\ Len(b) = Len(s) /\ \A i \in 1..Len(s) : b[i] = s[i].edit
  BY <1>1, <1>3 DEF EditsOf
<1>6. q \in Seq(Nat) /\ Len(q) = Len(h) - Len(s)
      /\ \A i \in 1..(Len(h) - Len(s)) : q[i] = h[Len(s) + i].edit
  BY <1>1, EditsAfterType
<1> HIDE DEF a, b, q
<1>7. b \o q \in Seq(Nat) /\ Len(b \o q) = Len(a)
  BY <1>1, <1>4, <1>5, <1>6
<1>8. ASSUME NEW i \in 1..Len(a)
      PROVE  a[i] = (b \o q)[i]
  <2>0. i \in 1..Len(h) /\ Len(s) \in Nat
    BY <1>1, <1>4
  <2>1. CASE i <= Len(s)
    <3>1. i \in 1..Len(b) /\ i \in 1..(Len(b) + Len(q))
      BY <1>1, <1>4, <1>5, <1>6, <2>1
    <3>2. (b \o q)[i] = b[i]
      BY <1>5, <1>6, <3>1, ConcatProperties
    <3> QED BY <1>1, <1>4, <1>5, <3>1, <3>2
  <2>2. CASE ~(i <= Len(s))
    <3>1. i - Len(s) \in 1..(Len(h) - Len(s)) /\ Len(s) + (i - Len(s)) = i
      BY <1>1, <1>4, <2>2
    <3>2. (b \o q)[i] = q[i - Len(s)]
      <4>1. i \in (Len(b) + 1)..(Len(b) + Len(q))
        BY <1>1, <1>4, <1>5, <1>6, <2>2
      <4>2. (b \o q)[i] = q[i - Len(b)]
        BY <1>5, <1>6, <4>1, ConcatProperties
      <4> QED BY <1>5, <4>2
    <3> QED BY <1>4, <1>6, <3>1, <3>2
  <2> QED BY <2>0, <2>1, <2>2
<1>9. a = b \o q
  BY <1>4, <1>7, <1>8, SeqEqual
<1> QED BY <1>1, <1>9, QueueIs DEF a, b, q

\* What another device publishes takes nothing off a device's queue, and adds
\* nothing to it.
LEMMA OtherQueueStays ==
  ASSUME NEW h \in Seq(Commit), NEW s \in Seq(Commit), NEW t \in Seq(Commit), NEW e,
         IsAncestor(s, t), OwnOrOn(s, h, e),
         \A j \in (Len(s) + 1)..Len(t) : t[j].author # e
  PROVE  QueueOf(h, t) = QueueOf(h, s)
<1>1. PICK k \in MergeBases(h, s) : TRUE
  BY OneMergeBase
<1>2. /\ k \in 0..Len(h) /\ k \in Nat /\ k <= Len(s)
      /\ Len(s) \in Nat /\ Len(h) \in Nat /\ Len(t) \in Nat
      /\ \A i \in 1..k : h[i] = s[i]
      /\ k < Len(h) /\ k < Len(s) => h[k + 1] # s[k + 1]
  BY <1>1 DEF MergeBases
<1>3. Len(s) <= Len(t) /\ \A i \in 1..Len(s) : t[i] = s[i]
  BY DEF IsAncestor
<1>4. k < Len(h) /\ k < Len(t) => h[k + 1] # t[k + 1]
  <2>1. CASE k < Len(s)
    BY <1>2, <1>3, <2>1
  <2>2. CASE k = Len(s)
    <3> SUFFICES ASSUME k < Len(h), k < Len(t)
                 PROVE  h[k + 1] # t[k + 1]
      OBVIOUS
    <3>1. k + 1 \in 1..Len(h) /\ k + 1 \in (Len(s) + 1)..Len(t) /\ ~(k + 1 <= Len(s))
      BY <1>2, <2>2
    <3>2. h[k + 1].author = e
      BY <3>1 DEF OwnOrOn
    <3> QED BY <3>1, <3>2
  <2> QED BY <1>2, <2>1, <2>2
<1>5. k \in MergeBases(h, t)
  BY <1>2, <1>3, <1>4 DEF MergeBases
<1> QED BY <1>1, <1>5, QueueIs

\* The rebased branch queues what is left of the old one's queue.
LEMMA RebasedQueue ==
  ASSUME Ground, Once, Rebased, NEW d \in Devices, InRebase(d)
  PROVE  Log!LeftOf(QueueOf(detached[d], remote), QueueOf(local[d], remote))
<1>1. /\ local[d] \in Seq(Commit) /\ detached[d] \in Seq(Commit) /\ remote \in Seq(Commit)
      /\ step[d] \in Nat
  BY HistoryTypes DEF Ground
<1>2. PICK base \in 0..Len(local[d]), n \in 0..Len(detached[d]) : RebasedFrom(d, base, n)
  BY DEF Rebased
<1>3. step[d] <= Len(local[d]) + 1
  BY DEF Ground, TypeOK, CallState
<1> DEFINE len == Len(detached[d]) - n
           m == step[d] - 1 - base
<1>4. PICK f \in [1..len -> 1..m] :
        /\ \A i, j \in 1..len : i < j => f[i] < f[j]
        /\ \A i \in 1..len : detached[d][n + i].edit = local[d][base + f[i]].edit
  BY <1>2 DEF RebasedFrom, TakenOver
<1>5. /\ len \in Nat /\ base \in Nat /\ n \in Nat /\ Len(local[d]) \in Nat
      /\ Len(detached[d]) \in Nat /\ Len(remote) \in Nat /\ m \in Nat
      /\ base < Len(local[d]) /\ base < Len(remote) /\ m <= Len(local[d]) - base
      /\ base \in MergeBases(local[d], remote)
      /\ n <= Len(remote) /\ \A i \in 1..n : detached[d][i] = remote[i]
  BY <1>1, <1>2, <1>3 DEF RebasedFrom
<1>6. n < Len(detached[d]) /\ n < Len(remote) => detached[d][n + 1] # remote[n + 1]
  <2> SUFFICES ASSUME n < Len(detached[d]), n < Len(remote), detached[d][n + 1] = remote[n + 1]
               PROVE  FALSE
    OBVIOUS
  <2>1. 1 \in 1..len /\ n + 1 \in 1..Len(remote)
    BY <1>5
  <2> DEFINE i == base + f[1]
  <2>2. i \in 1..Len(local[d]) /\ base + 1 \in 1..i
    <3>1. f[1] \in 1..m
      BY <2>1
    <3> DEFINE f1 == f[1]
    <3>2. f1 \in 1..m
      BY <3>1
    <3> HIDE DEF f1, m
    <3>3. base + f1 \in 1..Len(local[d]) /\ base + 1 \in 1..(base + f1)
      BY <1>5, <3>2
    <3> QED BY <3>3 DEF f1
  <2>3. local[d][i].edit = remote[n + 1].edit
    BY <1>4, <2>1
  <2> HIDE DEF i
  <2>4. local[d][base + 1] = remote[base + 1]
    BY <2>1, <2>2, <2>3 DEF Once, OnceOf, OnServer
  <2> QED BY <1>5, <2>4 DEF MergeBases
<1>7. n \in MergeBases(detached[d], remote)
  BY <1>2, <1>5, <1>6 DEF MergeBases
<1> DEFINE q == EditsAfter(local[d], base)
           r == EditsAfter(detached[d], n)
<1>8. QueueOf(local[d], remote) = q /\ QueueOf(detached[d], remote) = r
  BY <1>1, <1>5, <1>7, QueueIs
<1>9. /\ q \in Seq(Nat) /\ Len(q) = Len(local[d]) - base
      /\ \A i \in 1..(Len(local[d]) - base) : q[i] = local[d][base + i].edit
  BY <1>1, <1>2, EditsAfterType
<1>10. /\ r \in Seq(Nat) /\ Len(r) = len
       /\ \A i \in 1..len : r[i] = detached[d][n + i].edit
  BY <1>1, <1>2, EditsAfterType
<1> HIDE DEF len, m, q, r
<1>11. r = [i \in 1..len |-> r[i]]
  BY <1>10
<1>12. /\ f \in [1..len -> 1..Len(q)]
       /\ \A i \in 1..len : f[i] \in 1..(Len(local[d]) - base)
  <2>1. 1..m \subseteq 1..Len(q) /\ Len(q) = Len(local[d]) - base
    BY <1>5, <1>9
  <2> QED BY <1>4, <2>1
<1>13. \A i \in 1..len : r[i] = q[f[i]]
  BY <1>4, <1>9, <1>10, <1>12
<1>14. r = [i \in 1..Len(r) |-> q[f[i]]]
  BY <1>10, <1>11, <1>13
<1>15. Log!LeftOf(r, q)
  BY <1>4, <1>10, <1>12, <1>14 DEF Log!LeftOf
<1> QED BY <1>8, <1>15

LEMMA QueueTypes ==
  ASSUME TypeOK, NEW e \in Devices
  PROVE  /\ Unpublished(e) \in Seq(Nat)
         /\ \A i \in 1..Len(Unpublished(e)) :
              \E j \in 1..Len(local[e]) : Unpublished(e)[i] = local[e][j].edit
<1>1. local[e] \in Seq(Commit) /\ remote \in Seq(Commit)
  BY HistoryTypes
<1>2. PICK k \in MergeBases(local[e], remote) : TRUE
  BY <1>1, OneMergeBase
<1>3. Unpublished(e) = EditsAfter(local[e], k) /\ k \in 0..Len(local[e])
  BY <1>1, <1>2, QueueIs DEF Unpublished
<1> DEFINE q == EditsAfter(local[e], k)
<1>4. /\ q \in Seq(Nat) /\ Len(q) = Len(local[e]) - k
      /\ \A i \in 1..(Len(local[e]) - k) : q[i] = local[e][k + i].edit
  BY <1>1, <1>3, EditsAfterType
<1> HIDE DEF q
<1>5. ASSUME NEW i \in 1..Len(q)
      PROVE  k + i \in 1..Len(local[e]) /\ q[i] = local[e][k + i].edit
  <2>1. Len(local[e]) \in Nat /\ i \in 1..(Len(local[e]) - k)
    BY <1>1, <1>4
  <2>2. q[i] = local[e][k + i].edit
    BY <1>4, <2>1
  <2>3. k + i \in 1..Len(local[e])
    BY <1>3, <2>1
  <2> QED BY <2>2, <2>3
<1> QED BY <1>3, <1>4, <1>5 DEF q

(***************************************************************************)
(* The steps of the log.                                                   *)
(***************************************************************************)
\* Nothing the log sees changes.
LEMMA LogStutters ==
  ASSUME remote' = remote, \A e \in Devices : Unpublished(e)' = Unpublished(e)
  PROVE  UNCHANGED Log!logVars
<1>1. [e \in Devices |-> Unpublished(e)]' = [e \in Devices |-> Unpublished(e)]
  OBVIOUS
<1> QED BY <1>1 DEF Log!logVars, EditsOf

LEMMA LogWithdraws ==
  ASSUME remote' = remote, NEW d \in Devices,
         \A e \in Devices \ {d} : Unpublished(e)' = Unpublished(e),
         Log!LeftOf(Unpublished(d)', Unpublished(d))
  PROVE  Log!Next
<1> DEFINE Q == [e \in Devices |-> Unpublished(e)]
<1>1. Q' = [Q EXCEPT ![d] = Q'[d]]
  OBVIOUS
<1>2. Q[d] = Unpublished(d) /\ Q'[d] = Unpublished(d)'
  OBVIOUS
<1>3. EditsOf(remote)' = EditsOf(remote)
  BY DEF EditsOf
<1>4. Log!Withdraw(d)
  BY <1>1, <1>2, <1>3 DEF Log!Withdraw
<1> QED BY <1>4 DEF Log!Next

\* An edit nobody has made: it is in no log and no queue.
LEMMA FreshEdit ==
  ASSUME Ground, Attributed
  PROVE  made + 1 \in Nat \ Log!Known
<1> DEFINE Q == [e \in Devices |-> Unpublished(e)]
<1>1. made \in Nat /\ remote \in Seq(Commit)
      /\ \A e \in Devices : local[e] \in Seq(Commit)
  BY HistoryTypes DEF Ground
<1>2. \A i \in 1..Len(remote) : remote[i].edit \in Nat /\ remote[i].edit <= made
  <2> TAKE i \in 1..Len(remote)
  <2>1. remote[i] \in Commit /\ Exists(remote[i])
    BY <1>1 DEF Exists, On
  <2> QED BY <1>1, <2>1, EditType DEF Attributed
<1>3. \A e \in Devices : \A i \in 1..Len(local[e]) :
        local[e][i].edit \in Nat /\ local[e][i].edit <= made
  <2> TAKE e \in Devices
  <2> TAKE i \in 1..Len(local[e])
  <2>1. local[e][i] \in Commit /\ Exists(local[e][i])
    BY <1>1 DEF Exists, On
  <2> QED BY <1>1, <2>1, EditType DEF Attributed
<1>4. made + 1 \notin Log!Elements(EditsOf(remote))
  BY <1>1, <1>2 DEF Log!Elements, EditsOf
<1>5. ASSUME NEW e \in Devices
      PROVE  made + 1 \notin Log!Elements(Q[e])
  <2>1. \A i \in DOMAIN Unpublished(e) :
          \E j \in 1..Len(local[e]) : Unpublished(e)[i] = local[e][j].edit
    BY QueueTypes DEF Ground
  <2>2. \A i \in DOMAIN Unpublished(e) : Unpublished(e)[i] # made + 1
    BY <1>1, <1>3, <2>1
  <2>3. Q[e] = Unpublished(e)
    OBVIOUS
  <2> QED BY <2>2, <2>3 DEF Log!Elements
<1> HIDE DEF Q
<1>6. made + 1 \notin UNION {Log!Elements(Q[e]) : e \in Devices}
  BY <1>5
<1> QED BY <1>1, <1>4, <1>6 DEF Log!Known, Q

LEMMA LogEnqueues ==
  ASSUME Ground, Attributed, remote' = remote, NEW d \in Devices,
         \A e \in Devices \ {d} : Unpublished(e)' = Unpublished(e),
         Unpublished(d)' = Append(Unpublished(d), made + 1)
  PROVE  Log!Next
<1> DEFINE Q == [e \in Devices |-> Unpublished(e)]
<1>1. Q[d] = Unpublished(d) /\ Q'[d] = Unpublished(d)'
  OBVIOUS
<1>2. made + 1 \in Nat \ Log!Known
  BY FreshEdit
<1>3. Unpublished(d) \in Seq(Nat)
  BY QueueTypes DEF Ground
<1>4. /\ Len(Q'[d]) = Len(Q[d]) + 1
      /\ Q'[d][Len(Q'[d])] = made + 1
  <2>1. made + 1 \in Nat
    BY <1>2
  <2>2. /\ Len(Append(Unpublished(d), made + 1)) = Len(Unpublished(d)) + 1
        /\ Append(Unpublished(d), made + 1)[Len(Unpublished(d)) + 1] = made + 1
    BY <1>3, <2>1
  <2> HIDE DEF Q
  <2> QED BY <1>1, <2>2
<1>5. Q' = [Q EXCEPT ![d] = Append(Q[d], made + 1)]
  OBVIOUS
<1>6. EditsOf(remote)' = EditsOf(remote)
  BY DEF EditsOf
<1>7. Log!Enqueue(d)
  <2>1. Q' = [Q EXCEPT ![d] = Append(Q[d], Q'[d][Len(Q'[d])])]
    BY <1>4, <1>5
  <2>2. Q'[d][Len(Q'[d])] \in Nat \ Log!Known
    BY <1>2, <1>4
  <2> QED BY <1>4, <1>6, <2>1, <2>2 DEF Log!Enqueue
<1> QED BY <1>7 DEF Log!Next

LEMMA LogPublishes ==
  ASSUME NEW d \in Devices,
         EditsOf(remote') = EditsOf(remote) \o Unpublished(d),
         \A e \in Devices \ {d} : Unpublished(e)' = Unpublished(e),
         Unpublished(d)' = <<>>
  PROVE  Log!Next
<1> DEFINE Q == [e \in Devices |-> Unpublished(e)]
<1>1. Q[d] = Unpublished(d)
  OBVIOUS
<1>2. Q' = [Q EXCEPT ![d] = <<>>]
  OBVIOUS
<1>3. Log!Publish(d)
  BY <1>1, <1>2 DEF Log!Publish, EditsOf
<1> QED BY <1>3 DEF Log!Next

LEMMA StepImplementsLog ==
  ASSUME Ground, Once, Rebased, [Next]_vars
  PROVE  [Log!Next]_(Log!logVars)
<1>0. /\ remote \in Seq(Commit) /\ made \in Nat
      /\ \A e \in Devices : local[e] \in Seq(Commit) /\ detached[e] \in Seq(Commit)
  BY HistoryTypes DEF Ground
<1>1. CASE UNCHANGED vars
  <2>1. remote' = remote /\ local' = local
    BY <1>1 DEF vars, refs
  <2> QED BY <2>1, LogStutters DEF Unpublished
<1>2. ASSUME NEW d \in Devices, DeviceStep(d)
      PROVE  [Log!Next]_(Log!logVars)
  <2>1. \A e \in Devices \ {d} : local'[e] = local[e]
    BY <1>2, OthersFrame DEF Ground
  <2>2. remote' = remote => \A e \in Devices \ {d} : Unpublished(e)' = Unpublished(e)
    BY <2>1 DEF Unpublished
  <2>3. CASE Stays(d) \/ Diverges(d) \/ Replays(d)
    <3>1. remote' = remote /\ local'[d] = local[d]
      BY <2>3 DEF Stays, Diverges, Replays
    <3>2. Unpublished(d)' = Unpublished(d)
      BY <3>1 DEF Unpublished
    <3> QED BY <2>2, <3>1, <3>2, LogStutters
  <2>4. CASE Adopts(d)
    <3>1. remote' = remote /\ local'[d] = remote /\ IsAncestor(local[d], remote)
      BY <2>4 DEF Adopts
    <3>2. QueueOf(local[d], remote) = <<>> /\ QueueOf(remote, remote) = <<>>
      BY <1>0, <3>1, NothingQueued, AncestorReflexive
    <3>3. Unpublished(d)' = Unpublished(d)
      BY <3>1, <3>2 DEF Unpublished
    <3> QED BY <2>2, <3>1, <3>3, LogStutters
  <2>5. CASE Commits(d)
    <3>1. PICK c \in Commit :
            /\ c.edit = made + 1
            /\ \/ local'[d] = Append(local[d], c) /\ detached'[d] = detached[d]
               \/ detached'[d] = Append(detached[d], c) /\ local'[d] = local[d]
      BY <2>5 DEF Commits
    <3>2. remote' = remote
      BY <2>5 DEF Commits
    <3>3. CASE local'[d] = local[d]
      <4>1. Unpublished(d)' = Unpublished(d)
        BY <3>2, <3>3 DEF Unpublished
      <4> QED BY <2>2, <3>2, <4>1, LogStutters
    <3>4. CASE local'[d] = Append(local[d], c)
      <4>1. \A j \in 1..Len(remote) : remote[j] # c
        <5> SUFFICES ASSUME NEW j \in 1..Len(remote), remote[j] = c
                     PROVE  FALSE
          OBVIOUS
        <5>1. Exists(c)
          BY DEF Exists, On
        <5> QED BY <1>0, <3>1, <5>1 DEF Once, Attributed
      <4>2. QueueOf(Append(local[d], c), remote) = Append(QueueOf(local[d], remote), made + 1)
        BY <1>0, <3>1, <4>1, OneMoreQueued
      <4>3. Unpublished(d)' = Append(Unpublished(d), made + 1)
        BY <3>2, <3>4, <4>2 DEF Unpublished
      <4> QED BY <2>2, <3>2, <4>3, LogEnqueues DEF Once
    <3> QED BY <3>1, <3>3, <3>4
  <2>6. CASE Completes(d)
    <3>1. remote' = remote /\ local'[d] = detached[d] /\ InRebase(d)
      BY <2>6 DEF Completes
    <3>2. Log!LeftOf(Unpublished(d)', Unpublished(d))
      BY <3>1, RebasedQueue DEF Unpublished
    <3> QED BY <2>2, <3>1, <3>2, LogWithdraws
  <2>7. CASE Publishes(d)
    <3>1. remote' = local[d] /\ local'[d] = local[d] /\ IsAncestor(remote, local[d])
      BY <2>7 DEF Publishes
    <3>2. EditsOf(remote') = EditsOf(remote) \o Unpublished(d)
      BY <1>0, <3>1, QueueExtends DEF Unpublished
    <3>3. QueueOf(local[d], local[d]) = <<>>
      BY <1>0, NothingQueued, AncestorReflexive
    <3>4. Unpublished(d)' = <<>>
      BY <3>1, <3>3 DEF Unpublished
    <3>5. ASSUME NEW e \in Devices \ {d}
          PROVE  Unpublished(e)' = Unpublished(e)
      <4>1. OwnOrOn(remote, local[e], e)
        BY DEF Ground, OwnWork, OwnWorkOf
      <4>2. \A j \in (Len(remote) + 1)..Len(local[d]) : local[d][j].author # e
        <5> SUFFICES ASSUME NEW j \in (Len(remote) + 1)..Len(local[d]), local[d][j].author = e
                     PROVE  FALSE
          OBVIOUS
        <5>1. j \in 1..Len(local[d]) /\ ~(j <= Len(remote))
          BY <1>0
        <5>2. OwnOrOn(remote, local[d], d)
          BY DEF Ground, OwnWork, OwnWorkOf
        <5> QED BY <5>1, <5>2 DEF OwnOrOn
      <4>3. QueueOf(local[e], local[d]) = QueueOf(local[e], remote)
        BY <1>0, <3>1, <4>1, <4>2, OtherQueueStays
      <4> QED BY <2>1, <3>1, <4>3 DEF Unpublished
    <3> QED BY <3>2, <3>4, <3>5, LogPublishes
  <2> QED BY <1>2, <2>3, <2>4, <2>5, <2>6, <2>7, DeviceStepShape DEF Ground
<1> QED BY <1>1, <1>2, NoRewritesStep DEF Ground, Next

\* The engine implements the shared log: devices, whatever they do and however
\* their calls end, only append fresh edits to their own queues, publish a whole
\* queue at the end of the log, or lose edits of a queue in a rebase.  Nothing
\* else ever happens to what is published or queued.
THEOREM EngineImplementsLog ==
  ASSUME MaxRewrites = 0
  PROVE  Spec => ImplementsLog
<1>1. Init => Log!Init
  <2> SUFFICES ASSUME Init
               PROVE  Log!Init
    OBVIOUS
  <2>1. EditsOf(remote) = <<>>
    BY DEF Init, EditsOf
  <2>2. \A e \in Devices : QueueOf(<<>>, <<>>) = <<>> /\ local[e] = <<>> /\ remote = <<>>
    <3>1. <<>> \in Seq(Commit) /\ IsAncestor(<<>>, <<>>)
      BY DEF IsAncestor
    <3>2. QueueOf(<<>>, <<>>) = <<>>
      BY <3>1, NothingQueued
    <3> QED BY <3>2 DEF Init
  <2>3. [e \in Devices |-> Unpublished(e)] = [e \in Devices |-> <<>>]
    BY <2>2 DEF Unpublished
  <2> QED BY <2>1, <2>3 DEF Log!Init
<1>2. Ground /\ Once /\ Rebased /\ [Next]_vars => [Log!Next]_(Log!logVars)
  BY StepImplementsLog
<1> QED BY <1>1, <1>2, AlwaysRebased, PTL DEF Spec, ImplementsLog, Log!Spec
=============================================================================

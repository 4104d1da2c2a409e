------------------------------- MODULE GitSync -------------------------------
(***************************************************************************)
(* Devices that share one server branch through the git engine             *)
(* (crates/pass-core/src/git.rs behind the FFI object GitSync).  Each      *)
(* device has a store checked out on refs/heads/main; it commits saves     *)
(* locally, syncs by fetch + rebase, and pushes.  The server accepts a     *)
(* reference update only as a compare-and-swap.                            *)
(*                                                                         *)
(* A call that changes nothing is not an action: sync refused with         *)
(* DirtyWorkdir, sync on an unborn branch (head_branch fails), sync or     *)
(* push with a detached HEAD (the tracking reference of branch "HEAD" has  *)
(* no target, so sync answers UpToDate; push finds no refs/heads/HEAD),    *)
(* a fetch that fails, and push answered NonFastForward.  Their conditions *)
(* are the negated guards of the actions below.                            *)
(***************************************************************************)
EXTENDS GitTree

CONSTANTS Devices,
          Operations,   \* which of the store's editing operations are used
          MaxCommits,   \* bound: commits ever made
          MaxCrashes,   \* bound: app kills in the middle of a rebase
          MaxFaults,    \* bound: pushes lost or declined
          MaxRewrites   \* bound: force-pushes by somebody else

AllOperations == {"init", "save", "remove", "move", "copy", "reencrypt"}

ASSUME SyncAssumption ==
  /\ MaxCommits \in Nat /\ MaxCrashes \in Nat
  /\ MaxFaults \in Nat /\ MaxRewrites \in Nat
  /\ Operations \subseteq AllOperations
  \* A pass-format move or copy keeps the ciphertext; libgit2 would then
  \* pair the two names as a rename, which MergedTree does not.
  /\ Operations \cap {"move", "copy"} # {} => Format = "passage"

Nobody == "nobody"   \* author of commits made outside the modelled devices
ASSUME NobodyAssumption == Nobody \notin Devices

VARIABLES
  remote,     \* history of the server's branch; <<>> while it has none
  local,      \* refs/heads/main of each device; <<>> while unborn
  tracking,   \* refs/remotes/origin/main of each device; <<>> when absent
  detached,   \* history at a detached HEAD; <<>> while HEAD is the branch
  step,       \* during a rebase: index in local of the commit to replay
  unmerged,   \* conflicted paths of the index
  staged,     \* the tree the index holds while it has conflicts
  answers,    \* the resolver's answers for the commit being replayed
  resolved,   \* paths the resolver was asked about during this sync, which
              \* SyncOutcome::ResolvedConflicts reports
  yielded,    \* history variable: blobs an answer gave up during this sync
  phase,      \* what the device is doing
  advertised, \* the server history a push in flight was checked against
  made,       \* commits ever made: the source of fresh identities
  budget      \* crashes, faults and rewrites left

refs == <<local, tracking>>
rebaseVars == <<detached, step, unmerged, staged, answers, resolved, yielded>>
counters == <<made, budget>>
vars == <<remote, refs, rebaseVars, phase, advertised, counters>>

\* "absent": no store yet.  "replaying" to "applying" are inside rebase_onto.
Phases == {"absent", "idle", "replaying", "asking", "applying", "sending"}
NoAnswers == [p \in {} |-> "KeepLocal"]
Answers == UNION {[S -> ConflictChoice] : S \in SUBSET Paths}

Commit == [edit : Nat, author : Devices \cup {Nobody}, tree : Trees]
NewBlob(p) == <<made + 1, p>>
NewCommit(a, t) == [edit |-> made + 1, author |-> a, tree |-> t]

Init ==
  /\ remote = <<>>
  /\ local = [d \in Devices |-> <<>>]
  /\ tracking = [d \in Devices |-> <<>>]
  /\ detached = [d \in Devices |-> <<>>]
  /\ step = [d \in Devices |-> 0]
  /\ unmerged = [d \in Devices |-> {}]
  /\ staged = [d \in Devices |-> EmptyTree]
  /\ answers = [d \in Devices |-> NoAnswers]
  /\ resolved = [d \in Devices |-> {}]
  /\ yielded = [d \in Devices |-> {}]
  /\ phase = [d \in Devices |-> "absent"]
  /\ advertised = [d \in Devices |-> <<>>]
  /\ made = 0
  /\ budget = [crashes |-> MaxCrashes, faults |-> MaxFaults,
               rewrites |-> MaxRewrites]

-----------------------------------------------------------------------------
(***************************************************************************)
(* Setting up a store.                                                     *)
(***************************************************************************)

\* GitStore::init: the current contents are committed.  (The .gitattributes
\* commit that follows is the same on every device and is left out.)
InitStore(d) ==
  /\ phase[d] = "absent"
  /\ "init" \in Operations
  /\ made < MaxCommits
  /\ \E S \in {{}} \cup {{<<n, 0>>} : n \in Names} :
       local' = [local EXCEPT ![d] =
                   <<NewCommit(d, [p \in Paths |->
                                     IF p \in S THEN NewBlob(p) ELSE Absent])>>]
  /\ phase' = [phase EXCEPT ![d] = "idle"]
  /\ made' = made + 1
  /\ UNCHANGED <<remote, tracking, rebaseVars, advertised, budget>>

\* clone_with_ssh.  The clone of a server without commits has an unborn main.
Clone(d) ==
  /\ phase[d] = "absent"
  /\ local' = [local EXCEPT ![d] = remote]
  /\ tracking' = [tracking EXCEPT ![d] = remote]
  /\ phase' = [phase EXCEPT ![d] = "idle"]
  /\ UNCHANGED <<remote, rebaseVars, advertised, counters>>

-----------------------------------------------------------------------------
(***************************************************************************)
(* Edits: a PassStore operation followed by commit_paths of the files it   *)
(* touched.  commit_index puts the commit on whatever HEAD is.             *)
(***************************************************************************)
HeadHistory(d) == IF detached[d] = <<>> THEN local[d] ELSE detached[d]

\* What the working tree holds: HEAD's tree, or the merge of the commit at
\* which a rebase has stopped.
Present(d) == IF unmerged[d] = {} THEN TipTree(HeadHistory(d)) ELSE staged[d]

CanEdit(d, op) ==
  /\ op \in Operations
  /\ phase[d] = "idle"
  /\ made < MaxCommits

CommitTree(d, t) ==
  /\ IF detached[d] = <<>>
     THEN /\ local' = [local EXCEPT ![d] = Append(@, NewCommit(d, t))]
          /\ UNCHANGED detached
     ELSE /\ detached' = [detached EXCEPT ![d] = Append(@, NewCommit(d, t))]
          /\ UNCHANGED local
  /\ unmerged' = [unmerged EXCEPT ![d] = {}]
  /\ staged' = [staged EXCEPT ![d] = EmptyTree]
  /\ made' = made + 1
  /\ UNCHANGED <<remote, tracking, step, answers, resolved, yielded, phase,
                 advertised, budget>>

\* write_tree refuses an index with conflicts left: nothing is committed, but
\* the files are written and staged.
StageTree(d, paths, t) ==
  /\ ~(unmerged[d] \subseteq paths)
  /\ unmerged' = [unmerged EXCEPT ![d] = @ \ paths]
  /\ staged' = [staged EXCEPT ![d] = t]
  /\ made' = made + 1
  /\ UNCHANGED <<remote, refs, detached, step, answers, resolved, yielded,
                 phase, advertised, budget>>

\* add_path and remove_path clear the conflicts of the paths they stage.
CommitPaths(d, paths, t) ==
  \/ unmerged[d] \subseteq paths /\ CommitTree(d, t)
  \/ StageTree(d, paths, t)

Save(d) ==
  /\ CanEdit(d, "save")
  /\ \E p \in Paths : CommitPaths(d, {p}, [Present(d) EXCEPT ![p] = NewBlob(p)])

Remove(d) ==
  /\ CanEdit(d, "remove")
  /\ \E p \in Paths :
       /\ Present(d)[p] # Absent
       /\ CommitPaths(d, {p}, [Present(d) EXCEPT ![p] = Absent])

\* A passage move or copy re-encrypts at the destination.
Transfer(d) ==
  \E op \in {"move", "copy"}, from, to \in Paths :
    /\ CanEdit(d, op)
    /\ from # to
    /\ Present(d)[from] # Absent
    /\ LET copied == [Present(d) EXCEPT ![to] = NewBlob(to)]
       IN  IF op = "copy" THEN CommitPaths(d, {to}, copied)
           ELSE CommitPaths(d, {from, to}, [copied EXCEPT ![from] = Absent])

\* reencrypt_subtree of the whole store.
Reencrypt(d) ==
  /\ CanEdit(d, "reencrypt")
  /\ LET t == Present(d)
     IN  /\ t # EmptyTree
         /\ CommitPaths(d, {p \in Paths : t[p] # Absent},
                        [p \in Paths |-> IF t[p] = Absent THEN Absent ELSE NewBlob(p)])

-----------------------------------------------------------------------------
(***************************************************************************)
(* sync: fetch (forced update of the tracking reference), then one of      *)
(* nothing, fast-forward, rebase.                                          *)
(***************************************************************************)
CanSync(d) ==
  /\ phase[d] = "idle"
  /\ unmerged[d] = {}
  /\ detached[d] = <<>>
  /\ local[d] # <<>>
  /\ remote # <<>>

SyncUpToDate(d) ==
  /\ CanSync(d)
  /\ IsAncestor(remote, local[d])
  /\ tracking' = [tracking EXCEPT ![d] = remote]
  /\ UNCHANGED <<remote, local, rebaseVars, phase, advertised, counters>>

SyncFastForward(d) ==
  /\ CanSync(d)
  /\ IsAncestor(local[d], remote)
  /\ local[d] # remote
  /\ tracking' = [tracking EXCEPT ![d] = remote]
  /\ local' = [local EXCEPT ![d] = remote]
  /\ UNCHANGED <<remote, rebaseVars, phase, advertised, counters>>

\* Mutant: the merge base is taken with the tracking reference as it was
\* before the fetch.
StaleBases(d) == MergeBases(local[d], tracking[d])

\* Mutant: a single local commit is not seen as ahead.
BasesBelowTwo(d) ==
  {k \in MergeBases(local[d], remote) : k + 1 < Len(local[d]) /\ k < Len(remote)}

\* Mutant: the commit both sides have is replayed too.
BaseIncluded(d) ==
  {k - 1 : k \in {b \in MergeBases(local[d], remote) :
                    0 < b /\ b < Len(local[d]) /\ b < Len(remote)}}

\* Where local and upstream part, when each has commits the other lacks.
DivergedAt(d) ==
  {k \in MergeBases(local[d], remote) : k < Len(local[d]) /\ k < Len(remote)}

\* Opening the rebase detaches HEAD at the upstream commit; the branch keeps
\* the old local history until the rebase finishes.
SyncDiverged(d) ==
  /\ CanSync(d)
  /\ ~IsAncestor(remote, local[d]) /\ ~IsAncestor(local[d], remote)
  /\ \E base \in DivergedAt(d) : step' = [step EXCEPT ![d] = base + 1]
  /\ tracking' = [tracking EXCEPT ![d] = remote]
  /\ detached' = [detached EXCEPT ![d] = remote]
  /\ phase' = [phase EXCEPT ![d] = "replaying"]
  /\ UNCHANGED <<remote, local, unmerged, staged, answers, resolved, yielded,
                 advertised, counters>>

(***************************************************************************)
(* rebase_onto, one commit at a time.                                      *)
(***************************************************************************)
AncTree(d) == TreeAt(local[d], step[d] - 1)
OurTree(d) == TipTree(detached[d])
TheirTree(d) == TreeAt(local[d], step[d])
ConflictsNow(d) == Conflicts(AncTree(d), OurTree(d), TheirTree(d))

\* rebase.commit: the commit keeps its author; one that would not change the
\* tree is skipped (ErrorCode::Applied).
Replayed(d, t) ==
  IF t = OurTree(d) THEN detached[d]
  ELSE Append(detached[d], [local[d][step[d]] EXCEPT !.tree = t])

ReplayClean(d) ==
  /\ phase[d] = "replaying"
  /\ step[d] <= Len(local[d])
  /\ ConflictsNow(d) = {}
  /\ detached' = [detached EXCEPT ![d] =
                    Replayed(d, MergedTree(AncTree(d), OurTree(d), TheirTree(d)))]
  /\ step' = [step EXCEPT ![d] = @ + 1]
  /\ UNCHANGED <<remote, refs, unmerged, staged, answers, resolved, yielded,
                 phase, advertised, counters>>

\* The resolver is called and blocks until the user has answered.
AskResolver(d) ==
  /\ phase[d] = "replaying"
  /\ step[d] <= Len(local[d])
  /\ ConflictsNow(d) # {}
  /\ unmerged' = [unmerged EXCEPT ![d] = ConflictsNow(d)]
  /\ staged' = [staged EXCEPT ![d] = MergedTree(AncTree(d), OurTree(d), TheirTree(d))]
  /\ resolved' = [resolved EXCEPT ![d] = @ \cup ConflictsNow(d)]
  /\ phase' = [phase EXCEPT ![d] = "asking"]
  /\ UNCHANGED <<remote, refs, detached, step, answers, yielded, advertised,
                 counters>>

\* MaxSuffix bounds the names, so KeepBoth is answered only below it.
Answer(d) ==
  /\ phase[d] = "asking"
  /\ \E ans \in [unmerged[d] -> ConflictChoice] :
       /\ \A p \in unmerged[d] : ans[p] = "KeepBoth" => p[2] < MaxSuffix
       /\ answers' = [answers EXCEPT ![d] = ans]
  /\ phase' = [phase EXCEPT ![d] = "applying"]
  /\ UNCHANGED <<remote, refs, detached, step, unmerged, staged, resolved,
                 yielded, advertised, counters>>

ApplyChoices(d) ==
  /\ phase[d] = "applying"
  /\ ~StagingFails(answers[d], AncTree(d), OurTree(d), TheirTree(d))
  /\ detached' = [detached EXCEPT ![d] =
                    Replayed(d, Resolved(answers[d], AncTree(d), OurTree(d),
                                         TheirTree(d)))]
  /\ step' = [step EXCEPT ![d] = @ + 1]
  /\ unmerged' = [unmerged EXCEPT ![d] = {}]
  /\ staged' = [staged EXCEPT ![d] = EmptyTree]
  /\ answers' = [answers EXCEPT ![d] = NoAnswers]
  /\ phase' = [phase EXCEPT ![d] = "replaying"]
  /\ yielded' = [yielded EXCEPT ![d] = @ \cup
                    GivenUp(answers[d], OurTree(d), TheirTree(d))]
  /\ UNCHANGED <<remote, refs, resolved, advertised, counters>>

\* Mutant: the position in the rebase survives the call.
SyncReturnsKeepingStep(d) ==
  /\ UNCHANGED step
  /\ answers' = [answers EXCEPT ![d] = NoAnswers]
  /\ resolved' = [resolved EXCEPT ![d] = {}]
  /\ yielded' = [yielded EXCEPT ![d] = {}]
  /\ phase' = [phase EXCEPT ![d] = "idle"]

\* However sync ends, what it kept in memory is gone.
SyncReturns(d) ==
  /\ step' = [step EXCEPT ![d] = 0]
  /\ answers' = [answers EXCEPT ![d] = NoAnswers]
  /\ resolved' = [resolved EXCEPT ![d] = {}]
  /\ yielded' = [yielded EXCEPT ![d] = {}]
  /\ phase' = [phase EXCEPT ![d] = "idle"]

\* add_path fails and sync returns the error without aborting the rebase:
\* HEAD stays detached and the index unmerged.
ApplyFails(d) ==
  /\ phase[d] = "applying"
  /\ StagingFails(answers[d], AncTree(d), OurTree(d), TheirTree(d))
  /\ SyncReturns(d)
  /\ UNCHANGED <<remote, refs, detached, unmerged, staged, advertised, counters>>

\* rebase.finish moves the branch to the replayed tip and reattaches HEAD.
FinishRebase(d) ==
  /\ phase[d] = "replaying"
  /\ step[d] > Len(local[d])
  /\ local' = [local EXCEPT ![d] = detached[d]]
  /\ detached' = [detached EXCEPT ![d] = <<>>]
  /\ SyncReturns(d)
  /\ UNCHANGED <<remote, tracking, unmerged, staged, advertised, counters>>

\* The process is killed, or the foreign resolver throws and the mutex is
\* poisoned.  What is on disk stays.
Crash(d) ==
  /\ phase[d] \in {"replaying", "asking", "applying"}
  /\ budget.crashes > 0
  /\ budget' = [budget EXCEPT !.crashes = @ - 1]
  /\ SyncReturns(d)
  /\ UNCHANGED <<remote, refs, detached, unmerged, staged, advertised, made>>

-----------------------------------------------------------------------------
(***************************************************************************)
(* push.  libgit2 checks the advertised server head against the local      *)
(* branch and then asks the server to swap one for the other.              *)
(***************************************************************************)

\* Mutant: the push is forced.
PushStartForced(d) ==
  /\ phase[d] = "idle" /\ detached[d] = <<>>
  /\ local[d] \notin {<<>>, remote}
  /\ advertised' = [advertised EXCEPT ![d] = remote]
  /\ phase' = [phase EXCEPT ![d] = "sending"]
  /\ UNCHANGED <<remote, refs, rebaseVars, counters>>

PushStart(d) ==
  /\ phase[d] = "idle"
  /\ detached[d] = <<>>
  /\ local[d] # <<>>
  /\ IsAncestor(remote, local[d])       \* else GitError::NonFastForward
  /\ local[d] # remote
  /\ advertised' = [advertised EXCEPT ![d] = remote]
  /\ phase' = [phase EXCEPT ![d] = "sending"]
  /\ UNCHANGED <<remote, refs, rebaseVars, counters>>

\* The server already has the branch: only the tracking reference moves.
PushNothing(d) ==
  /\ phase[d] = "idle"
  /\ detached[d] = <<>>
  /\ local[d] # <<>>
  /\ local[d] = remote
  /\ tracking' = [tracking EXCEPT ![d] = local[d]]
  /\ UNCHANGED <<remote, local, rebaseVars, phase, advertised, counters>>

\* Common to every end of a push.
PushEnds(d) ==
  /\ phase[d] = "sending"
  /\ phase' = [phase EXCEPT ![d] = "idle"]
  /\ advertised' = [advertised EXCEPT ![d] = <<>>]
  /\ UNCHANGED <<local, rebaseVars, made>>

SpendFault ==
  /\ budget.faults > 0
  /\ budget' = [budget EXCEPT !.faults = @ - 1]

\* Mutant: the update is not a compare-and-swap.
PushAcceptedAnyway(d) ==
  /\ PushEnds(d)
  /\ remote' = local[d]
  /\ tracking' = [tracking EXCEPT ![d] = local[d]]
  /\ UNCHANGED budget

PushAccepted(d) ==
  /\ PushEnds(d)
  /\ remote = advertised[d]
  /\ remote' = local[d]
  /\ tracking' = [tracking EXCEPT ![d] = local[d]]
  /\ UNCHANGED budget

\* The server turns the update down: the branch moved meanwhile, or a hook
\* declines it.  It says so per reference, which only a push_update_reference
\* callback would see; push returns Ok and moves the tracking reference.
PushRejected(d) ==
  /\ PushEnds(d)
  /\ \/ remote # advertised[d] /\ UNCHANGED budget
     \/ SpendFault
  /\ tracking' = [tracking EXCEPT ![d] = local[d]]
  /\ UNCHANGED remote

\* The connection breaks or the app is killed, before or after the server
\* has taken the update.
PushBroken(d) ==
  /\ PushEnds(d)
  /\ SpendFault
  /\ \/ UNCHANGED remote
     \/ remote = advertised[d] /\ remote' = local[d]
  /\ UNCHANGED tracking

-----------------------------------------------------------------------------
\* Somebody force-pushes with another client: a shorter history with one
\* commit of theirs on top.
Rewrite ==
  /\ budget.rewrites > 0
  /\ made < MaxCommits
  /\ \E k \in 0..(Len(remote) - 1), p \in Paths :
       remote' = Append(SubSeq(remote, 1, k),
                        NewCommit(Nobody, [TreeAt(remote, k) EXCEPT ![p] = NewBlob(p)]))
  /\ made' = made + 1
  /\ budget' = [budget EXCEPT !.rewrites = @ - 1]
  /\ UNCHANGED <<refs, rebaseVars, phase, advertised>>

Edit(d) == Save(d) \/ Remove(d) \/ Transfer(d) \/ Reencrypt(d)
Sync(d) == SyncUpToDate(d) \/ SyncFastForward(d) \/ SyncDiverged(d)
Rebase(d) ==
  \/ ReplayClean(d) \/ AskResolver(d) \/ Answer(d)
  \/ ApplyChoices(d) \/ ApplyFails(d) \/ FinishRebase(d)
PushReply(d) == PushAccepted(d) \/ PushRejected(d) \/ PushBroken(d)

DeviceStep(d) ==
  \/ InitStore(d) \/ Clone(d) \/ Edit(d)
  \/ Sync(d) \/ Rebase(d) \/ Crash(d)
  \/ PushStart(d) \/ PushNothing(d) \/ PushReply(d)

Next == (\E d \in Devices : DeviceStep(d)) \/ Rewrite

Spec == Init /\ [][Next]_vars

\* The app's loop after edits: sync, and push what is ahead.  Users answer
\* the resolver; edits, crashes and faults are never owed to anybody.
Fairness ==
  \A d \in Devices :
    /\ WF_vars(Sync(d)) /\ WF_vars(Rebase(d))
    /\ WF_vars(PushStart(d)) /\ WF_vars(PushReply(d))

FairSpec == Spec /\ Fairness

-----------------------------------------------------------------------------
(***************************************************************************)
(* Properties.                                                             *)
(***************************************************************************)
InRebase(d) == phase[d] \in {"replaying", "asking", "applying"}

\* What a sync keeps in memory agrees with the phase of the call and with
\* the repository: a commit to replay exactly while rebasing, answers for
\* exactly the conflicted paths, nothing left over once the call returned.
CallState(d) ==
  /\ InRebase(d) <=> step[d] # 0
  /\ step[d] <= Len(local[d]) + 1
  /\ DOMAIN answers[d] = IF phase[d] = "applying" THEN unmerged[d] ELSE {}
  /\ InRebase(d) \/ unmerged[d] # {} => detached[d] # <<>>
  /\ phase[d] \in {"asking", "applying"} => unmerged[d] # {} /\ step[d] <= Len(local[d])
  /\ phase[d] \notin {"idle", "asking", "applying"} => unmerged[d] = {}
  /\ unmerged[d] = {} => staged[d] = EmptyTree
  /\ phase[d] = "sending" => detached[d] = <<>> /\ local[d] # <<>>

Typed ==
  /\ remote \in Seq(Commit)
  /\ local \in [Devices -> Seq(Commit)]
  /\ tracking \in [Devices -> Seq(Commit)]
  /\ detached \in [Devices -> Seq(Commit)]
  /\ advertised \in [Devices -> Seq(Commit)]
  /\ step \in [Devices -> Nat]
  /\ unmerged \in [Devices -> SUBSET Paths]
  /\ staged \in [Devices -> Trees]
  /\ answers \in [Devices -> Answers]
  /\ resolved \in [Devices -> SUBSET Paths]
  /\ yielded \in [Devices -> SUBSET (BlobIds \cup {Absent})]
  /\ phase \in [Devices -> Phases]
  /\ made \in Nat
  /\ budget \in [crashes : Nat, faults : Nat, rewrites : Nat]

\* Every variable has its type, and no call leaves its working state behind,
\* however it ends.
TypeOK == Typed /\ \A d \in Devices : CallState(d)

PublishedUpTo(h, i) ==
  i <= Len(remote) /\ \A j \in 1..i : h[j] = remote[j]

\* A commit of somebody else on a device's branch is on the server, at the
\* same place and below the same commits.  So whatever a device has not
\* published is its own work: sync never replays, and push never publishes,
\* a commit the device only fetched.
ForeignCommitsArePublished ==
  \A d \in Devices : \A i \in 1..Len(local[d]) :
    local[d][i].author # d => PublishedUpTo(local[d], i)

\* An edit reaches the server at most once, whatever the crashes, lost
\* replies, retries and rebases on the way.
PublishedOnce ==
  \A i, j \in 1..Len(remote) : remote[i].edit = remote[j].edit => i = j

\* Nothing PassPony does removes or replaces a published commit: except where
\* somebody else force-pushes, the server's history only gets longer, also
\* after such a rewrite ("in no case does PassPony force-push").
NeverForcePushes ==
  [][IsAncestor(remote, remote') \/ budget'.rewrites < budget.rewrites]_vars

HistoryBlobs(h) == UNION {Blobs(h[i].tree) : i \in 1..Len(h)}

\* What commit i of history h changed.
ChangedPaths(h, i) == {p \in Paths : h[i].tree[p] # TreeAt(h, i - 1)[p]}

Finishes(d) ==
  phase[d] = "replaying" /\ phase'[d] = "idle" /\ local'[d] = detached[d]

\* When a rebase completes, every version an unpublished commit had written is
\* still in the branch's history, unless the user let the other side win that
\* very version.  No sequence of answers over several replayed commits makes
\* one disappear.
EveryVersionSurvives ==
  [][\A d \in Devices : Finishes(d) =>
       \A i \in 1..Len(local[d]) : \A p \in ChangedPaths(local[d], i) :
         local[d][i].tree[p] \in
           HistoryBlobs(local'[d]) \cup yielded[d] \cup {Absent}]_vars

Interrupted(d) == phase[d] = "idle" /\ detached[d] # <<>>

\* Once the edits stop, every device ends with exactly the server's history,
\* except one whose rebase was interrupted, one that has no store, and the
\* clone of an empty server that never committed anything.
Convergence ==
  <>[](\A d \in Devices :
         \/ local[d] = remote
         \/ Interrupted(d)
         \/ phase[d] = "absent"
         \/ local[d] = <<>>)

\* The device and the server as the abstract log sees them.
EditsOf(h) == [i \in 1..Len(h) |-> h[i].edit]
QueueOf(h, server) ==
  LET base == CHOOSE k \in MergeBases(h, server) : TRUE
  IN  EditsOf(SubSeq(h, base + 1, Len(h)))
Unpublished(d) == QueueOf(local[d], remote)

Log == INSTANCE RemoteLog WITH
         published <- EditsOf(remote),
         queue <- [d \in Devices |-> Unpublished(d)]

\* The engine implements the shared log: see RemoteLog.
ImplementsLog == Log!Spec

-----------------------------------------------------------------------------
(***************************************************************************)
(* Statements of the repository's documents and comments that the code     *)
(* does not keep; TLC refutes each with the configuration named for it,    *)
(* doc_*.cfg.                                                              *)
(***************************************************************************)

\* docs/conflict-ux.md, invariant 3: keeping both loses nothing.  Both sides
\* of every conflict answered KeepBoth, and every entry the commit left alone,
\* are in the tree that results.
KeepBothLosesNothing ==
  [][\A d \in Devices :
       /\ phase[d] = "applying" /\ step'[d] = step[d] + 1
       /\ \A p \in unmerged[d] : answers[d][p] = "KeepBoth"
       => LET untouched == {p \in Paths : TheirTree(d)[p] = AncTree(d)[p]}
              versions == {OurTree(d)[p] : p \in unmerged[d] \cup untouched}
                            \cup {TheirTree(d)[p] : p \in unmerged[d]}
          IN  versions \ {Absent} \subseteq Blobs(TipTree(detached'[d]))]_vars

\* git.rs, ConflictChoice: the chosen side wins the path, deletions included.
ChosenSideWins ==
  [][\A d \in Devices :
       phase[d] = "applying" /\ step'[d] = step[d] + 1 =>
         \A p \in unmerged[d] :
           TipTree(detached'[d])[p] =
             IF answers[d][p] = "KeepLocal" THEN TheirTree(d)[p]
             ELSE OurTree(d)[p]]_vars

\* docs/conflict-ux.md: a sync that does not complete leaves local state
\* exactly as it was; a partial resolution is never persisted.
PartialSyncNeverPersisted ==
  \A d \in Devices : phase[d] = "idle" => detached[d] = <<>> /\ unmerged[d] = {}

\* status().ahead on the branch, once there is a tracking reference.
Badge(d) ==
  IF phase[d] # "idle" \/ detached[d] # <<>> \/ tracking[d] = <<>> THEN {}
  ELSE {Len(local[d]) - k : k \in MergeBases(local[d], tracking[d])}

\* docs/conflict-ux.md, invariant 4: the unpushed count is never hidden.  A
\* badge of zero (nothing ahead of the tracking reference) means everything
\* on the branch has reached the server.
BadgeIsHonest ==
  \A d \in Devices :
    Badge(d) = {0} => IsAncestor(local[d], remote)
=============================================================================

------------------------------- MODULE GitTree -------------------------------
(***************************************************************************)
(* Trees, histories and the per-commit merge of the git engine             *)
(* (crates/pass-core/src/git.rs).  Everything here is a pure operator: the *)
(* state machines GitSync and Workdir apply them to their own variables.   *)
(*                                                                         *)
(* A path is an entry name together with the number of ".conflict"         *)
(* suffixes it carries, so that conflict_sibling adds one.  A blob is      *)
(* identified by the commit that wrote it and the path it was written to:  *)
(* every write encrypts afresh, so no two of them give the same            *)
(* ciphertext.  A history is the sequence of commits from the root to a    *)
(* tip (the engine never makes a merge commit).                            *)
(***************************************************************************)
EXTENDS Integers, Sequences

CONSTANTS Names,      \* store entries, without their ".conflict" suffixes
          MaxSuffix,  \* bound: ".conflict" suffixes an entry name can carry
          Format      \* "passage" (*.age) or "pass" (*.gpg)

ASSUME TreeAssumption ==
  /\ MaxSuffix \in Nat
  /\ Format \in {"passage", "pass"}

Paths == Names \X (0..MaxSuffix)
Absent == <<>>
BlobIds == Nat \X Paths
Trees == [Paths -> BlobIds \cup {Absent}]
EmptyTree == [p \in Paths |-> Absent]

(***************************************************************************)
(* Histories.  TreeAt(h, i) is the tree after the first i commits.         *)
(***************************************************************************)
TreeAt(h, i) == IF i = 0 THEN EmptyTree ELSE h[i].tree
TipTree(h) == TreeAt(h, Len(h))

IsAncestor(s, t) ==
  /\ Len(s) <= Len(t)
  /\ \A i \in 1..Len(s) : s[i] = t[i]

\* The merge bases of two linear histories, as the number of commits shared:
\* always exactly one.
MergeBases(s, t) ==
  {k \in 0..Len(s) :
     /\ k <= Len(t)
     /\ \A i \in 1..k : s[i] = t[i]
     /\ k < Len(s) /\ k < Len(t) => s[k + 1] # t[k + 1]}

(***************************************************************************)
(* One replayed commit: the three-way merge libgit2 performs, with the     *)
(* commit's own parent as ancestor, the upstream side as "ours" and the    *)
(* local commit as "theirs".  Ciphertexts are never merged by content.     *)
(***************************************************************************)
Conflicts(anc, ours, theirs) ==
  {p \in Paths : /\ ours[p] # theirs[p]
                 /\ anc[p] # ours[p]
                 /\ anc[p] # theirs[p]}

\* What the checkout of the merged index leaves in the working tree: the
\* changed side where one side changed, and in a modify/delete conflict the
\* side that still exists.
MergedTree(anc, ours, theirs) ==
  [p \in Paths |->
     IF anc[p] = ours[p] \/ (p \in Conflicts(anc, ours, theirs) /\ ours[p] = Absent)
     THEN theirs[p] ELSE ours[p]]

(***************************************************************************)
(* ConflictChoice and what rebase_onto writes for each answer.  An answer  *)
(* set is a function from the conflicted paths to choices.                 *)
(***************************************************************************)
ConflictChoice == {"KeepLocal", "KeepRemote", "KeepBoth"}

Sibling(p) == <<p[1], p[2] + 1>>

\* The path whose KeepBoth answer writes to q, if any.
SetAside(ans, q) ==
  {p \in DOMAIN ans : ans[p] = "KeepBoth" /\ Sibling(p) = q}

\* write_blob_to_workdir of a missing blob does nothing: the file keeps the
\* content it had.
WriteBlob(blob, content) == IF blob = Absent THEN content ELSE blob

OwnAnswer(ans, ours, theirs, q, content) ==
  IF q \notin DOMAIN ans THEN content
  ELSE WriteBlob(IF ans[q] = "KeepLocal" THEN theirs[q] ELSE ours[q], content)

\* Mutant: the local version is never written beside the remote one.
SiblingNotWritten(ans, theirs, q, content) == content

SiblingCopy(ans, theirs, q, content) ==
  IF SetAside(ans, q) = {} THEN content
  ELSE WriteBlob(theirs[CHOOSE p \in SetAside(ans, q) : TRUE], content)

\* What the answers leave in a directory that held `content'.  Conflicts are
\* visited in index order, so "a.age" comes before "a.conflict.age" but
\* "a.conflict.gpg" before "a.gpg".
Written(ans, ours, theirs, content) ==
  [q \in Paths |->
     IF Format = "passage"
     THEN OwnAnswer(ans, ours, theirs, q, SiblingCopy(ans, theirs, q, content[q]))
     ELSE SiblingCopy(ans, theirs, q, OwnAnswer(ans, ours, theirs, q, content[q]))]

Resolved(ans, anc, ours, theirs) ==
  Written(ans, ours, theirs, MergedTree(anc, ours, theirs))

\* add_path fails on a file that is not there.  Keeping both sides of an entry
\* this device removed stages a sibling that was never written, which fails
\* unless that file happens to exist.
NothingToStage(ans, ours, theirs, content) ==
  \E p \in DOMAIN ans :
    \/ OwnAnswer(ans, ours, theirs, p, content[p]) = Absent
    \/ ans[p] = "KeepBoth" /\ WriteBlob(theirs[p], content[Sibling(p)]) = Absent

StagingFails(ans, anc, ours, theirs) ==
  NothingToStage(ans, ours, theirs, MergedTree(anc, ours, theirs))

\* The versions the answers give up: the side that does not win the path.
GivenUp(ans, ours, theirs) ==
  {IF ans[p] = "KeepLocal" THEN ours[p] ELSE theirs[p] :
     p \in {q \in DOMAIN ans : ans[q] # "KeepBoth"}}

Blobs(tree) == {tree[p] : p \in Paths} \ {Absent}
=============================================================================

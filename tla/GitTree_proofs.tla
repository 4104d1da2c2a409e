---------------------------- MODULE GitTree_proofs ----------------------------
(***************************************************************************)
(* Lemmas about the operators of GitTree: merging and resolving trees      *)
(* yields trees, what a replay does with the version a commit wrote, and   *)
(* the prefix order on histories; and the least element, through which the *)
(* proofs about histories do their inductions.                             *)
(***************************************************************************)
EXTENDS GitTree, WellFoundedInduction, TLAPS

\* The empty store is a tree, and a tree with one path rewritten or removed
\* is one.
LEMMA TreeTypes ==
  /\ EmptyTree \in Trees
  /\ \A t \in Trees, p \in Paths, b \in BlobIds \cup {Absent} :
       [t EXCEPT ![p] = b] \in Trees
BY DEF EmptyTree, Trees

\* What a merged index leaves in the working tree is a tree.
LEMMA MergedTreeType ==
  ASSUME NEW anc \in Trees, NEW ours \in Trees, NEW theirs \in Trees
  PROVE  MergedTree(anc, ours, theirs) \in Trees
BY DEF MergedTree, Trees

\* Whatever the resolver answers, what is written to a directory that holds a
\* tree leaves a tree.
LEMMA WrittenType ==
  ASSUME NEW ours \in Trees, NEW theirs \in Trees, NEW content \in Trees,
         NEW ans, DOMAIN ans \subseteq Paths
  PROVE  Written(ans, ours, theirs, content) \in Trees
<1> DEFINE Content == BlobIds \cup {Absent}
<1>1. \A q \in Paths : ours[q] \in Content /\ theirs[q] \in Content /\ content[q] \in Content
  BY DEF Trees
<1>2. \A b, c \in Content : WriteBlob(b, c) \in Content
  BY DEF WriteBlob
<1>3. ASSUME NEW q \in Paths, NEW c \in Content
      PROVE  OwnAnswer(ans, ours, theirs, q, c) \in Content
  BY <1>1, <1>2, <1>3 DEF OwnAnswer
<1>4. ASSUME NEW q \in Paths, NEW c \in Content
      PROVE  SiblingCopy(ans, theirs, q, c) \in Content
  <2>1. CASE SetAside(ans, q) = {}
    BY <1>4, <2>1 DEF SiblingCopy
  <2>2. CASE SetAside(ans, q) # {}
    <3>1. (CHOOSE p \in SetAside(ans, q) : TRUE) \in Paths
      BY <2>2 DEF SetAside
    <3>2. theirs[CHOOSE p \in SetAside(ans, q) : TRUE] \in Content
      BY <1>1, <3>1
    <3> QED BY <1>2, <1>4, <2>2, <3>2 DEF SiblingCopy
  <2> QED BY <2>1, <2>2
<1> HIDE DEF Content
<1>5. \A q \in Paths : Written(ans, ours, theirs, content)[q] \in Content
  BY <1>1, <1>3, <1>4 DEF Written
<1>6. Written(ans, ours, theirs, content) =
        [q \in Paths |-> Written(ans, ours, theirs, content)[q]]
  BY DEF Written
<1> QED BY <1>5, <1>6 DEF Trees, Content

\* So rebase_onto leaves a tree.
LEMMA ResolvedType ==
  ASSUME NEW anc \in Trees, NEW ours \in Trees, NEW theirs \in Trees,
         NEW ans, DOMAIN ans \subseteq Paths
  PROVE  Resolved(ans, anc, ours, theirs) \in Trees
BY MergedTreeType, WrittenType DEF Resolved

\* A version an answer gives up is a blob of one of the two sides.
LEMMA GivenUpType ==
  ASSUME NEW ours \in Trees, NEW theirs \in Trees,
         NEW ans, DOMAIN ans \subseteq Paths
  PROVE  GivenUp(ans, ours, theirs) \subseteq BlobIds \cup {Absent}
BY DEF GivenUp, Trees

\* A conflict is at a path of the store.
LEMMA ConflictsType ==
  ASSUME NEW anc, NEW ours, NEW theirs
  PROVE  Conflicts(anc, ours, theirs) \subseteq Paths
BY DEF Conflicts

-----------------------------------------------------------------------------
\* The prefix order on histories: reflexive, transitive, and extended by
\* appending a commit.
LEMMA AncestorReflexive ==
  ASSUME NEW S, NEW s \in Seq(S)
  PROVE  IsAncestor(s, s)
BY DEF IsAncestor

\* A history is a prefix of itself with one more commit.
LEMMA AncestorAppend ==
  ASSUME NEW S, NEW s \in Seq(S), NEW t \in Seq(S), NEW e \in S, IsAncestor(s, t)
  PROVE  IsAncestor(s, Append(t, e))
BY DEF IsAncestor

\* A prefix of a prefix is a prefix.
LEMMA AncestorTransitive ==
  ASSUME NEW S, NEW s \in Seq(S), NEW t \in Seq(S), NEW u \in Seq(S),
         IsAncestor(s, t), IsAncestor(t, u)
  PROVE  IsAncestor(s, u)
BY DEF IsAncestor

-----------------------------------------------------------------------------
\* A nonempty set of numbers has a least element.
LEMMA NumbersHaveLeast ==
  ASSUME NEW S \in SUBSET Nat, S # {}
  PROVE  \E n \in S : \A m \in S : n <= m
<1> DEFINE Below == {p \in Nat \X Nat : p[1] < p[2]}
<1>1. OpToRel(<, Nat) = Below
  BY Zenon DEF OpToRel
<1>2. IsWellFoundedOn(Below, Nat)
  BY <1>1, NatLessThanWellFounded
<1>3. PICK n \in S : \A m \in S : ~(<<m, n>> \in Below)
  <2> HIDE DEF Below
  <2> QED BY <1>2, WFMin, Zenon
<1>4. ASSUME NEW m \in S
      PROVE  n <= m
  <2>1. n \in Nat /\ m \in Nat
    OBVIOUS
  <2>2. ~(m < n)
    BY <1>3, <2>1
  <2> QED BY <2>1, <2>2
<1> QED BY <1>4

-----------------------------------------------------------------------------
(***************************************************************************)
(* What replaying a commit does with the versions it wrote.  A commit that *)
(* writes a single version (it may stand under several names: keeping both *)
(* sides of an entry the other side removed writes it twice) is replayed   *)
(* as a commit that does.                                                  *)
(***************************************************************************)
WritesOne(before, after) ==
  \A p, q \in Paths :
    before[p] # after[p] /\ before[q] # after[q] => after[p] = after[q]

\* A merged path is the upstream one, or one the commit changed.
LEMMA MergedSources ==
  ASSUME NEW anc \in Trees, NEW ours \in Trees, NEW theirs \in Trees, NEW q \in Paths
  PROVE  \/ MergedTree(anc, ours, theirs)[q] = ours[q]
         \/ anc[q] # theirs[q] /\ MergedTree(anc, ours, theirs)[q] = theirs[q]
BY DEF MergedTree, Conflicts

\* So is a path after the answers were applied, except that a sibling is
\* written with what the commit had under the conflicted name.
LEMMA ResolvedSources ==
  ASSUME NEW anc \in Trees, NEW ours \in Trees, NEW theirs \in Trees,
         NEW ans, DOMAIN ans \subseteq Conflicts(anc, ours, theirs), NEW q \in Paths
  PROVE  \/ Resolved(ans, anc, ours, theirs)[q] = ours[q]
         \/ \E p \in Paths : /\ anc[p] # theirs[p]
                             /\ Resolved(ans, anc, ours, theirs)[q] = theirs[p]
<1> DEFINE From(x) == x = ours[q] \/ \E p \in Paths : anc[p] # theirs[p] /\ x = theirs[p]
<1>1. From(MergedTree(anc, ours, theirs)[q])
  BY MergedSources
<1>2. \A p \in DOMAIN ans : p \in Paths /\ anc[p] # theirs[p]
  BY DEF Conflicts
<1>3. ASSUME NEW c, From(c)
      PROVE  From(OwnAnswer(ans, ours, theirs, q, c))
  BY <1>2, <1>3 DEF OwnAnswer, WriteBlob
<1>4. ASSUME NEW c, From(c)
      PROVE  From(SiblingCopy(ans, theirs, q, c))
  <2>1. CASE SetAside(ans, q) = {}
    BY <1>4, <2>1 DEF SiblingCopy
  <2>2. CASE SetAside(ans, q) # {}
    <3> DEFINE r == CHOOSE p \in SetAside(ans, q) : TRUE
    <3>1. r \in DOMAIN ans
      BY <2>2 DEF SetAside
    <3>2. SiblingCopy(ans, theirs, q, c) = WriteBlob(theirs[r], c)
      BY <2>2 DEF SiblingCopy
    <3> HIDE DEF r
    <3>3. From(theirs[r])
      BY <1>2, <3>1
    <3> QED BY <1>4, <3>2, <3>3 DEF WriteBlob
  <2> QED BY <2>1, <2>2
<1> HIDE DEF From
<1>5. From(Resolved(ans, anc, ours, theirs)[q])
  BY <1>1, <1>3, <1>4 DEF Resolved, Written
<1> QED BY <1>5 DEF From

\* The replay of a commit that writes a single version writes a single version.
LEMMA ReplayWritesOne ==
  ASSUME NEW anc \in Trees, NEW ours \in Trees, NEW theirs \in Trees,
         WritesOne(anc, theirs)
  PROVE  /\ WritesOne(ours, MergedTree(anc, ours, theirs))
         /\ \A ans : DOMAIN ans \subseteq Conflicts(anc, ours, theirs) =>
              WritesOne(ours, Resolved(ans, anc, ours, theirs))
<1>1. WritesOne(ours, MergedTree(anc, ours, theirs))
  BY MergedSources DEF WritesOne
<1>2. ASSUME NEW ans, DOMAIN ans \subseteq Conflicts(anc, ours, theirs)
      PROVE  WritesOne(ours, Resolved(ans, anc, ours, theirs))
  <2> DEFINE t == Resolved(ans, anc, ours, theirs)
  <2>1. \A q \in Paths : t[q] = ours[q] \/ \E p \in Paths : anc[p] # theirs[p] /\ t[q] = theirs[p]
    BY <1>2, ResolvedSources
  <2> HIDE DEF t
  <2>2. WritesOne(ours, t)
    BY <2>1 DEF WritesOne
  <2> QED BY <2>2 DEF t
<1> QED BY <1>1, <1>2

\* A commit without conflicts leaves what it wrote in the tree.
LEMMA MergeKeepsVersion ==
  ASSUME NEW anc \in Trees, NEW ours \in Trees, NEW theirs \in Trees, NEW p \in Paths,
         p \notin Conflicts(anc, ours, theirs), anc[p] # theirs[p]
  PROVE  MergedTree(anc, ours, theirs)[p] = theirs[p]
BY DEF MergedTree, Conflicts

\* The name next to a path belongs to no other path.
LEMMA SiblingIsOf ==
  ASSUME NEW ans, DOMAIN ans \subseteq Paths, NEW p \in DOMAIN ans, ans[p] = "KeepBoth"
  PROVE  SetAside(ans, Sibling(p)) = {p}
<1>1. ASSUME NEW r \in DOMAIN ans, Sibling(r) = Sibling(p)
      PROVE  r = p
  <2>1. r[1] = p[1] /\ r[2] + 1 = p[2] + 1
    BY <1>1 DEF Sibling
  <2>2. r = <<r[1], r[2]>> /\ p = <<p[1], p[2]>> /\ r[2] \in Nat /\ p[2] \in Nat
    BY <1>1, TreeAssumption DEF Paths
  <2> QED BY <2>1, <2>2
<1> QED BY <1>1 DEF SetAside

\* The KeepBoth answer with the most suffixes writes a name whose own answer,
\* if it has one, is for one side.
LEMMA LastKeptBoth ==
  ASSUME NEW ans, DOMAIN ans \subseteq Paths,
         \A p \in DOMAIN ans : ans[p] = "KeepBoth" => p[2] < MaxSuffix,
         \E p \in DOMAIN ans : ans[p] = "KeepBoth"
  PROVE  \E p \in DOMAIN ans :
           /\ ans[p] = "KeepBoth" /\ Sibling(p) \in Paths
           /\ ~(Sibling(p) \in DOMAIN ans /\ ans[Sibling(p)] = "KeepBoth")
<1> DEFINE Left == {k \in 0..MaxSuffix :
                      \E p \in DOMAIN ans : ans[p] = "KeepBoth" /\ p[2] = MaxSuffix - k}
<1>1. \A p \in DOMAIN ans : p[1] \in Names /\ p[2] \in 0..MaxSuffix
  BY DEF Paths
<1>2. ASSUME NEW p \in DOMAIN ans, ans[p] = "KeepBoth"
      PROVE  MaxSuffix - p[2] \in Left
  <2>1. p[2] \in 0..MaxSuffix /\ MaxSuffix \in Nat
    BY <1>1, <1>2, TreeAssumption
  <2>2. MaxSuffix - p[2] \in 0..MaxSuffix /\ p[2] = MaxSuffix - (MaxSuffix - p[2])
    BY <2>1
  <2> QED BY <1>2, <2>2
<1>3. PICK k \in Left : \A m \in Left : k <= m
  <2>1. Left \in SUBSET Nat /\ Left # {}
    BY <1>2, TreeAssumption
  <2> HIDE DEF Left
  <2> QED BY <2>1, NumbersHaveLeast
<1>4. PICK p \in DOMAIN ans : ans[p] = "KeepBoth" /\ p[2] = MaxSuffix - k
  BY <1>3
<1>5. p[1] \in Names /\ p[2] \in Nat /\ p[2] < MaxSuffix /\ MaxSuffix \in Nat /\ k \in Nat
  BY <1>1, <1>3, <1>4, TreeAssumption
<1>6. Sibling(p) \in Paths /\ Sibling(p)[2] = p[2] + 1
  <2>1. p[2] + 1 \in 0..MaxSuffix
    BY <1>5
  <2> QED BY <1>5, <2>1 DEF Sibling, Paths
<1>7. ASSUME Sibling(p) \in DOMAIN ans, ans[Sibling(p)] = "KeepBoth"
      PROVE  FALSE
  <2>1. MaxSuffix - (p[2] + 1) \in Left
    BY <1>2, <1>6, <1>7
  <2>2. k <= MaxSuffix - (p[2] + 1)
    BY <1>3, <2>1
  <2> QED BY <1>4, <1>5, <2>2
<1> QED BY <1>4, <1>6, <1>7

\* However the conflicts of a commit that writes a single version are answered,
\* that version is in the tree that results, or an answer gave it up.
LEMMA AnswersKeepVersion ==
  ASSUME NEW anc \in Trees, NEW ours \in Trees, NEW theirs \in Trees,
         WritesOne(anc, theirs),
         NEW ans, DOMAIN ans = Conflicts(anc, ours, theirs),
         \A p \in DOMAIN ans : ans[p] \in ConflictChoice,
         \A p \in DOMAIN ans : ans[p] = "KeepBoth" => p[2] < MaxSuffix,
         NEW w \in Paths, anc[w] # theirs[w], theirs[w] # Absent
  PROVE  \/ \E q \in Paths : Resolved(ans, anc, ours, theirs)[q] = theirs[w]
         \/ theirs[w] \in GivenUp(ans, ours, theirs)
<1> DEFINE b == theirs[w]
           merged == MergedTree(anc, ours, theirs)
           t == Resolved(ans, anc, ours, theirs)
<1>1. \A p \in DOMAIN ans : p \in Paths /\ theirs[p] = b
  BY DEF Conflicts, WritesOne
<1>2. ASSUME NEW q \in Paths, NEW c
      PROVE  SiblingCopy(ans, theirs, q, c) \in {b, c}
  <2>1. CASE SetAside(ans, q) = {}
    BY <2>1 DEF SiblingCopy
  <2>2. CASE SetAside(ans, q) # {}
    <3>1. (CHOOSE p \in SetAside(ans, q) : TRUE) \in DOMAIN ans
      BY <2>2 DEF SetAside
    <3>2. theirs[CHOOSE p \in SetAside(ans, q) : TRUE] = b
      BY <1>1, <3>1
    <3> QED BY <2>2, <3>2 DEF SiblingCopy, WriteBlob
  <2> QED BY <2>1, <2>2
<1>3. \A q \in Paths :
        t[q] = IF Format = "passage"
               THEN OwnAnswer(ans, ours, theirs, q, SiblingCopy(ans, theirs, q, merged[q]))
               ELSE SiblingCopy(ans, theirs, q, OwnAnswer(ans, ours, theirs, q, merged[q]))
  BY DEF Resolved, Written
<1> HIDE DEF t, merged
<1>4. CASE w \notin DOMAIN ans
  <2>1. merged[w] = b
    BY <1>4, MergeKeepsVersion DEF merged
  <2>2. t[w] = b
    BY <1>2, <1>3, <1>4, <2>1 DEF OwnAnswer
  <2> QED BY <2>2 DEF t
<1>5. CASE \E p \in DOMAIN ans : ans[p] = "KeepRemote"
  BY <1>1, <1>5 DEF GivenUp
<1>6. CASE \E p \in DOMAIN ans : ans[p] = "KeepLocal"
  <2>1. PICK p \in DOMAIN ans : ans[p] = "KeepLocal"
    BY <1>6
  <2>2. \A c : OwnAnswer(ans, ours, theirs, p, c) = b
    BY <1>1, <2>1 DEF OwnAnswer, WriteBlob
  <2>3. t[p] = b
    BY <1>1, <1>2, <1>3, <2>1, <2>2
  <2> QED BY <1>1, <2>1, <2>3 DEF t
<1>7. CASE /\ w \in DOMAIN ans
           /\ \A p \in DOMAIN ans : ans[p] = "KeepBoth"
  <2>1. PICK p \in DOMAIN ans :
          /\ ans[p] = "KeepBoth" /\ Sibling(p) \in Paths
          /\ ~(Sibling(p) \in DOMAIN ans /\ ans[Sibling(p)] = "KeepBoth")
    BY <1>1, <1>7, LastKeptBoth
  <2>2. Sibling(p) \notin DOMAIN ans
    BY <1>7, <2>1
  <2>3. SetAside(ans, Sibling(p)) = {p}
    BY <1>1, <2>1, SiblingIsOf
  <2>4. \A c : SiblingCopy(ans, theirs, Sibling(p), c) = b
    <3>1. (CHOOSE r \in {p} : TRUE) = p
      OBVIOUS
    <3> QED BY <1>1, <2>3, <3>1 DEF SiblingCopy, WriteBlob
  <2>5. t[Sibling(p)] = b
    BY <1>3, <2>1, <2>2, <2>4 DEF OwnAnswer
  <2> QED BY <2>1, <2>5 DEF t
<1> QED BY <1>4, <1>5, <1>6, <1>7 DEF ConflictChoice
=============================================================================

----------------------------- MODULE Store_proofs -----------------------------
(***************************************************************************)
(* Theorems about Store for every value of its constants.                  *)
(***************************************************************************)
EXTENDS Store, SequenceTheorems, WellFoundedInduction, TLAPS

(***************************************************************************)
(* Ciphertexts, directories and the order of the entries.                  *)
(***************************************************************************)
\* A ciphertext is not the mark of an absent file.
LEMMA CiphertextIsThere ==
  /\ \A n, K : <<n, K>> # Absent
  /\ Absent \notin Ciphertexts
  /\ Damaged \in Ciphertexts
BY DEF Absent, Ciphertexts, Damaged

\* A directory is among its ancestors, and so is the root.
LEMMA AncestorsReach ==
  ASSUME NEW d \in Dirs
  PROVE  d \in Ancestors(d) /\ Root \in Ancestors(d) /\ Ancestors(d) \subseteq Dirs
<1>1. d \in Seq(Names) /\ Len(d) \in Nat
  BY StoreAssumption
<1>2. d = SubSeq(d, 1, Len(d)) /\ Len(d) \in 0..Len(d)
  BY <1>1
<1>3. <<>> = SubSeq(d, 1, 0) /\ 0 \in 0..Len(d)
  BY <1>1
<1>4. d \in Ancestors(d)
  BY <1>2 DEF Ancestors
<1>5. Root \in Ancestors(d)
  BY <1>3, Zenon DEF Ancestors, Root
<1> QED BY <1>4, <1>5, StoreAssumption

\* Pruning spares the root, every directory that holds a file, and nothing that
\* was not there appears.
LEMMA PruningSpares ==
  ASSUME NEW d, dirs \subseteq Dirs, NEW a \in dirs, dirs' = dirs \ Pruned(d),
         \/ a = Root
         \/ a \in keyed \cup litter
         \/ \E e \in Entries : Home[e] = a /\ files'[e] # Absent
  PROVE  a \in dirs'
<1>1. a \in Ancestors(a)
  BY AncestorsReach
<1> QED BY <1>1 DEF Pruned

\* A nonempty set of numbers has a least element.
LEMMA NumbersHaveLeast ==
  ASSUME NEW S \in SUBSET Nat, S # {}
  PROVE  \E n \in S : \A m \in S : n <= m
<1> DEFINE Below == {p \in Nat \X Nat : p[1] < p[2]}
<1>1. OpToRel(<, Nat) = Below
  BY Zenon DEF OpToRel
<1>2. IsWellFoundedOn(Below, Nat)
  BY <1>1, NatLessThanWellFounded
<1>3. PICK n \in S : \A m \in S : ~(<<m, n>> \in Below)
  <2> HIDE DEF Below
  <2> QED BY <1>2, WFMin, Zenon
<1>4. ASSUME NEW m \in S
      PROVE  n <= m
  <2>1. n \in Nat /\ m \in Nat
    OBVIOUS
  <2>2. ~(m < n)
    BY <1>3, <2>1
  <2> QED BY <2>1, <2>2
<1> QED BY <1>4

\* A re-encryption with entries to do takes one of them.
LEMMA TargetIsToDo ==
  ASSUME call.todo \subseteq Entries, call.todo # {}
  PROVE  Target \in call.todo
<1>1. call.todo \in SUBSET Nat
  BY StoreAssumption DEF Entries
<1>2. \E e \in call.todo : \A f \in call.todo : e <= f
  BY <1>1, NumbersHaveLeast
<1> QED BY <1>2 DEF Target

(***************************************************************************)
(* Type correctness.  TypeOK holds by induction together with where the    *)
(* running call stands: what it stages has a directory to go to, and a     *)
(* call that goes from entry to entry has one left.                        *)
(***************************************************************************)
Placed ==
  /\ Root \in dirs
  /\ \A f \in staged : Home[f[1]] \in dirs
  /\ call.op \in {"none", "copy", "remove source"} => staged = {}
  /\ call.op \in {"move", "copy", "remove source"} => call.from \in Entries
  /\ call.op \in {"copy", "reencrypt", "readable"} => call.todo # {}
  /\ call.op = "copy" => \A e \in call.todo : Home[e] \in dirs

Typed == TypeOK /\ Placed

\* A call that is not running has the values of a call.
LEMMA NoCallType ==
  ASSUME NEW ok \in BOOLEAN
  PROVE  /\ [NoCall EXCEPT !.ok = ok] \in Calls
         /\ [NoCall EXCEPT !.ok = ok].op = "none"
         /\ [NoCall EXCEPT !.ok = ok].todo = {}
<1>1. NoCall \in Calls /\ NoCall.op = "none" /\ NoCall.todo = {}
  BY StoreAssumption DEF NoCall, Calls, Ops
<1> QED BY <1>1 DEF Calls

\* The keys an entry is encrypted to are keys.
LEMMA ReadersAreKeys ==
  ASSUME TypeOK, NEW e \in Entries
  PROVE  Readers(e) \subseteq Keys /\ Readers(e) \subseteq Own \cup UNION {recips[d] : d \in keyed}
<1>1. Listed(Home[e]) \subseteq UNION {recips[d] : d \in keyed}
  BY DEF Listed, Source
<1>2. UNION {recips[d] : d \in keyed} \subseteq Keys
  BY DEF TypeOK
<1> QED BY <1>1, <1>2, StoreAssumption DEF Readers

\* A program starts in a state of its types.
LEMMA InitHasType ==
  ASSUME Init
  PROVE  Typed
<1>1. files \in [Entries -> Ciphertexts \cup {Absent}]
  <2>1. PICK S \in SUBSET {e \in Entries : CanEncrypt(e)} :
          files = [e \in Entries |-> IF e \in S THEN <<e, Readers(e)>> ELSE Absent]
    BY DEF Init
  <2>2. ASSUME NEW e \in Entries
        PROVE  <<e, Readers(e)>> \in Ciphertexts
    <3>1. Listed(Home[e]) \subseteq Keys
      BY DEF Listed, Source, Init
    <3> QED BY <3>1, StoreAssumption DEF Readers, Ciphertexts, Entries
  <2> QED BY <2>1, <2>2
<1> DEFINE held == keyed \cup {Home[e] : e \in {f \in Entries : files[f] # Absent}}
<1>2. held \subseteq Dirs /\ dirs = {Root} \cup UNION {Ancestors(d) : d \in held}
  BY StoreAssumption DEF Init
<1>3. \A d \in held : d \in Ancestors(d) /\ Ancestors(d) \subseteq Dirs
  BY <1>2, AncestorsReach
<1>4. held \subseteq dirs /\ dirs \subseteq Dirs /\ Root \in dirs
  <2> HIDE DEF held
  <2>1. Root \in dirs
    BY <1>2, Zenon
  <2>2. ASSUME NEW d \in held
        PROVE  d \in dirs
    BY <1>2, <1>3, Zenon
  <2>3. ASSUME NEW d \in dirs
        PROVE  d \in Dirs
    <3>1. d = Root \/ \E h \in held : d \in Ancestors(h)
      BY <1>2, Zenon
    <3> QED BY <3>1, <1>3, StoreAssumption, Zenon
  <2> QED BY <2>1, <2>2, <2>3
<1>5. \A e \in Entries : files[e] # Absent => Home[e] \in dirs
  BY <1>4
<1>6. call \in Calls /\ call.op = "none" /\ call.todo = {}
  BY StoreAssumption DEF Init, NoCall, Calls, Ops
<1>7. live \subseteq Nat
  BY <1>1, StoreAssumption DEF Init, TextsOf, Text, Ciphertexts
<1> QED BY <1>1, <1>4, <1>5, <1>6, <1>7, StoreAssumption DEF Init, Typed, TypeOK, Placed, Idle

\* Creating an entry's directory, or pruning one, leaves every file a directory.
LEMMA DirsKeepFiles ==
  ASSUME Typed, NEW e \in Entries, keyed' = keyed, litter' = litter,
         \A f \in Entries : files'[f] # Absent => Home[f] \in dirs \/ f = e,
         \/ dirs' = dirs \cup Ancestors(Home[e])
         \/ dirs' = dirs \ Pruned(Home[e]) /\ files'[e] = Absent
  PROVE  /\ keyed' \subseteq dirs' /\ litter' \subseteq dirs'
         /\ dirs' \subseteq Dirs /\ Root \in dirs'
         /\ \A f \in Entries : files'[f] # Absent => Home[f] \in dirs'
<1>1. Home[e] \in Dirs
  BY StoreAssumption
<1>2. Home[e] \in Ancestors(Home[e]) /\ Ancestors(Home[e]) \subseteq Dirs
  BY <1>1, AncestorsReach
<1>3. CASE dirs' = dirs \cup Ancestors(Home[e])
  BY <1>2, <1>3 DEF Typed, TypeOK, Placed
<1>4. CASE dirs' = dirs \ Pruned(Home[e]) /\ files'[e] = Absent
  <2>1. \A a \in dirs : \/ a = Root
                        \/ a \in keyed \cup litter
                        \/ \E f \in Entries : Home[f] = a /\ files'[f] # Absent
                        => a \in dirs'
    BY <1>4, PruningSpares DEF Typed, TypeOK
  <2> QED BY <1>4, <2>1 DEF Typed, TypeOK, Placed
<1> QED BY <1>3, <1>4

\* Returning from a call, or going on after an entry is written.
LEMMA WrittenType ==
  ASSUME Typed, NEW e \in Entries, Written(e), ~Idle, call.op # "copy"
  PROVE  /\ call' \in Calls
         /\ call'.op = "none" => call'.todo = {}
         /\ call'.op \in {"move", "copy", "remove source"} => call'.from \in Entries
         /\ call'.op \in {"copy", "reencrypt", "readable"} => call'.todo # {}
         /\ call'.op # "copy"
<1>1. call \in Calls
  BY DEF Typed, TypeOK
<1>2. CASE call' = [NoCall EXCEPT !.ok = TRUE]
  BY <1>2, NoCallType
<1>3. CASE call.op = "move" /\ call' = [call EXCEPT !.op = "remove source"]
  BY <1>1, <1>3 DEF Calls, Ops, Typed, Placed
<1>4. CASE call.todo # {e} /\ call.op \notin {"write", "move"}
           /\ call' = [call EXCEPT !.todo = call.todo \ {e}]
  <2>1. call' \in Calls /\ call'.op = call.op /\ call'.from = call.from
        /\ call'.todo = call.todo \ {e}
    BY <1>1, <1>4 DEF Calls
  <2>2. call.todo # {} => call.todo \ {e} # {}
    BY <1>4
  <2> QED BY <2>1, <2>2 DEF Typed, Placed, Idle
<1>5. \/ call' = [NoCall EXCEPT !.ok = TRUE]
      \/ call.op = "move" /\ call' = [call EXCEPT !.op = "remove source"]
      \/ call.todo # {e} /\ call.op \notin {"write", "move"}
         /\ call' = [call EXCEPT !.todo = call.todo \ {e}]
  <2>1. CASE call.op = "write"
    BY <2>1 DEF Written, Return
  <2>2. CASE call.op = "move"
    BY <2>2 DEF Written, Return
  <2>3. CASE call.op \notin {"write", "move"}
    BY <2>3 DEF Written, Return
  <2> QED BY <2>1, <2>2, <2>3
<1> QED BY <1>2, <1>3, <1>4, <1>5

LEMMA RenameKeepsType ==
  ASSUME Typed, Rename
  PROVE  Typed'
<1>1. PICK f \in staged :
        /\ files' = [files EXCEPT ![f[1]] = f[2]]
        /\ live' = IF call.op = "write" THEN (live \ TextsOf(f[1])) \cup {Text(f[2])} ELSE live
        /\ Written(f[1])
        /\ out' = IF call.op = "reencrypt" /\ call.sub = Root /\ call.todo = {f[1]}
                  THEN Keys \ (Own \cup UNION {recips[d] : d \in keyed}) ELSE out
  BY DEF Rename
<1>2. /\ f[1] \in Entries /\ f[2] \in Ciphertexts /\ Home[f[1]] \in dirs
      /\ ~Idle /\ call.op # "copy"
  BY DEF Typed, TypeOK, Placed, Idle
<1>3. /\ call' \in Calls
      /\ call'.op = "none" => call'.todo = {}
      /\ call'.op \in {"move", "copy", "remove source"} => call'.from \in Entries
      /\ call'.op \in {"copy", "reencrypt", "readable"} => call'.todo # {}
      /\ call'.op # "copy"
  BY <1>1, <1>2, WrittenType
<1>4. files' \in [Entries -> Ciphertexts \cup {Absent}]
  BY <1>1, <1>2 DEF Typed, TypeOK
<1>5. \A e \in Entries : files'[e] # Absent => Home[e] \in dirs
  BY <1>1, <1>2 DEF Typed, TypeOK
<1>6. live' \subseteq Nat
  BY <1>1, <1>2 DEF Typed, TypeOK, Ciphertexts, Text
<1>7. out' \subseteq Keys
  BY <1>1 DEF Typed, TypeOK
<1>8. litter' \subseteq dirs
  BY DEF Rename, Typed, TypeOK
<1>9. /\ staged' = {}
      /\ UNCHANGED <<format, keyed, recips, dirs, texts, pulls, failures, crashes>>
  BY DEF Rename, recipients, counters
<1> QED BY <1>3, <1>4, <1>5, <1>6, <1>7, <1>8, <1>9 DEF Typed, TypeOK, Placed, Idle

\* A step that returns from the call, whatever it does to the litter.
LEMMA ReturnKeepsType ==
  ASSUME Typed, staged' = {},
         call' \in Calls, call'.op = "none", call'.todo = {},
         litter' \subseteq dirs, failures' \in Nat, crashes' \in Nat,
         UNCHANGED <<files, recipients, dirs, live, out, texts, pulls>>
  PROVE  Typed'
BY DEF Typed, TypeOK, Placed, Idle, recipients

LEMMA FailureKeepsType ==
  ASSUME Typed, AtomicWriteFails \/ MoveFails \/ ReencryptFails \/ SetRootRecipientsFails \/ Crash
  PROVE  Typed'
<1>0. call' = [NoCall EXCEPT !.ok = FALSE]
  BY DEF AtomicWriteFails, MoveFails, ReencryptFails, SetRootRecipientsFails, Crash, CallFails, Return
<1>1. /\ call' \in Calls /\ call'.op = "none" /\ call'.todo = {}
      /\ staged' = {} /\ UNCHANGED <<files, recipients, dirs, live, out, texts, pulls>>
  BY <1>0, NoCallType DEF AtomicWriteFails, MoveFails, ReencryptFails, SetRootRecipientsFails,
     Crash, CallFails, tree, Typed, TypeOK
<1>2. litter \cup {Home[f[1]] : f \in staged} \subseteq dirs
  BY DEF Typed, TypeOK, Placed
<1>3. failures \in Nat /\ crashes \in Nat /\ Root \in dirs
  BY DEF Typed, TypeOK, Placed
<1>4. CASE AtomicWriteFails
  BY <1>1, <1>2, <1>3, <1>4, ReturnKeepsType DEF AtomicWriteFails, SpendFailure
<1>5. CASE SetRootRecipientsFails
  BY <1>1, <1>2, <1>3, <1>5, ReturnKeepsType DEF SetRootRecipientsFails, SpendFailure
<1>6. CASE Crash
  BY <1>1, <1>2, <1>3, <1>6, ReturnKeepsType DEF Crash
<1>7. ASSUME NEW reason, CallFails(reason)
      PROVE  Typed'
  BY <1>1, <1>2, <1>3, <1>7, ReturnKeepsType DEF CallFails, tree, SpendFailure
<1> QED BY <1>4, <1>5, <1>6, <1>7 DEF MoveFails, ReencryptFails

LEMMA EditKeepsType ==
  ASSUME Typed, NEW e \in Entries, Write(e) \/ Remove(e) \/ PullEntry(e)
  PROVE  Typed'
<1>1. /\ UNCHANGED recipients /\ keyed' = keyed /\ litter' = litter /\ out' \subseteq Keys
      /\ texts' \in Nat /\ pulls' \in Nat /\ failures' \in Nat /\ crashes' \in Nat
  BY DEF Write, Remove, PullEntry, MaySync, recipients, counters, Typed, TypeOK
<1>2. staged' \subseteq Entries \X Ciphertexts /\ \A f \in staged' : f[1] = e
  BY ReadersAreKeys DEF Write, Remove, PullEntry, MaySync, Typed, TypeOK, Ciphertexts, Idle
<1>3. files' \in [Entries -> Ciphertexts \cup {Absent}]
  BY DEF Write, Remove, PullEntry, MaySync, Typed, TypeOK, Ciphertexts
<1>4. live' \subseteq Nat
  BY DEF Write, Remove, PullEntry, MaySync, Typed, TypeOK
<1>5. /\ call' \in Calls /\ call'.todo = {}
      /\ \/ call'.op = "none" /\ staged' = {}
         \/ call'.op = "write"
  <2>1. call \in Calls /\ call.todo = {} /\ staged = {} /\ call.op = "none"
    BY DEF Write, Remove, PullEntry, MaySync, Typed, TypeOK, Idle
  <2>2. CASE Write(e)
    <3>1. NoCall \in Calls /\ NoCall.todo = {}
      BY StoreAssumption DEF NoCall, Calls, Ops
    <3> QED BY <3>1, <2>2 DEF Write, Calls, Ops
  <2> QED BY <2>1, <2>2 DEF Remove, PullEntry
<1>6. /\ \A f \in Entries : files'[f] # Absent => Home[f] \in dirs \/ f = e
      /\ \/ dirs' = dirs \cup Ancestors(Home[e])
         \/ dirs' = dirs \ Pruned(Home[e]) /\ files'[e] = Absent
  BY DEF Write, Remove, PullEntry, MaySync, Typed, TypeOK
<1>7. /\ keyed' \subseteq dirs' /\ litter' \subseteq dirs'
      /\ dirs' \subseteq Dirs /\ Root \in dirs'
      /\ \A f \in Entries : files'[f] # Absent => Home[f] \in dirs'
  BY <1>1, <1>6, DirsKeepFiles
<1>8. \A f \in staged' : Home[f[1]] \in dirs'
  <2>1. CASE Write(e)
    BY <1>2, <2>1, AncestorsReach, StoreAssumption DEF Write
  <2>2. CASE ~Write(e)
    BY <2>2 DEF Remove, PullEntry, MaySync, Typed, TypeOK, Idle
  <2> QED BY <2>1, <2>2
<1> QED BY <1>1, <1>2, <1>3, <1>4, <1>5, <1>7, <1>8 DEF Typed, TypeOK, Placed, Idle, recipients
LEMMA MoveKeepsType ==
  ASSUME Typed, NEW from \in Entries, NEW to \in Entries, Move(from, to)
  PROVE  Typed'
<1>1. /\ UNCHANGED recipients /\ keyed' = keyed /\ litter' = litter /\ out' \subseteq Keys
      /\ texts' \in Nat /\ pulls' \in Nat /\ failures' \in Nat /\ crashes' \in Nat
      /\ live' \subseteq Nat /\ dirs' = dirs \cup Ancestors(Home[to])
      /\ staged = {}
  BY DEF Move, recipients, counters, Typed, TypeOK, Idle
<1>2. files' \in [Entries -> Ciphertexts \cup {Absent}]
      /\ \A f \in Entries : files'[f] # Absent => files[f] # Absent \/ f = to
  BY CiphertextIsThere DEF Move, Typed, TypeOK
<1>3. /\ keyed' \subseteq dirs' /\ litter' \subseteq dirs'
      /\ dirs' \subseteq Dirs /\ Root \in dirs'
      /\ \A f \in Entries : files'[f] # Absent => Home[f] \in dirs'
  BY <1>1, <1>2, DirsKeepFiles DEF Typed, TypeOK
<1>4. Home[to] \in dirs'
  BY <1>1, AncestorsReach, StoreAssumption
<1>5. NoCall \in Calls
  BY StoreAssumption DEF NoCall, Calls, Ops
<1>6. CASE call' = [NoCall EXCEPT !.op = "move", !.from = from]
           /\ staged' = {<<to, <<Text(files[from]), Readers(to)>>>>} /\ files[from] # Absent
  <2>1. call' \in Calls /\ call'.op = "move" /\ call'.from = from
    BY <1>5, <1>6 DEF Calls, Ops
  <2>2. <<Text(files[from]), Readers(to)>> \in Ciphertexts
    BY <1>6, ReadersAreKeys DEF Typed, TypeOK, Ciphertexts, Text
  <2>3. staged' \subseteq Entries \X Ciphertexts /\ \A f \in staged' : Home[f[1]] \in dirs'
    BY <1>4, <1>6, <2>2
  <2> QED BY <1>1, <1>2, <1>3, <2>1, <2>3 DEF Typed, TypeOK, Placed, Idle, recipients
<1>7. CASE call' = [NoCall EXCEPT !.op = "copy", !.from = from, !.todo = {to}] /\ staged' = staged
  <2>1. call' \in Calls /\ call'.op = "copy" /\ call'.from = from /\ call'.todo = {to}
    BY <1>5, <1>7 DEF Calls, Ops
  <2> QED BY <1>1, <1>2, <1>3, <1>4, <1>7, <2>1 DEF Typed, TypeOK, Placed, Idle, recipients
<1> QED BY <1>6, <1>7 DEF Move

LEMMA MoveRefusedKeepsType ==
  ASSUME Typed, NEW from \in Entries, NEW to \in Entries, MoveRefused(from, to)
  PROVE  Typed'
<1>1. /\ UNCHANGED recipients /\ keyed' = keyed /\ litter' = litter /\ out' = out /\ files' = files
      /\ texts' = texts /\ pulls' = pulls /\ failures' \in Nat /\ crashes' = crashes
      /\ live' = live /\ dirs' = dirs \cup Ancestors(Home[to])
      /\ staged = {} /\ staged' = {} /\ call' = [NoCall EXCEPT !.ok = FALSE]
  BY DEF MoveRefused, SpendFailure, Return, recipients, Typed, TypeOK, Idle
<1>2. /\ keyed' \subseteq dirs' /\ litter' \subseteq dirs'
      /\ dirs' \subseteq Dirs /\ Root \in dirs'
      /\ \A f \in Entries : files'[f] # Absent => Home[f] \in dirs'
  BY <1>1, DirsKeepFiles DEF Typed, TypeOK
<1>3. call' \in Calls /\ call'.op = "none" /\ call'.todo = {}
  BY <1>1, NoCallType
<1> QED BY <1>1, <1>2, <1>3 DEF Typed, TypeOK, Placed, Idle, recipients

LEMMA CopyKeepsType ==
  ASSUME Typed, EndCopy \/ RemoveSource
  PROVE  Typed'
<1>1. /\ UNCHANGED recipients /\ keyed' = keyed /\ litter' = litter /\ out' = out /\ live' = live
      /\ UNCHANGED counters /\ staged = {} /\ staged' = {} /\ call.from \in Entries
  BY DEF EndCopy, RemoveSource, recipients, Typed, Placed
<1>2. CASE EndCopy
  <2>1. PICK to \in call.todo : files' = [files EXCEPT ![to] = files[call.from]]
    BY <1>2 DEF EndCopy
  <2>2. files' \in [Entries -> Ciphertexts \cup {Absent}]
        /\ \A f \in Entries : files'[f] # Absent => Home[f] \in dirs
    BY <1>1, <1>2, <2>1 DEF EndCopy, Typed, TypeOK, Placed, Calls
  <2>3. call' \in Calls /\ call'.op = "remove source" /\ call'.from = call.from
    BY <1>2 DEF EndCopy, Typed, TypeOK, Calls, Ops
  <2> QED BY <1>1, <1>2, <2>2, <2>3 DEF Typed, TypeOK, Placed, Idle, recipients, counters, EndCopy
<1>3. CASE RemoveSource
  <2>1. files' \in [Entries -> Ciphertexts \cup {Absent}] /\ files'[call.from] = Absent
        /\ \A f \in Entries : files'[f] # Absent => Home[f] \in dirs
    BY <1>1, <1>3 DEF RemoveSource, Typed, TypeOK
  <2>2. /\ keyed' \subseteq dirs' /\ litter' \subseteq dirs'
        /\ dirs' \subseteq Dirs /\ Root \in dirs'
        /\ \A f \in Entries : files'[f] # Absent => Home[f] \in dirs'
    BY <1>1, <1>3, <2>1, DirsKeepFiles DEF RemoveSource
  <2>3. call' \in Calls /\ call'.op = "none" /\ call'.todo = {}
    BY <1>3, NoCallType DEF RemoveSource, Return
  <2> QED BY <1>1, <2>1, <2>2, <2>3 DEF Typed, TypeOK, Placed, Idle, recipients, counters
<1> QED BY <1>2, <1>3

LEMMA ReencryptKeepsType ==
  ASSUME Typed,
         \/ \E op \in {"reencrypt", "readable"}, sub \in Dirs : Reencrypt(op, sub)
         \/ ReencryptTarget
         \/ SkipUnreadable
  PROVE  Typed'
<1>1. UNCHANGED <<files, recipients, dirs, litter, live, out, texts, pulls, failures, crashes>>
  BY DEF Reencrypt, ReencryptTarget, SkipUnreadable, tree, counters
<1>2. ASSUME NEW op \in {"reencrypt", "readable"}, NEW sub \in Dirs, Reencrypt(op, sub)
      PROVE  Typed'
  <2>1. NoCall \in Calls
    BY StoreAssumption DEF NoCall, Calls, Ops
  <2>2. call' \in Calls /\ call'.op = op /\ call'.todo # {}
    BY <1>2, <2>1 DEF Reencrypt, Calls, Ops, Targets, Typed, TypeOK
  <2>3. staged' = {}
    BY <1>2 DEF Reencrypt, Typed, TypeOK, Idle
  <2> QED BY <1>1, <2>2, <2>3 DEF Typed, TypeOK, Placed, Idle, recipients
<1>3. CASE ReencryptTarget
  <2>1. Target \in Entries
    BY <1>3, TargetIsToDo DEF ReencryptTarget, Reencrypting, Typed, TypeOK, Placed, Calls
  <2> DEFINE e == Target
  <2>2. files[e] # Absent /\ staged' = {<<e, <<Text(files[e]), Readers(e)>>>>} /\ call' = call
        /\ call.op \in {"reencrypt", "readable"}
    BY <1>3 DEF ReencryptTarget, Reencrypting, Opens
  <2> HIDE DEF e
  <2>3. <<Text(files[e]), Readers(e)>> \in Ciphertexts /\ Home[e] \in dirs
    BY <2>1, <2>2, ReadersAreKeys DEF Typed, TypeOK, Ciphertexts, Text, e
  <2>4. staged' \subseteq Entries \X Ciphertexts /\ \A f \in staged' : Home[f[1]] \in dirs
    BY <2>1, <2>2, <2>3 DEF e
  <2> QED BY <1>1, <2>2, <2>4 DEF Typed, TypeOK, Placed, Idle, recipients
<1>4. CASE SkipUnreadable
  <2>1. Target \in Entries
    BY <1>4, TargetIsToDo DEF SkipUnreadable, Reencrypting, Typed, TypeOK, Placed, Calls
  <2>2. Written(Target) /\ ~Idle /\ call.op # "copy" /\ staged = {} /\ staged' = {}
    BY <1>4 DEF SkipUnreadable, Reencrypting, Idle
  <2>3. /\ call' \in Calls
        /\ call'.op = "none" => call'.todo = {}
        /\ call'.op \in {"move", "copy", "remove source"} => call'.from \in Entries
        /\ call'.op \in {"copy", "reencrypt", "readable"} => call'.todo # {}
        /\ call'.op # "copy"
    BY <2>1, <2>2, WrittenType
  <2> QED BY <1>1, <2>2, <2>3 DEF Typed, TypeOK, Placed, Idle, recipients
<1> QED BY <1>2, <1>3, <1>4

LEMMA RecipientsKeepType ==
  ASSUME Typed, SetRootRecipients \/ PullRecipients
  PROVE  Typed'
<1>1. /\ recips' \in [Dirs -> SUBSET Keys] /\ out' \subseteq Keys /\ keyed' = keyed \cup {Root}
      /\ format' = format
  BY DEF SetRootRecipients, PullRecipients, Typed, TypeOK
<1>2. /\ UNCHANGED <<files, dirs, litter, call, staged, live, texts, failures, crashes>>
      /\ pulls' \in Nat
  BY DEF SetRootRecipients, PullRecipients, MaySync, counters, Typed, TypeOK
<1> QED BY <1>1, <1>2 DEF Typed, TypeOK, Placed, Idle

\* Every step keeps the types.
LEMMA StepKeepsType ==
  ASSUME Typed, [Next]_vars
  PROVE  Typed'
<1>1. CASE UNCHANGED vars
  BY <1>1 DEF vars, tree, counters, recipients, Typed, TypeOK, Placed, Idle
<1> QED BY <1>1, RenameKeepsType, FailureKeepsType, EditKeepsType, MoveKeepsType,
           MoveRefusedKeepsType, CopyKeepsType, ReencryptKeepsType, RecipientsKeepType DEF Next

LEMMA AlwaysTyped == Spec => []Typed
<1>1. Init => Typed
  BY InitHasType
<1>2. Typed /\ [Next]_vars => Typed'
  BY StepKeepsType
<1> QED BY <1>1, <1>2, PTL DEF Spec

\* Whatever fails and wherever the app is killed, every variable keeps its type
\* and every file, recipients file and temporary file a directory to stand in.
THEOREM TypeCorrect == Spec => []TypeOK
<1>1. Typed => TypeOK
  BY DEF Typed
<1> QED BY <1>1, AlwaysTyped, PTL

(***************************************************************************)
(* A save or a move stages one ciphertext, to the keys of its entry.  A    *)
(* re-encryption is at the first of the entries it has to do; those are as *)
(* they were, and the others as a finished re-encryption leaves them.      *)
(***************************************************************************)
StagesOne ==
  call.op \in {"write", "move"} => \E f \in staged : staged = {f} /\ f[2][2] = Readers(f[1])

Reencryption ==
  call.op \in {"reencrypt", "readable"} =>
    /\ \A e \in call.todo : /\ files[e] = call.before[e] /\ files[e] # Absent
                            /\ call.sub \in Ancestors(Home[e])
    /\ \A e \in Entries \ call.todo : Settled(e, files[e])
    /\ \/ staged = {}
       \/ /\ staged = {<<Target, <<Text(files[Target]), Readers(Target)>>>>}
          /\ Opens(files[Target])

Underway == StagesOne /\ Reencryption

\* While no recipients file changes, nor do the keys of an entry.
LEMMA ReadersStay ==
  ASSUME UNCHANGED recipients
  PROVE  \A e : Readers(e)' = Readers(e)
BY DEF recipients, Readers, Listed, Source

\* An entry to do, once written or passed over, is settled.
LEMMA TargetSettles ==
  ASSUME Typed, Reencryption, call.op \in {"reencrypt", "readable"},
         \/ Opens(files[Target]) /\ files' = [files EXCEPT ![Target] = <<Text(files[Target]), Readers(Target)>>]
         \/ ~Opens(files[Target]) /\ call.op = "readable" /\ files' = files
  PROVE  /\ Target \in call.todo
         /\ \A e \in (Entries \ call.todo) \cup {Target} : Settled(e, files'[e])
         /\ \A e \in call.todo \ {Target} : files'[e] = files[e]
<1>1. Target \in call.todo /\ Target \in Entries
  BY TargetIsToDo DEF Typed, TypeOK, Placed, Calls
<1> DEFINE t == Target
<1>2. files[t] = call.before[t] /\ call.sub \in Ancestors(Home[t])
  BY <1>1 DEF Reencryption
<1> HIDE DEF t
<1>3. \A e \in Entries \ {t} : files'[e] = files[e]
  BY DEF t, Typed, TypeOK
<1>4. \/ Opens(files[t]) /\ files'[t] = <<Text(files[t]), Readers(t)>>
      \/ ~Opens(files[t]) /\ call.op = "readable" /\ files'[t] = files[t]
  BY <1>1 DEF t, Typed, TypeOK
<1>5. Settled(t, files'[t])
  BY <1>2, <1>4 DEF Settled
<1>6. \A e \in Entries \ call.todo : Settled(e, files'[e])
  BY <1>1, <1>3 DEF t, Reencryption
<1>7. call.todo \subseteq Entries
  BY DEF Typed, TypeOK, Calls
<1> QED BY <1>1, <1>3, <1>5, <1>6, <1>7 DEF t

\* What the step that settles an entry does.
LEMMA SettlingStep ==
  ASSUME Typed, Reencryption, call.op \in {"reencrypt", "readable"}, Rename \/ SkipUnreadable
  PROVE  /\ \/ Opens(files[Target]) /\ files' = [files EXCEPT ![Target] = <<Text(files[Target]), Readers(Target)>>]
            \/ ~Opens(files[Target]) /\ call.op = "readable" /\ files' = files
         /\ \/ call.todo = {Target} /\ call'.op = "none"
            \/ call.todo # {Target} /\ call' = [call EXCEPT !.todo = call.todo \ {Target}]
         /\ staged' = {} /\ UNCHANGED recipients
<1>1. CASE Rename
  <2>1. PICK f \in staged : /\ files' = [files EXCEPT ![f[1]] = f[2]]
                            /\ Written(f[1])
    BY <1>1 DEF Rename
  <2>2. staged = {<<Target, <<Text(files[Target]), Readers(Target)>>>>} /\ Opens(files[Target])
    BY <2>1 DEF Reencryption
  <2>3. f[1] = Target /\ f[2] = <<Text(files[Target]), Readers(Target)>>
    BY <2>1, <2>2
  <2>4. \/ call.todo = {Target} /\ call'.op = "none"
        \/ call.todo # {Target} /\ call' = [call EXCEPT !.todo = call.todo \ {Target}]
    BY <2>1, <2>3, NoCallType DEF Written, Return
  <2> QED BY <1>1, <2>1, <2>2, <2>3, <2>4 DEF Rename
<1>2. CASE SkipUnreadable
  <2>1. \/ call.todo = {Target} /\ call'.op = "none"
        \/ call.todo # {Target} /\ call' = [call EXCEPT !.todo = call.todo \ {Target}]
    BY <1>2, NoCallType DEF SkipUnreadable, Written, Return
  <2> QED BY <1>2, <2>1 DEF SkipUnreadable, Reencrypting, tree
<1> QED BY <1>1, <1>2

LEMMA SettlingKeepsUnderway ==
  ASSUME Typed, Reencryption, call.op \in {"reencrypt", "readable"}, Rename \/ SkipUnreadable
  PROVE  Underway'
<1>1. \/ Opens(files[Target]) /\ files' = [files EXCEPT ![Target] = <<Text(files[Target]), Readers(Target)>>]
      \/ ~Opens(files[Target]) /\ call.op = "readable" /\ files' = files
  BY SettlingStep
<1>2. /\ Target \in call.todo
      /\ \A e \in (Entries \ call.todo) \cup {Target} : Settled(e, files'[e])
      /\ \A e \in call.todo \ {Target} : files'[e] = files[e]
  BY <1>1, TargetSettles
<1>3. CASE call'.op = "none"
  BY <1>3 DEF Underway, StagesOne, Reencryption
<1>4. CASE call' = [call EXCEPT !.todo = call.todo \ {Target}]
  <2> DEFINE t == Target
  <2>1. /\ call'.op = call.op /\ call'.todo = call.todo \ {t}
        /\ call'.sub = call.sub /\ call'.before = call.before
    BY <1>4 DEF Typed, TypeOK, Calls
  <2>2. \A e : Readers(e)' = Readers(e)
    BY SettlingStep, ReadersStay
  <2>3. \A e \in Entries : Settled(e, files'[e]) => Settled(e, files[e])'
    BY <2>1, <2>2 DEF Settled, Opens, Text
  <2>4. staged' = {}
    BY SettlingStep
  <2> HIDE DEF t
  <2> QED BY <1>2, <2>1, <2>3, <2>4 DEF Underway, StagesOne, Reencryption, t
<1> QED BY <1>3, <1>4, SettlingStep

LEMMA StepKeepsUnderway ==
  ASSUME Typed, Underway, [Next]_vars
  PROVE  Underway'
<1> USE DEF Underway
<1>1. CASE call'.op \in {"none", "copy", "remove source"}
  BY <1>1 DEF StagesOne, Reencryption
<1>2. CASE Rename
  <2>1. CASE call.op \in {"reencrypt", "readable"}
    BY <1>2, <2>1, SettlingKeepsUnderway
  <2>2. CASE call.op \in {"write", "move"}
    <3>1. PICK f \in staged : Written(f[1])
      BY <1>2 DEF Rename
    <3>2. CASE call.op = "write"
      <4>1. Return(TRUE)
        BY <3>1, <3>2 DEF Written
      <4> QED BY <1>1, <4>1, NoCallType DEF Return
    <3>3. CASE call.op = "move"
      <4>1. call' = [call EXCEPT !.op = "remove source"]
        BY <3>1, <3>3 DEF Written
      <4>2. call'.op = "remove source"
        BY <4>1 DEF Typed, TypeOK, Calls
      <4> QED BY <1>1, <4>2
    <3> QED BY <2>2, <3>2, <3>3
  <2>3. call.op \notin {"none", "copy", "remove source"}
    BY <1>2 DEF Rename, Typed, Placed
  <2> QED BY <2>1, <2>2, <2>3 DEF Typed, TypeOK, Calls, Ops
<1>3. CASE SkipUnreadable
  BY <1>3, SettlingKeepsUnderway DEF SkipUnreadable, Reencrypting
<1>4. ASSUME NEW e \in Entries, Write(e)
      PROVE  Underway'
  <2>1. call'.op = "write" /\ staged' = {<<e, <<texts + 1, Readers(e)>>>>} /\ UNCHANGED recipients
    BY <1>4 DEF Write, NoCall
  <2> QED BY <2>1, ReadersStay DEF StagesOne, Reencryption
<1>5. ASSUME NEW from \in Entries, NEW to \in Entries, Move(from, to)
      PROVE  Underway'
  <2>1. CASE call'.op = "move" /\ staged' = {<<to, <<Text(files[from]), Readers(to)>>>>} /\ UNCHANGED recipients
    BY <2>1, ReadersStay DEF StagesOne, Reencryption
  <2> QED BY <1>1, <1>5, <2>1 DEF Move, NoCall
<1>6. ASSUME NEW op \in {"reencrypt", "readable"}, NEW sub \in Dirs, Reencrypt(op, sub)
      PROVE  Underway'
  <2>1. NoCall \in Calls
    BY StoreAssumption DEF NoCall, Calls, Ops
  <2>2. /\ call'.op = op /\ call'.sub = sub /\ call'.todo = Targets(sub) /\ call'.before = files
        /\ files' = files
    BY <1>6, <2>1 DEF Reencrypt, Calls, tree
  <2>3. staged' = {}
    BY <1>6 DEF Reencrypt, Typed, TypeOK, Idle
  <2>4. ASSUME NEW e \in Entries \ call'.todo
        PROVE  Settled(e, files[e])'
    BY <2>2, <2>4 DEF Targets, Settled, Opens
  <2> QED BY <2>2, <2>3, <2>4 DEF StagesOne, Reencryption, Targets
<1>7. CASE ReencryptTarget
  <2>1. /\ call.op \in {"reencrypt", "readable"} /\ call' = call /\ files' = files
        /\ Opens(files[Target])
        /\ staged' = {<<Target, <<Text(files[Target]), Readers(Target)>>>>} /\ UNCHANGED recipients
    BY <1>7 DEF ReencryptTarget, Reencrypting, tree
  <2>2. Target' = Target
    BY <2>1 DEF Target
  <2>3. \A e : Readers(e)' = Readers(e)
    BY <2>1, ReadersStay
  <2>4. \A e \in Entries : Settled(e, files[e])' <=> Settled(e, files[e])
    BY <2>1, <2>3 DEF Settled, Opens, Text
  <2> QED BY <2>1, <2>2, <2>3, <2>4 DEF StagesOne, Reencryption, Opens, Text
<1>8. CASE UNCHANGED vars
  <2>1. call' = call /\ files' = files /\ staged' = staged /\ UNCHANGED recipients
    BY <1>8 DEF vars, tree
  <2>2. Target' = Target /\ \A e : Readers(e)' = Readers(e)
    BY <2>1, ReadersStay DEF Target
  <2>3. \A e \in Entries : Settled(e, files[e])' <=> Settled(e, files[e])
    BY <2>1, <2>2 DEF Settled, Opens, Text
  <2> QED BY <2>1, <2>2, <2>3 DEF StagesOne, Reencryption, Opens, Text
<1>9. CASE \/ AtomicWriteFails \/ EndCopy \/ RemoveSource \/ MoveFails \/ ReencryptFails
           \/ \E e \in Entries : Remove(e) \/ PullEntry(e)
           \/ \E from, to \in Entries : MoveRefused(from, to)
           \/ SetRootRecipients \/ SetRootRecipientsFails \/ PullRecipients \/ Crash
  <2>1. call'.op \in {"none", "copy", "remove source"}
    BY <1>9, NoCallType DEF AtomicWriteFails, EndCopy, RemoveSource, MoveFails, ReencryptFails,
       CallFails, Remove, PullEntry, MoveRefused, SetRootRecipients, SetRootRecipientsFails,
       PullRecipients, MaySync, Crash, Return, Idle, Typed, TypeOK, Calls
  <2> QED BY <1>1, <2>1
<1> QED BY <1>2, <1>3, <1>4, <1>5, <1>6, <1>7, <1>8, <1>9 DEF Next

LEMMA AlwaysUnderway == Spec => [](Typed /\ Underway)
<1>1. Init => Underway
  BY DEF Init, NoCall, Underway, StagesOne, Reencryption
<1>2. Underway /\ Typed /\ [Next]_vars => Underway'
  BY StepKeepsUnderway
<1> QED BY <1>1, <1>2, AlwaysTyped, PTL DEF Spec

\* The step that ends a re-encryption with Ok has settled every entry.
LEMMA SuccessIsExact ==
  ASSUME Typed, Underway, Next,
         call.op \in {"reencrypt", "readable"}, call'.op = "none", call'.ok
  PROVE  \A e \in Entries : Settled(e, files'[e])
<1>1. CASE Rename \/ SkipUnreadable
  <2>1. \/ Opens(files[Target]) /\ files' = [files EXCEPT ![Target] = <<Text(files[Target]), Readers(Target)>>]
        \/ ~Opens(files[Target]) /\ call.op = "readable" /\ files' = files
    BY <1>1, SettlingStep DEF Underway
  <2>2. /\ Target \in call.todo
        /\ \A e \in (Entries \ call.todo) \cup {Target} : Settled(e, files'[e])
    BY <2>1, TargetSettles DEF Underway
  <2>3. call.todo = {Target}
    <3>1. call.todo # {Target} => call'.op = call.op
      BY <1>1, SettlingStep DEF Underway, Typed, TypeOK, Calls
    <3> QED BY <3>1
  <2> QED BY <2>2, <2>3
<1>2. CASE ~(Rename \/ SkipUnreadable)
  <2>1. ~Idle
    BY DEF Idle
  <2>2. call' = [NoCall EXCEPT !.ok = FALSE] \/ call' = call
    BY <1>2, <2>1 DEF Next, AtomicWriteFails, EndCopy, RemoveSource, MoveFails, ReencryptFails,
       CallFails, Write, Remove, PullEntry, Move, MoveRefused, Reencrypt, ReencryptTarget,
       SetRootRecipients, SetRootRecipientsFails, PullRecipients, MaySync, Crash, Return
  <2>3. [NoCall EXCEPT !.ok = FALSE].ok = FALSE
    <3>1. NoCall \in Calls
      BY StoreAssumption DEF NoCall, Calls, Ops
    <3> QED BY <3>1 DEF Calls
  <2> QED BY <2>2, <2>3
<1> QED BY <1>1, <1>2

\* A re-encryption that returns Ok has re-encrypted every entry below its
\* directory that this device could open, at the version it began with, to
\* exactly the recipients resolved for it, and has touched no other, however
\* many entries there are and whatever failed before.
THEOREM ReencryptionIsExact == Spec => ReencryptedExactly
<1>1. Typed /\ Underway /\ [Next]_vars =>
        [call.op \in {"reencrypt", "readable"} /\ call'.op = "none" /\ call'.ok =>
           \A e \in Entries : Settled(e, files'[e])]_vars
  BY SuccessIsExact
<1> QED BY <1>1, AlwaysUnderway, PTL DEF Spec, ReencryptedExactly

(***************************************************************************)
(* A key that is shut out is not the device's own and in no recipients     *)
(* file, so that no entry is encrypted to it, and whatever lists it again  *)
(* takes it back.                                                          *)
(***************************************************************************)
ShutOut ==
  /\ out \cap (Own \cup UNION {recips[d] : d \in Dirs}) = {}
  /\ \A d \in Dirs \ keyed : recips[d] = {}

\* What is staged is staged to the keys of its entry, which are not shut out.
LEMMA StagedReadersAreNotOut ==
  ASSUME Typed, Underway, ShutOut, NEW f \in staged
  PROVE  f[2][2] = Readers(f[1]) /\ f[2][2] \cap out = {} /\ f[1] \in Entries
<1>1. f[1] \in Entries
  BY DEF Typed, TypeOK
<1>2. Readers(f[1]) \cap out = {}
  <2>1. Readers(f[1]) \subseteq Own \cup UNION {recips[d] : d \in keyed}
    BY <1>1, ReadersAreKeys DEF Typed
  <2>2. keyed \subseteq Dirs
    BY DEF Typed, TypeOK
  <2> QED BY <2>1, <2>2 DEF ShutOut
<1>3. f[2][2] = Readers(f[1])
  <2>1. CASE call.op \in {"write", "move"}
    BY <2>1 DEF Underway, StagesOne
  <2>2. CASE call.op \in {"reencrypt", "readable"}
    BY <2>2 DEF Underway, Reencryption
  <2>3. call.op \notin {"none", "copy", "remove source"}
    BY DEF Typed, Placed
  <2> QED BY <2>1, <2>2, <2>3 DEF Typed, TypeOK, Calls, Ops
<1> QED BY <1>1, <1>2, <1>3

\* Once the whole store is re-encrypted only the keys in use open an entry.
LEMMA WholeStoreShutsOut ==
  ASSUME Typed, Underway, ShutOut, Rename,
         call.op = "reencrypt", call.sub = Root, NEW f \in staged, call.todo = {f[1]}
  PROVE  \A e \in Entries : files'[e] # Absent =>
           files'[e][2] \subseteq Own \cup UNION {recips[d] : d \in keyed}
<1>1. f[1] = Target
  BY DEF Underway, Reencryption
<1>2. Opens(files[Target]) /\ files' = [files EXCEPT ![Target] = <<Text(files[Target]), Readers(Target)>>]
  BY SettlingStep DEF Underway, Reencryption, Opens
<1>3. \A e \in Entries : Settled(e, files'[e])
  BY <1>1, <1>2, TargetSettles DEF Underway
<1>4. ASSUME NEW e \in Entries, files'[e] # Absent
      PROVE  files'[e][2] \subseteq Own \cup UNION {recips[d] : d \in keyed}
  <2>1. call.sub \in Ancestors(Home[e])
    BY AncestorsReach, StoreAssumption
  <2>2. files'[e] = <<Text(call.before[e]), Readers(e)>>
    BY <1>3, <1>4, <2>1 DEF Settled
  <2> QED BY <2>2, ReadersAreKeys DEF Typed
<1> QED BY <1>4

LEMMA RenameKeepsOut ==
  ASSUME Typed, Underway, ShutOut, RemovedKeysStayOut, Rename
  PROVE  ShutOut' /\ RemovedKeysStayOut'
<1>1. PICK f \in staged :
        /\ files' = [files EXCEPT ![f[1]] = f[2]]
        /\ out' = IF call.op = "reencrypt" /\ call.sub = Root /\ call.todo = {f[1]}
                  THEN Keys \ (Own \cup UNION {recips[d] : d \in keyed}) ELSE out
  BY DEF Rename
<1>2. recips' = recips /\ keyed' = keyed
  BY DEF Rename, recipients
<1>3. CASE out' = out
  <2>1. \A e \in Entries : files'[e] = files[e] \/ files'[e] = f[2]
    BY <1>1 DEF Typed, TypeOK
  <2>2. f[2][2] \cap out = {}
    BY StagedReadersAreNotOut
  <2>3. RemovedKeysStayOut'
    BY <1>3, <2>1, <2>2 DEF RemovedKeysStayOut
  <2> QED BY <1>2, <1>3, <2>3 DEF ShutOut
<1>4. CASE call.op = "reencrypt" /\ call.sub = Root /\ call.todo = {f[1]}
  <2> DEFINE used == Own \cup UNION {recips[d] : d \in keyed}
  <2>1. out' = Keys \ used
    BY <1>1, <1>4
  <2>2. \A e \in Entries : files'[e] # Absent => files'[e][2] \subseteq used
    BY <1>4, WholeStoreShutsOut
  <2>3. Own \cup UNION {recips[d] : d \in Dirs} = used
    BY DEF ShutOut, Typed, TypeOK
  <2>4. ShutOut'
    BY <1>2, <2>1, <2>3 DEF ShutOut
  <2>5. RemovedKeysStayOut'
    <3> HIDE DEF used
    <3> QED BY <2>1, <2>2 DEF RemovedKeysStayOut
  <2> QED BY <2>4, <2>5
<1> QED BY <1>1, <1>3, <1>4

LEMMA StepKeepsOut ==
  ASSUME Typed, Underway, ShutOut, RemovedKeysStayOut, [Next]_vars
  PROVE  ShutOut' /\ RemovedKeysStayOut'
<1>1. CASE recips' = recips /\ keyed' = keyed /\ out' = out
           /\ \A e \in Entries : \/ files'[e] \in {Absent, Damaged}
                                 \/ \E f \in Entries : files'[e] = files[f]
  <2>1. Damaged[2] = {}
    BY DEF Damaged
  <2> QED BY <1>1, <2>1 DEF ShutOut, RemovedKeysStayOut
<1>2. CASE Rename
  BY <1>2, RenameKeepsOut
<1>3. ASSUME NEW e \in Entries, PullEntry(e)
      PROVE  ShutOut' /\ RemovedKeysStayOut'
  <2>1. recips' = recips /\ keyed' = keyed
    BY <1>3 DEF PullEntry, recipients
  <2>2. PICK K \in SUBSET Keys : /\ out' = out \ K
                                 /\ files' = [files EXCEPT ![e] = <<texts + 1, K>>]
                                    \/ files' = [files EXCEPT ![e] = Absent]
    <3>1. CASE out' = out /\ files' = [files EXCEPT ![e] = Absent]
      <4>1. out' = out \ {} /\ {} \in SUBSET Keys
        BY <3>1
      <4> QED BY <3>1, <4>1
    <3>2. CASE \E K \in SUBSET Keys \ {{}} :
                 files' = [files EXCEPT ![e] = <<texts + 1, K>>] /\ out' = out \ K
      BY <3>2
    <3> QED BY <1>3, <3>1, <3>2 DEF PullEntry
  <2>3. \A x \in Entries : files'[x] = files[x] \/ files'[x] \in {Absent, <<texts + 1, K>>}
    BY <2>2 DEF Typed, TypeOK
  <2>4. RemovedKeysStayOut'
    BY <2>2, <2>3 DEF RemovedKeysStayOut
  <2> QED BY <2>1, <2>2, <2>4 DEF ShutOut
<1>4. CASE SetRootRecipients \/ PullRecipients
  <2>1. files' = files /\ keyed' = keyed \cup {Root}
    BY <1>4 DEF SetRootRecipients, PullRecipients
  <2>2. \E K \in SUBSET Keys, L \in SUBSET Keys :
          recips' = [recips EXCEPT ![Root] = K] /\ K \subseteq recips[Root] \cup L /\ out' = out \ L
    <3>1. CASE PullRecipients
      BY <3>1 DEF PullRecipients
    <3>2. CASE SetRootRecipients
      <4>1. PICK k \in Keys :
              /\ recips' = [recips EXCEPT ![Root] = recips[Root] \cup {k}]
                 \/ recips' = [recips EXCEPT ![Root] = recips[Root] \ {k}]
              /\ out' = out \ {k}
        BY <3>2 DEF SetRootRecipients
      <4>2. recips[Root] \subseteq Keys
        BY StoreAssumption DEF Typed, TypeOK
      <4> QED BY <4>1, <4>2
    <3> QED BY <1>4, <3>1, <3>2
  <2>3. PICK K \in SUBSET Keys, L \in SUBSET Keys :
          recips' = [recips EXCEPT ![Root] = K] /\ K \subseteq recips[Root] \cup L /\ out' = out \ L
    BY <2>2
  <2>4. \A d \in Dirs : recips'[d] = IF d = Root THEN K ELSE recips[d]
    BY <2>3 DEF Typed, TypeOK
  <2>5. ShutOut'
    BY <2>1, <2>3, <2>4, StoreAssumption DEF ShutOut
  <2> QED BY <2>1, <2>3, <2>5 DEF RemovedKeysStayOut
<1>5. CASE \/ AtomicWriteFails \/ EndCopy \/ RemoveSource \/ MoveFails
           \/ \E e \in Entries : Write(e) \/ Remove(e)
           \/ \E from, to \in Entries : Move(from, to) \/ MoveRefused(from, to)
           \/ \E op \in {"reencrypt", "readable"}, sub \in Dirs : Reencrypt(op, sub)
           \/ ReencryptTarget \/ SkipUnreadable \/ ReencryptFails
           \/ SetRootRecipientsFails \/ Crash \/ UNCHANGED vars
  <2>1. recips' = recips /\ keyed' = keyed /\ out' = out
    BY <1>5 DEF AtomicWriteFails, EndCopy, RemoveSource, MoveFails, ReencryptFails, CallFails,
       Write, Remove, Move, MoveRefused, Reencrypt, ReencryptTarget, SkipUnreadable,
       SetRootRecipientsFails, Crash, vars, tree, recipients
  <2>2. \/ files' = files
        \/ \E x \in Entries : \/ files' = [files EXCEPT ![x] = Absent]
                              \/ files' = [files EXCEPT ![x] = Damaged]
                              \/ \E y \in Entries : files' = [files EXCEPT ![x] = files[y]]
    <3>1. call.op \in {"copy", "remove source"} => call.from \in Entries
      BY DEF Typed, Placed
    <3>2. call.todo \subseteq Entries
      BY DEF Typed, TypeOK, Calls
    <3> QED BY <1>5, <3>1, <3>2 DEF AtomicWriteFails, EndCopy, RemoveSource, MoveFails,
       ReencryptFails, CallFails, Write, Remove, Move, MoveRefused, Reencrypt, ReencryptTarget,
       SkipUnreadable, SetRootRecipientsFails, Crash, vars, tree
  <2>3. \A e \in Entries : \/ files'[e] \in {Absent, Damaged}
                           \/ \E f \in Entries : files'[e] = files[f]
    BY <2>2 DEF Typed, TypeOK
  <2> QED BY <1>1, <2>1, <2>3
<1> QED BY <1>2, <1>3, <1>4, <1>5 DEF Next

\* Whatever is saved, moved, re-encrypted or pulled, and wherever it fails, no
\* entry can be opened by a key that a re-encryption of the whole store shut out
\* and nobody has listed since.
THEOREM RemovedKeysNeverReturn == Spec => []RemovedKeysStayOut
<1>1. Init => ShutOut /\ RemovedKeysStayOut
  BY DEF Init, ShutOut, RemovedKeysStayOut
<1>2. ShutOut /\ RemovedKeysStayOut /\ Typed /\ Underway /\ [Next]_vars
        => (ShutOut /\ RemovedKeysStayOut)'
  BY StepKeepsOut
<1> QED BY <1>1, <1>2, AlwaysUnderway, PTL DEF Spec

(***************************************************************************)
(* No version is lost.  While a move is under way the versions nobody gave *)
(* up are all outside its destination, until that is written, and then all *)
(* outside its source.  That is where the source and the destination must  *)
(* differ.                                                                 *)
(***************************************************************************)
TextsElsewhere(e) == UNION {TextsOf(f) : f \in Entries \ {e}}

Moving ==
  /\ call.op = "move" =>
       /\ files[call.from] # Absent
       /\ \E to \in Entries \ {call.from} :
            /\ staged = {<<to, <<Text(files[call.from]), Readers(to)>>>>}
            /\ live \subseteq TextsElsewhere(to)
  /\ call.op = "copy" =>
       /\ files[call.from] # Absent
       /\ \E to \in Entries \ {call.from} : call.todo = {to} /\ live \subseteq TextsElsewhere(to)
  /\ call.op = "remove source" => live \subseteq TextsElsewhere(call.from)

Kept == EveryVersionKept /\ Moving

\* Replacing the file of an entry leaves every other file's version where it was.
LEMMA OtherTextsStay ==
  ASSUME TypeOK, NEW e \in Entries, NEW c, files' = [files EXCEPT ![e] = c]
  PROVE  /\ \A f \in Entries \ {e} : TextsOf(f)' = TextsOf(f)
         /\ c # Absent => TextsOf(e)' = {Text(c)}
<1>1. \A f \in Entries : files'[f] = IF f = e THEN c ELSE files[f]
  BY DEF TypeOK
<1> QED BY <1>1 DEF TextsOf, Text

\* A version kept outside an entry stays in the store when that entry is
\* replaced, and outside another entry if the new file holds what that one did.
LEMMA ReplacingKeeps ==
  ASSUME TypeOK, NEW e \in Entries, NEW c, files' = [files EXCEPT ![e] = c],
         live' = live, live \subseteq TextsElsewhere(e)
  PROVE  /\ EveryVersionKept'
         /\ \A f \in Entries \ {e} :
              files[f] # Absent /\ c # Absent /\ Text(c) = Text(files[f])
                => live' \subseteq TextsElsewhere(f)'
<1>1. /\ \A f \in Entries \ {e} : TextsOf(f)' = TextsOf(f)
      /\ c # Absent => TextsOf(e)' = {Text(c)}
  BY OtherTextsStay
<1>2. \A v \in live : \E f \in Entries \ {e} : v \in TextsOf(f)
  BY DEF TextsElsewhere
<1>3. EveryVersionKept'
  BY <1>1, <1>2 DEF EveryVersionKept
<1>4. ASSUME NEW f \in Entries \ {e},
             files[f] # Absent, c # Absent, Text(c) = Text(files[f]), NEW v \in live
      PROVE  \E g \in Entries \ {f} : v \in TextsOf(g)'
  <2>1. PICK g \in Entries \ {e} : v \in TextsOf(g)
    BY <1>2
  <2>2. CASE g = f
    <3>1. v = Text(c)
      BY <1>4, <2>1, <2>2 DEF TextsOf
    <3> QED BY <1>1, <1>4, <3>1
  <2> QED BY <1>1, <2>1, <2>2
<1> QED BY <1>3, <1>4 DEF TextsElsewhere

LEMMA RenameKeepsVersions ==
  ASSUME Typed, Underway, Kept, Rename
  PROVE  Kept'
<1>1. PICK f \in staged :
        /\ files' = [files EXCEPT ![f[1]] = f[2]]
        /\ live' = IF call.op = "write" THEN (live \ TextsOf(f[1])) \cup {Text(f[2])} ELSE live
        /\ Written(f[1])
  BY DEF Rename
<1>2. f[1] \in Entries /\ f[2] \in Ciphertexts /\ f[2] # Absent
  BY CiphertextIsThere DEF Typed, TypeOK
<1>3. /\ \A e \in Entries \ {f[1]} : TextsOf(e)' = TextsOf(e)
      /\ TextsOf(f[1])' = {Text(f[2])}
  BY <1>1, <1>2, OtherTextsStay DEF Typed
<1>4. CASE call.op = "write"
  <2>1. call'.op = "none"
    BY <1>1, <1>4, NoCallType DEF Written, Return
  <2>2. EveryVersionKept'
    BY <1>1, <1>2, <1>3, <1>4 DEF Kept, EveryVersionKept
  <2> QED BY <2>1, <2>2 DEF Kept, Moving
<1>5. CASE call.op = "move"
  <2>0. PICK from \in Entries : from = call.from
    BY <1>5 DEF Typed, Placed
  <2>1. /\ call'.op = "remove source" /\ call'.from = from /\ live' = live
        /\ files[from] # Absent
    BY <1>1, <1>5, <2>0 DEF Written, Kept, Moving, Typed, TypeOK, Placed, Calls
  <2>2. f[1] # from /\ Text(f[2]) = Text(files[from]) /\ live \subseteq TextsElsewhere(f[1])
    BY <1>1, <1>5, <2>0 DEF Kept, Moving, Text
  <2>3. EveryVersionKept' /\ live' \subseteq TextsElsewhere(from)'
    <3> DEFINE e == f[1]
               c == f[2]
    <3>1. /\ e \in Entries /\ files' = [files EXCEPT ![e] = c]
          /\ live' = live /\ live \subseteq TextsElsewhere(e)
      BY <1>1, <1>2, <2>1, <2>2
    <3>2. from \in Entries \ {e} /\ files[from] # Absent /\ c # Absent /\ Text(c) = Text(files[from])
      BY <1>2, <2>1, <2>2
    <3>3. TypeOK
      BY DEF Typed
    <3> HIDE DEF e, c
    <3>4. /\ EveryVersionKept'
          /\ \A g \in Entries \ {e} :
               files[g] # Absent /\ c # Absent /\ Text(c) = Text(files[g])
                 => live' \subseteq TextsElsewhere(g)'
      BY <3>1, <3>3, ReplacingKeeps
    <3> QED BY <3>2, <3>4
  <2> QED BY <2>1, <2>3 DEF Kept, Moving, TextsElsewhere
<1>6. CASE call.op \in {"reencrypt", "readable"}
  <2>1. f[1] = Target /\ f[2] = <<Text(files[Target]), Readers(Target)>> /\ files[Target] # Absent
    BY <1>6 DEF Underway, Reencryption, Opens
  <2>2. TextsOf(f[1])' = TextsOf(f[1]) /\ live' = live
    BY <1>1, <1>3, <1>6, <2>1 DEF TextsOf, Text
  <2>3. EveryVersionKept'
    BY <1>2, <1>3, <2>2 DEF Kept, EveryVersionKept
  <2>4. call'.op \in {"none", "reencrypt", "readable"}
    BY <1>6, SettlingStep DEF Underway, Rename, Typed, TypeOK, Calls
  <2> QED BY <2>3, <2>4 DEF Kept, Moving
<1>7. call.op \notin {"none", "copy", "remove source"}
  BY <1>1 DEF Typed, Placed
<1> QED BY <1>4, <1>5, <1>6, <1>7 DEF Typed, TypeOK, Calls, Ops

LEMMA MoveKeepsVersions ==
  ASSUME ~SelfMoves, Typed, Kept, NEW from \in Entries, NEW to \in Entries, Move(from, to)
  PROVE  Kept'
<1>1. /\ from # to /\ files[from] # Absent /\ live' = live \ (TextsOf(to) \ TextsOf(from))
  BY DEF Move
<1>2. live' \subseteq TextsElsewhere(to)
  <2>1. ASSUME NEW v \in live'
        PROVE  \E e \in Entries \ {to} : v \in TextsOf(e)
    <3>1. PICK e \in Entries : v \in TextsOf(e)
      BY <1>1 DEF Kept, EveryVersionKept
    <3> QED BY <1>1, <3>1
  <2> QED BY <2>1 DEF TextsElsewhere
<1>3. NoCall \in Calls
  BY StoreAssumption DEF NoCall, Calls, Ops
<1>4. CASE /\ staged' = {<<to, <<Text(files[from]), Readers(to)>>>>}
           /\ call' = [NoCall EXCEPT !.op = "move", !.from = from] /\ files' = files
  <2>1. call'.op = "move" /\ call'.from = from
    BY <1>3, <1>4 DEF Calls
  <2>2. \A e : Readers(e)' = Readers(e)
    BY ReadersStay DEF Move
  <2>3. \A e \in Entries : TextsOf(e)' = TextsOf(e)
    BY <1>4 DEF TextsOf, Text
  <2>4. live' \subseteq TextsElsewhere(to)'
    BY <1>2, <2>3 DEF TextsElsewhere
  <2>5. EveryVersionKept'
    BY <1>2, <2>3 DEF TextsElsewhere, EveryVersionKept
  <2> QED BY <1>1, <1>4, <2>1, <2>2, <2>4, <2>5 DEF Kept, Moving, Text
<1>5. CASE /\ files' = [files EXCEPT ![to] = Damaged]
           /\ call' = [NoCall EXCEPT !.op = "copy", !.from = from, !.todo = {to}]
  <2>1. call'.op = "copy" /\ call'.from = from /\ call'.todo = {to}
    BY <1>3, <1>5 DEF Calls
  <2>2. \A e \in Entries \ {to} : TextsOf(e)' = TextsOf(e)
    BY <1>5, OtherTextsStay DEF Typed
  <2>3. files'[from] # Absent
    BY <1>1, <1>5 DEF Typed, TypeOK
  <2>4. live' \subseteq TextsElsewhere(to)'
    BY <1>2, <2>2 DEF TextsElsewhere
  <2>5. EveryVersionKept'
    BY <2>4 DEF TextsElsewhere, EveryVersionKept
  <2> QED BY <1>1, <2>1, <2>3, <2>4, <2>5 DEF Kept, Moving
<1> QED BY <1>4, <1>5 DEF Move

LEMMA StepKeepsVersions ==
  ASSUME ~SelfMoves, Typed, Underway, Kept, [Next]_vars
  PROVE  Kept'
<1>1. CASE Rename
  BY <1>1, RenameKeepsVersions
<1>2. ASSUME NEW from \in Entries, NEW to \in Entries, Move(from, to)
      PROVE  Kept'
  BY <1>2, MoveKeepsVersions
<1>3. ASSUME NEW e \in Entries, Remove(e) \/ PullEntry(e)
      PROVE  Kept'
  <2>1. call'.op = "none"
    BY <1>3 DEF Remove, PullEntry, MaySync, Idle
  <2>2. PICK c : /\ files' = [files EXCEPT ![e] = c]
                 /\ \/ live' = live \ TextsOf(e)
                    \/ live' = (live \ TextsOf(e)) \cup {Text(c)} /\ c # Absent
    BY <1>3, CiphertextIsThere DEF Remove, PullEntry, Text
  <2>3. /\ \A f \in Entries \ {e} : TextsOf(f)' = TextsOf(f)
        /\ c # Absent => TextsOf(e)' = {Text(c)}
    BY <2>2, OtherTextsStay DEF Typed
  <2>4. EveryVersionKept'
    BY <2>2, <2>3 DEF Kept, EveryVersionKept
  <2> QED BY <2>1, <2>4 DEF Kept, Moving
<1>4. CASE EndCopy
  <2>0. PICK from \in Entries : from = call.from
    BY <1>4 DEF EndCopy, Typed, Placed
  <2>1. PICK to \in Entries \ {from} : /\ call.todo = {to} /\ live \subseteq TextsElsewhere(to)
                                       /\ files[from] # Absent
    BY <1>4, <2>0 DEF EndCopy, Kept, Moving
  <2>2. /\ files' = [files EXCEPT ![to] = files[from]] /\ live' = live
        /\ call'.op = "remove source" /\ call'.from = from
    BY <1>4, <2>0, <2>1 DEF EndCopy, Typed, TypeOK, Calls
  <2>3. EveryVersionKept' /\ live' \subseteq TextsElsewhere(from)'
    BY <2>1, <2>2, ReplacingKeeps DEF Typed
  <2> QED BY <2>2, <2>3 DEF Kept, Moving, TextsElsewhere
<1>5. CASE RemoveSource
  <2>1. /\ call'.op = "none" /\ live' = live /\ live \subseteq TextsElsewhere(call.from)
        /\ files' = [files EXCEPT ![call.from] = Absent] /\ call.from \in Entries
    BY <1>5, NoCallType DEF RemoveSource, Return, Kept, Moving, Typed, Placed
  <2>2. EveryVersionKept'
    BY <2>1, ReplacingKeeps DEF Typed
  <2> QED BY <2>1, <2>2 DEF Kept, Moving
<1>6. CASE \/ AtomicWriteFails \/ MoveFails \/ \E e \in Entries : Write(e)
           \/ \E from, to \in Entries : MoveRefused(from, to)
           \/ \E op \in {"reencrypt", "readable"}, sub \in Dirs : Reencrypt(op, sub)
           \/ ReencryptTarget \/ SkipUnreadable \/ ReencryptFails
           \/ SetRootRecipients \/ SetRootRecipientsFails \/ PullRecipients \/ Crash \/ UNCHANGED vars
  <2>1. files' = files /\ live' = live
    BY <1>6 DEF AtomicWriteFails, MoveFails, ReencryptFails, CallFails, Write, MoveRefused,
       Reencrypt, ReencryptTarget, SkipUnreadable, SetRootRecipients, SetRootRecipientsFails,
       PullRecipients, Crash, vars, tree
  <2>2. \A e : TextsOf(e)' = TextsOf(e)
    BY <2>1 DEF TextsOf, Text
  <2>3. EveryVersionKept'
    BY <2>1, <2>2 DEF Kept, EveryVersionKept
  <2>4. \/ call'.op \notin {"move", "copy", "remove source"}
        \/ UNCHANGED <<call, staged, recipients>>
    <3>1. NoCall \in Calls
      BY StoreAssumption DEF NoCall, Calls, Ops
    <3>2. CASE SkipUnreadable
      BY <3>2, SettlingStep DEF Underway, SkipUnreadable, Reencrypting, Typed, TypeOK, Calls
    <3>3. CASE \/ \E e \in Entries : Write(e)
               \/ \E op \in {"reencrypt", "readable"}, sub \in Dirs : Reencrypt(op, sub)
      BY <3>1, <3>3 DEF Write, Reencrypt, Calls
    <3>4. CASE call' = [NoCall EXCEPT !.ok = FALSE]
      BY <3>4, NoCallType
    <3> QED BY <1>6, <3>2, <3>3, <3>4 DEF AtomicWriteFails, MoveFails, ReencryptFails, CallFails,
       MoveRefused, ReencryptTarget, Reencrypting, SetRootRecipients, SetRootRecipientsFails,
       PullRecipients, MaySync, Idle, Crash, Return, vars, tree
  <2>5. Moving'
    <3>1. CASE call'.op \notin {"move", "copy", "remove source"}
      BY <3>1 DEF Moving
    <3>2. CASE UNCHANGED <<call, staged, recipients>>
      <4>1. \A e : Readers(e)' = Readers(e)
        BY <3>2, ReadersStay
      <4>2. \A e : TextsElsewhere(e)' = TextsElsewhere(e)
        BY <2>2 DEF TextsElsewhere
      <4> QED BY <2>1, <3>2, <4>1, <4>2 DEF Kept, Moving, Text
    <3> QED BY <2>4, <3>1, <3>2
  <2> QED BY <2>3, <2>5 DEF Kept
<1> QED BY <1>1, <1>2, <1>3, <1>4, <1>5, <1>6 DEF Next

\* Where no entry is moved onto itself, a version stays in the store until
\* somebody saves over it, removes it or moves another entry onto it, whatever
\* fails and wherever the app is killed.
THEOREM NoVersionLost ==
  ASSUME ~SelfMoves
  PROVE  Spec => []EveryVersionKept
<1>1. Init => Kept
  BY DEF Init, NoCall, Kept, EveryVersionKept, Moving
<1>2. Kept /\ Typed /\ Underway /\ [Next]_vars => Kept'
  BY StepKeepsVersions
<1>3. Kept => EveryVersionKept
  BY DEF Kept
<1> QED BY <1>1, <1>2, <1>3, AlwaysUnderway, PTL DEF Spec
=============================================================================

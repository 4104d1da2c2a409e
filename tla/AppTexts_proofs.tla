---------------------------- MODULE AppTexts_proofs ----------------------------
(***************************************************************************)
(* Proofs about the texts the app edits in place (AppTexts): no sequence of *)
(* edits joins two lines; an edit of an entry touches one line, and what it  *)
(* sets is what the readers find; the recipients of a file and the pins of  *)
(* a known-hosts file are exactly those the edits leave.                    *)
(***************************************************************************)
EXTENDS AppTexts, LineText_proofs

-----------------------------------------------------------------------------
\* Recipients.
LEMMA RecipientsAdded ==
  ASSUME NEW B, NEW t \in Seq(LinesOf(B)), Lines(t), NEW k \in B, NEW j \in B
  PROVE  TextOf(AddRecipients(t, <<k, j>>), B)
<1> DEFINE keys == <<k, j>>
           New(i) == /\ keys[i][1] # NoKey /\ ~Contains(RecipientsIn(t), keys[i])
                     /\ \A m \in 1..(i - 1) : keys[m] # keys[i]
           I == {i \in DOMAIN keys : New(i)}
           new == Picked(keys, I)
<1>1. AddRecipients(t, keys) = IF new = <<>> THEN t ELSE WithLines(t, new)
  BY DEF AddRecipients
<1>2. keys \in Seq(B) /\ \A i \in 1..Len(keys) : keys[i] \in B
  OBVIOUS
<1> HIDE DEF keys, I
<1>3. new \in Seq(B)
  BY <1>2, PickedYields
<1> HIDE DEF new
<1> QED BY <1>1, <1>3, LinesAdded DEF TextOf, keys

LEMMA RecipientRemoved ==
  ASSUME NEW B, NEW t \in Seq(LinesOf(B)), Lines(t), NEW k
  PROVE  TextOf(RemoveRecipient(t, k), B)
BY LinesPicked DEF RemoveRecipient, Only

-----------------------------------------------------------------------------
\* Identities.  A block's comments are lines of the text.
BlocksOf(D) == [comments : Seq(D), secret : {d[2] : d \in D}]

LEMMA BlocksParsed ==
  ASSUME NEW D, NEW t \in Seq(LinesOf(D))
  PROVE  ParseIdentities(t) \in Seq(BlocksOf(D))
<1> DEFINE Kind(i) == t[i].body[1]
           places == [i \in DOMAIN t |-> i]
           secrets == Only(places, {i \in DOMAIN t : Kind(i) = "secret"})
           Before(i) == Max({0} \union {j \in 1..(i - 1) : Kind(j) \notin Comments})
           CommentsOf(i) == [k \in 1..(i - 1 - Before(i)) |-> t[Before(i) + k].body]
           BlockAt(i) == Block(CommentsOf(i), t[i].body[2])
<1>1. ParseIdentities(t) = [k \in DOMAIN secrets |-> BlockAt(secrets[k])]
  BY DEF ParseIdentities
<1>2. Len(t) \in Nat /\ \A i \in 1..Len(t) : t[i] \in LinesOf(D)
  OBVIOUS
<1>3. \A i \in 1..Len(t) : t[i].body \in D
  BY <1>2, LineIsRecord
<1>4. secrets \in Seq(1..Len(t))
  <2>1. places \in Seq(1..Len(t))
    BY <1>2
  <2> DEFINE S == {i \in DOMAIN t : Kind(i) = "secret"}
  <2> HIDE DEF places, S
  <2>2. Only(places, S) \in Seq((1..Len(t)) \cap S)
    BY <2>1, OnlyYields
  <2> QED BY <2>2 DEF S
<1>5. ASSUME NEW i \in 1..Len(t)
      PROVE  BlockAt(i) \in BlocksOf(D)
  <2> DEFINE S == {0} \union {j \in 1..(i - 1) : Kind(j) \notin Comments}
             b == Max(S)
             c == [k \in 1..(i - 1 - b) |-> t[b + k].body]
  <2>1. i \in Nat /\ i - 1 \in Nat /\ i <= Len(t)
    BY <1>2
  <2>2. S \subseteq 0..(i - 1) /\ S # {}
    BY <2>1
  <2> HIDE DEF S
  <2>3. b \in 0..(i - 1)
    BY <2>1, <2>2, LastOfNumbers
  <2> HIDE DEF b
  <2>4. i - 1 - b \in Nat /\ \A k \in 1..(i - 1 - b) : b + k \in 1..Len(t)
    BY <1>2, <2>1, <2>3
  <2>5. c \in Seq(D)
    <3>1. \A k \in 1..(i - 1 - b) : t[b + k].body \in D
      BY <1>3, <2>4
    <3> DEFINE n == i - 1 - b
    <3>2. n \in Nat
      BY <2>4
    <3> HIDE DEF n
    <3>3. [k \in 1..n |-> t[b + k].body] \in Seq(D)
      BY <3>1, <3>2 DEF n
    <3> QED BY <3>3 DEF n
  <2>6. t[i].body[2] \in {d[2] : d \in D}
    BY <1>3
  <2>7. BlockAt(i) = Block(c, t[i].body[2])
    BY DEF b, S
  <2> HIDE DEF c
  <2> QED BY <2>5, <2>6, <2>7 DEF Block, BlocksOf
<1> HIDE DEF secrets, BlockAt
<1>6. /\ Len(secrets) \in Nat /\ DOMAIN secrets = 1..Len(secrets)
      /\ \A k \in 1..Len(secrets) : BlockAt(secrets[k]) \in BlocksOf(D)
  BY <1>4, <1>5
<1> QED BY <1>1, <1>6

\* Merging one block.
Merge(u, b) ==
  IF Canon[b.secret] \in Keys(u) THEN u
  ELSE WithLines(Separated(u), Append(b.comments, <<"secret", b.secret>>))

LEMMA BlockMerged ==
  ASSUME NEW D, NEW C, D \subseteq C, Void \in C,
         \A d \in D : <<"secret", d[2]>> \in C,
         NEW u \in Seq(LinesOf(C)), Lines(u), NEW b \in BlocksOf(D)
  PROVE  TextOf(Merge(u, b), C)
<1>1. CASE Canon[b.secret] \in Keys(u)
  BY <1>1 DEF Merge, TextOf
<1>2. CASE Canon[b.secret] \notin Keys(u)
  <2>1. TextOf(Separated(u), C)
    <3>1. Separated(u) = u \/ Separated(u) = WithLine(u, Void)
      BY DEF Separated
    <3> QED BY <3>1, LineAdded DEF TextOf
  <2> DEFINE bodies == Append(b.comments, <<"secret", b.secret>>)
  <2>2. bodies \in Seq(C)
    <3>1. b.comments \in Seq(D) /\ b.secret \in {d[2] : d \in D}
      BY DEF BlocksOf
    <3>2. b.comments \in Seq(C) /\ <<"secret", b.secret>> \in C
      BY <3>1, SeqMonotonic
    <3> QED BY <3>2, AppendProperties
  <2>3. Merge(u, b) = WithLines(Separated(u), bodies)
    BY <1>2 DEF Merge
  <2> HIDE DEF bodies
  <2> QED BY <2>1, <2>2, <2>3, LinesAdded DEF TextOf
<1> QED BY <1>1, <1>2

\* A run of the merge over the first n blocks exists for every n.
Merges(existing, blocks, n, g) ==
  g = [i \in 0..n |-> IF i = 0 THEN existing ELSE Merge(g[i - 1], blocks[i])]

LEMMA MergesExist ==
  ASSUME NEW existing, NEW blocks, NEW m \in Nat
  PROVE  \A n \in 0..m : \E g : Merges(existing, blocks, n, g)
<1> DEFINE Stuck == {n \in 0..m : ~\E g : Merges(existing, blocks, n, g)}
<1>2. SUFFICES ASSUME Stuck # {}
               PROVE  FALSE
  OBVIOUS
<1>3. PICK n \in Stuck : \A k \in Stuck : n <= k
  <2>1. Stuck \in SUBSET Nat
    OBVIOUS
  <2> HIDE DEF Stuck
  <2> QED BY <1>2, <2>1, NumbersHaveLeast
<1>4. n \in 0..m /\ n \in Nat /\ ~\E g : Merges(existing, blocks, n, g)
  BY <1>3
<1>5. CASE n = 0
  <2> DEFINE g == [i \in 0..n |-> existing]
  <2>1. \A i \in 0..n : i = 0
    BY <1>5
  <2>2. Merges(existing, blocks, n, g)
    BY <2>1 DEF Merges
  <2> QED BY <1>4, <2>2
<1>6. CASE n # 0
  <2>1. n - 1 \in 0..m /\ ~(n <= n - 1)
    BY <1>4, <1>6
  <2>2. n - 1 \notin Stuck
    BY <1>3, <2>1
  <2>3. PICK f : Merges(existing, blocks, n - 1, f)
    BY <2>1, <2>2
  <2> DEFINE Last1 == Merge(f[n - 1], blocks[n])
             g == [i \in 0..n |-> IF i = n THEN Last1 ELSE f[i]]
             Next1(h, i) == IF i = 0 THEN existing ELSE Merge(h[i - 1], blocks[i])
  <2>4. \A i \in 0..(n - 1) : g[i] = f[i]
    BY <1>4
  <2>5. \A i \in 0..(n - 1) : f[i] = Next1(f, i)
    BY <2>3 DEF Merges
  <2>6. ASSUME NEW i \in 0..n
        PROVE  g[i] = Next1(g, i)
    <3>1. CASE i = n
      <4>1. g[n] = Last1 /\ g[n - 1] = f[n - 1]
        BY <1>4, <2>1, <2>4
      <4> HIDE DEF g
      <4> QED BY <1>6, <3>1, <4>1
    <3>2. CASE i # n
      <4>1. i \in 0..(n - 1) /\ (i # 0 => i - 1 \in 0..(n - 1))
        BY <1>4, <3>2
      <4>2. g[i] = f[i] /\ (i # 0 => g[i - 1] = f[i - 1])
        BY <2>4, <4>1
      <4> HIDE DEF g
      <4> QED BY <2>5, <4>1, <4>2
    <3> QED BY <3>1, <3>2
  <2>7. g = [i \in 0..n |-> g[i]]
    OBVIOUS
  <2> HIDE DEF g
  <2>8. Merges(existing, blocks, n, g)
    BY <2>6, <2>7 DEF Merges
  <2> QED BY <1>4, <2>8
<1> QED BY <1>5, <1>6

\* merge_identities joins no lines.
LEMMA IdentitiesMerged ==
  ASSUME NEW D, NEW C, D \subseteq C, Void \in C,
         \A d \in D : <<"secret", d[2]>> \in C,
         NEW t \in Seq(LinesOf(C)), Lines(t), NEW imported \in Seq(LinesOf(D))
  PROVE  TextOf(MergeIdentities(t, imported), C)
<1> DEFINE blocks == ParseIdentities(imported)
           m == Len(blocks)
           g == CHOOSE f : Merges(t, blocks, m, f)
<1>1. MergeIdentities(t, imported) = Terminated(g[m])
  BY DEF MergeIdentities, Merges, Merge
<1>2. blocks \in Seq(BlocksOf(D))
  BY BlocksParsed
<1> HIDE DEF blocks
<1>3. m \in Nat /\ \A i \in 1..m : blocks[i] \in BlocksOf(D)
  BY <1>2
<1>4. Merges(t, blocks, m, g)
  <2>1. m \in 0..m
    BY <1>3
  <2>2. \E f : Merges(t, blocks, m, f)
    BY <1>3, <2>1, MergesExist
  <2> QED BY <2>2
<1> HIDE DEF g, m
<1>5. /\ g[0] = t
      /\ \A i \in 1..m : g[i] = Merge(g[i - 1], blocks[i])
  <2>1. 0 \in 0..m /\ \A i \in 1..m : i \in 0..m /\ i # 0
    BY <1>3
  <2>2. \A i \in 0..m : g[i] = IF i = 0 THEN t ELSE Merge(g[i - 1], blocks[i])
    BY <1>4 DEF Merges
  <2> QED BY <2>1, <2>2
<1> DEFINE Bad == {i \in 0..m : ~TextOf(g[i], C)}
<1>6. ASSUME Bad # {}
      PROVE  FALSE
  <2>1. PICK i \in Bad : \A j \in Bad : i <= j
    <3>1. Bad \in SUBSET Nat
      BY <1>3
    <3> HIDE DEF Bad
    <3> QED BY <1>6, <3>1, NumbersHaveLeast
  <2>2. i \in 0..m /\ ~TextOf(g[i], C) /\ i # 0
    BY <1>5, <2>1 DEF TextOf
  <2>3. i \in 1..m /\ i - 1 \in 0..m /\ ~(i <= i - 1)
    BY <1>3, <2>2
  <2>4. TextOf(g[i - 1], C) /\ blocks[i] \in BlocksOf(D)
    BY <1>3, <2>1, <2>3
  <2>5. TextOf(Merge(g[i - 1], blocks[i]), C)
    BY <2>4, BlockMerged DEF TextOf
  <2> QED BY <1>5, <2>2, <2>3, <2>5
<1>7. TextOf(g[m], C)
  BY <1>3, <1>6
<1> DEFINE u == g[m]
           w == Terminated(u)
<1>8. u \in Seq(LinesOf(C)) /\ Lines(u)
  BY <1>7 DEF TextOf
<1> HIDE DEF u
<1>9. w \in Seq(LinesOf(C)) /\ Len(w) = Len(u) /\ \A i \in 1..Len(w) : w[i].end # "none"
  BY <1>8, Terminates
<1> HIDE DEF w
<1>10. TextOf(w, C)
  BY <1>9, LinesEnd DEF TextOf
<1> QED BY <1>1, <1>10 DEF w, u

-----------------------------------------------------------------------------
(***************************************************************************)
(* NeverGlued.                                                              *)
(***************************************************************************)
Whole == \E B : TextOf(text, B)

\* An edit of an entry from text t to text u, of which o is told.
Moved(t, u, o) ==
  /\ \E B : TextOf(t, B) /\ TextOf(u, B)
  /\ t # <<>> =>
       \/ Touches(t, u)
       \/ /\ o[1] = "password" \/ (o[1] = "otpauth" /\ IsOtpOnly(t))
          /\ Replaced(t, u, 1) \/ (Len(t) = 1 /\ u = <<>>)

LEMMA EntryMoves ==
  ASSUME Whole, EntryEdit
  PROVE  Moved(text, text', last')
<1>1. PICK B0 : TextOf(text, B0)
  BY DEF Whole
<1>2. ASSUME NEW p \in Passwords, text' = SetPassword(text, p), last' = <<"password", p>>
      PROVE  Moved(text, text', last')
  <2> DEFINE B == B0 \cup {p}
  <2>1. text \in Seq(LinesOf(B)) /\ Lines(text) /\ p \in B
    BY <1>1, TextsGrow DEF TextOf
  <2> HIDE DEF B
  <2>2. /\ TextOf(text', B)
        /\ text # <<>> => Replaced(text, text', 1) \/ (Len(text) = 1 /\ text' = <<>>)
    BY <1>2, <2>1, PasswordSet
  <2>3. last'[1] = "password"
    BY <1>2
  <2> QED BY <2>1, <2>2, <2>3 DEF Moved, TextOf
<1>3. ASSUME NEW u \in Uris, text' = SetOtpauth(text, u), last' = <<"otpauth", u>>
      PROVE  Moved(text, text', last')
  <2> DEFINE B == B0 \cup {FieldLine(UriKey, u)}
  <2>1. text \in Seq(LinesOf(B)) /\ Lines(text) /\ FieldLine(UriKey, u) \in B
    BY <1>1, TextsGrow DEF TextOf
  <2> HIDE DEF B
  <2>2. /\ TextOf(text', B)
        /\ Touches(text, text') \/ (IsOtpOnly(text) /\ Replaced(text, text', 1))
    BY <1>3, <2>1, OtpauthSet
  <2>3. last'[1] = "otpauth"
    BY <1>3
  <2> QED BY <2>1, <2>2, <2>3 DEF Moved, TextOf
<1>4. ASSUME text' = RemoveOtpauth(text)
      PROVE  Moved(text, text', last')
  BY <1>1, <1>4, OtpauthRemoved DEF Moved, TextOf
<1>5. ASSUME NEW k \in FieldKeys, NEW v \in FieldValues, text' = SetField(text, k, v)
      PROVE  Moved(text, text', last')
  <2> DEFINE B == B0 \cup {FieldLine(k, v)}
  <2>1. text \in Seq(LinesOf(B)) /\ Lines(text) /\ FieldLine(k, v) \in B
    BY <1>1, TextsGrow DEF TextOf
  <2> HIDE DEF B
  <2>2. TextOf(text', B) /\ Touches(text, text')
    BY <1>5, <2>1, FieldSet
  <2> QED BY <2>1, <2>2 DEF Moved, TextOf
<1>6. ASSUME NEW v \in PasskeyValues, text' = EntryAddPasskey(text, v)
      PROVE  Moved(text, text', last')
  <2> DEFINE B == B0 \cup {Blank, FieldLine(PasskeyKey, v)}
  <2>1. /\ text \in Seq(LinesOf(B)) /\ Lines(text)
        /\ Blank \in B /\ FieldLine(PasskeyKey, v) \in B
    BY <1>1, TextsGrow DEF TextOf
  <2> HIDE DEF B
  <2>2. TextOf(text', B) /\ (text # <<>> => Touches(text, text'))
    BY <1>6, <2>1, PasskeyAdded
  <2> QED BY <2>1, <2>2 DEF Moved, TextOf
<1>7. ASSUME NEW id, text' = EntryRemovePasskey(text, id)
      PROVE  Moved(text, text', last')
  BY <1>1, <1>7, PasskeyRemoved DEF Moved, TextOf
<1> QED BY <1>2, <1>3, <1>4, <1>5, <1>6, <1>7 DEF EntryEdit, Edit

LEMMA RecipientsStay ==
  ASSUME Whole, RecipientsEdit
  PROVE  Whole'
<1>1. PICK B0 : TextOf(text, B0)
  BY DEF Whole
<1>2. ASSUME NEW k, NEW j, text' = AddRecipients(text, <<k, j>>)
      PROVE  Whole'
  <2> DEFINE B == B0 \cup {k, j}
  <2>1. text \in Seq(LinesOf(B)) /\ Lines(text) /\ k \in B /\ j \in B
    BY <1>1, TextsGrow DEF TextOf
  <2> HIDE DEF B
  <2>2. TextOf(AddRecipients(text, <<k, j>>), B)
    BY <2>1, RecipientsAdded
  <2> QED BY <1>2, <2>2 DEF Whole
<1>3. ASSUME NEW k, text' = RemoveRecipient(text, k)
      PROVE  Whole'
  <2>1. TextOf(RemoveRecipient(text, k), B0)
    BY <1>1, RecipientRemoved DEF TextOf
  <2> QED BY <1>3, <2>1 DEF Whole
<1> QED BY <1>2, <1>3 DEF RecipientsEdit, Edit

LEMMA IdentitiesStay ==
  ASSUME Whole, IdentitiesEdit
  PROVE  Whole'
<1>1. PICK B0 : TextOf(text, B0)
  BY DEF Whole
<1>2. PICK imported \in ImportedTexts : text' = MergeIdentities(text, imported)
  BY DEF IdentitiesEdit, Edit
<1> DEFINE D == {imported[i].body : i \in DOMAIN imported}
           C == B0 \cup D \cup {Void} \cup {<<"secret", d[2]>> : d \in D}
<1>3. imported \in Seq(LinesOf(D))
  BY Reads, TextsAssumption DEF TextOf
<1>4. text \in Seq(LinesOf(C)) /\ Lines(text)
  <2>1. B0 \subseteq C
    OBVIOUS
  <2> HIDE DEF C
  <2> QED BY <1>1, <2>1, TextsGrow DEF TextOf
<1>5. D \subseteq C /\ Void \in C /\ \A d \in D : <<"secret", d[2]>> \in C
  OBVIOUS
<1> HIDE DEF D, C
<1>6. TextOf(MergeIdentities(text, imported), C)
  BY <1>3, <1>4, <1>5, IdentitiesMerged
<1> QED BY <1>2, <1>6 DEF Whole

-----------------------------------------------------------------------------
(***************************************************************************)
(* Known hosts: the lines of the file are pins, or not.                     *)
(***************************************************************************)
HostsText(t, H, Y, K, O) ==
  /\ \A o \in O : o[1] # "pin"
  /\ t \in Seq(HostLines(H, Y, K, O))
  /\ Lines(t)
Pinned == \E H, Y, K, O : HostsText(text, H, Y, K, O)

LEMMA PinnedIsWhole ==
  ASSUME Pinned
  PROVE  Whole
BY DEF Pinned, HostsText, HostLines, Whole, TextOf, LinesOf

\* A file that reads as lines, and whose pins name hosts, a type and a key.
LEMMA ReadsPins ==
  ASSUME NEW t, IsText(t), HasPins(t)
  PROVE  \E H, Y, K, O : HostsText(t, H, Y, K, O)
<1> DEFINE B == {t[i].body : i \in DOMAIN t}
           P == {b \in B : b[1] = "pin"}
           H == UNION {ToSet(b[2]) : b \in P}
           Y == {b[3] : b \in P}
           K == {b[4] : b \in P}
           O == B \ P
<1>1. TextOf(t, B)
  BY Reads
<1>2. ASSUME NEW b \in P
      PROVE  b \in PinBodies(H, Y, K)
  <2>1. b[2] \in Seq(ToSet(b[2])) /\ b = Pin(b[2], b[3], b[4])
    BY DEF HasPins
  <2>2. ToSet(b[2]) \subseteq H
    OBVIOUS
  <2>3. b[3] \in Y /\ b[4] \in K
    OBVIOUS
  <2> DEFINE hosts == b[2]  type == b[3]  key == b[4]
  <2>4. hosts \in Seq(H)
    <3> HIDE DEF H
    <3> QED BY <2>1, <2>2, SeqMonotonic
  <2>5. type \in Y /\ key \in K /\ b = Pin(hosts, type, key)
    BY <2>1, <2>3
  <2> HIDE DEF H, Y, K, hosts, type, key
  <2> QED BY <2>4, <2>5, PinIsBody
<1>3. \A o \in O : o[1] # "pin"
  OBVIOUS
<1>4. \A b \in B : b \in P \/ b \in O
  OBVIOUS
<1> HIDE DEF B, P, H, Y, K, O
<1>5. B \subseteq PinBodies(H, Y, K) \cup O
  BY <1>2, <1>4
<1>6. LinesOf(B) \subseteq HostLines(H, Y, K, O)
  BY <1>5 DEF LinesOf, HostLines
<1>7. t \in Seq(HostLines(H, Y, K, O)) /\ Lines(t)
  BY <1>1, <1>6, SeqMonotonic DEF TextOf
<1>8. HostsText(t, H, Y, K, O)
  BY <1>3, <1>7 DEF HostsText
<1> QED BY <1>8

\* A text of which every line has a newline.
LEMMA EndedLines ==
  ASSUME NEW L, NEW t \in Seq(L), \A i \in DOMAIN t : t[i].end = "lf"
  PROVE  Lines(t)
BY DEF Lines

\* What pinning and forgetting do to the pins, as PinsFollow says.
LEMMA PinFollows ==
  ASSUME NEW H, NEW Y, NEW K, NEW O, NEW t, HostsText(t, H, Y, K, O),
         NEW host \in Hosts, NEW k \in HostKeys
  PROVE  /\ \E H1, Y1, K1, O1 : HostsText(KnownHostsAdd(t, host, k), H1, Y1, K1, O1)
         /\ Pins(KnownHostsAdd(t, host, k)) =
              {p \in Pins(t) : p.host # host \/ p.key.type # k.type}
                \union {KnownHost(host, k.type, k.key)}
<1> DEFINE type == k.type
           key == k.key
           H1 == H \cup {host}
           Y1 == Y \cup {type}
           K1 == K \cup {key}
           u == KnownHostsAdd(t, host, k)
<1>1. k = HostKey(type, key) /\ key # Garbled /\ host \notin Hashed
  BY TextsAssumption
<1> HIDE DEF type, key
<1>2. host \in H1 /\ type \in Y1 /\ key \in K1
  OBVIOUS
<1>3. HostLines(H, Y, K, O) \subseteq HostLines(H1, Y1, K1, O)
  <2>1. Seq(H) \subseteq Seq(H1)
    BY SeqMonotonic
  <2>2. ASSUME NEW b \in PinBodies(H, Y, K)
        PROVE  b \in PinBodies(H1, Y1, K1)
    <3>1. PICK hosts \in Seq(H), y \in Y, x \in K : b = Pin(hosts, y, x)
      BY DEF PinBodies
    <3>2. hosts \in Seq(H1) /\ y \in Y1 /\ x \in K1
      BY <2>1
    <3> HIDE DEF H1, Y1, K1
    <3> QED BY <3>1, <3>2, PinIsBody
  <2> HIDE DEF H1, Y1, K1
  <2> QED BY <2>2 DEF HostLines
<1> HIDE DEF H1, Y1, K1
<1>4. t \in Seq(HostLines(H1, Y1, K1, O)) /\ \A o \in O : o[1] # "pin"
  BY <1>3, SeqMonotonic DEF HostsText
<1>5. /\ u \in Seq(HostLines(H1, Y1, K1, O))
      /\ \A i \in DOMAIN u : u[i].end = "lf"
      /\ \A p \in KnownHostsList(u) :
           \/ p \in KnownHostsList(t) /\ ~(p.host = host /\ p.key.type = type)
           \/ p = KnownHost(host, type, key)
      /\ \A p \in KnownHostsList(t) :
           ~(p.host = host /\ p.key.type = type) => p \in KnownHostsList(u)
      /\ KnownHost(host, type, key) \in KnownHostsList(u)
  BY <1>1, <1>2, <1>4, PinsAdded
<1> HIDE DEF u
<1>6. HostsText(u, H1, Y1, K1, O)
  BY <1>4, <1>5, EndedLines DEF HostsText
<1>7. KnownHostsList(u) = {p \in KnownHostsList(t) : p.host # host \/ p.key.type # type}
                            \union {KnownHost(host, type, key)}
  BY <1>5
<1> QED BY <1>6, <1>7 DEF Pins, u, type, key

LEMMA ForgetFollows ==
  ASSUME NEW H, NEW Y, NEW K, NEW O, NEW t, HostsText(t, H, Y, K, O), NEW host
  PROVE  /\ HostsText(KnownHostsRemove(t, host), H, Y, K, O)
         /\ Pins(KnownHostsRemove(t, host)) = {p \in Pins(t) : p.host # host}
<1> DEFINE types == TypesIn(t)
           u == RemoveLines(t, host, types)
<1>1. u = KnownHostsRemove(t, host)
  BY DEF KnownHostsRemove
<1>2. t \in Seq(HostLines(H, Y, K, O)) /\ \A o \in O : o[1] # "pin"
  BY DEF HostsText
<1> HIDE DEF types
<1>3. u \in Seq(HostLines(H, Y, K, O)) /\ \A i \in DOMAIN u : u[i].end = "lf"
  BY <1>2, LinesLeft
<1>4. ASSUME NEW p \in KnownHostsList(t), p.host # host
      PROVE  p \in KnownHostsList(u)
  BY <1>2, <1>4, PinsKept
<1>5. ASSUME NEW p \in KnownHostsList(u)
      PROVE  p \in KnownHostsList(t) /\ p.host # host
  BY <1>1, <1>2, PinsForgotten
<1> HIDE DEF u
<1>6. HostsText(u, H, Y, K, O)
  BY <1>2, <1>3, EndedLines DEF HostsText
<1>7. KnownHostsList(u) = {p \in KnownHostsList(t) : p.host # host}
  BY <1>4, <1>5
<1> QED BY <1>1, <1>6, <1>7 DEF Pins

\* An edit of the known hosts, told by `last`.
PinsMove ==
  IF last'[1] = "pin"
  THEN Pins(text') =
         {p \in Pins(text) : p.host # last'[2] \/ p.key.type # last'[3].type}
           \union {KnownHost(last'[2], last'[3].type, last'[3].key)}
  ELSE Pins(text') = {p \in Pins(text) : p.host # last'[2]}

LEMMA HostsStay ==
  ASSUME Pinned, HostsEdit
  PROVE  Pinned' /\ PinsMove
<1>1. PICK H, Y, K, O : HostsText(text, H, Y, K, O)
  BY DEF Pinned
<1>2. ASSUME NEW host \in Hosts, NEW k \in HostKeys,
             text' = KnownHostsAdd(text, host, k), last' = <<"pin", host, k>>
      PROVE  Pinned' /\ PinsMove
  <2>1. last'[1] = "pin" /\ last'[2] = host /\ last'[3] = k
    BY <1>2
  <2>2. /\ \E H1, Y1, K1, O1 : HostsText(text', H1, Y1, K1, O1)
        /\ Pins(text') = {p \in Pins(text) : p.host # host \/ p.key.type # k.type}
                           \union {KnownHost(host, k.type, k.key)}
    BY <1>1, <1>2, PinFollows
  <2> QED BY <2>1, <2>2 DEF Pinned, PinsMove
<1>3. ASSUME NEW host \in Hosts,
             text' = KnownHostsRemove(text, host), last' = <<"forget", host>>
      PROVE  Pinned' /\ PinsMove
  <2>1. last'[1] = "forget" /\ last'[2] = host
    BY <1>3
  <2>2. /\ HostsText(text', H, Y, K, O)
        /\ Pins(text') = {p \in Pins(text) : p.host # host}
    BY <1>1, <1>3, ForgetFollows
  <2> QED BY <2>1, <2>2 DEF Pinned, PinsMove
<1> QED BY <1>2, <1>3 DEF HostsEdit, Edit

-----------------------------------------------------------------------------
\* The inductive invariant: an edited text reads as one, and a known-hosts file
\* as one of pins.
Glueless ==
  /\ kind \in Edited => Whole
  /\ kind = "hosts" => Pinned

LEMMA StartsWhole == Init => Glueless
<1> SUFFICES ASSUME Init
             PROVE  Glueless
  OBVIOUS
<1>1. ASSUME kind \in Edited
      PROVE  IsText(text) /\ (kind = "hosts" => HasPins(text))
  BY <1>1, TextsAssumption DEF Init
<1>2. kind \in Edited => Whole
  BY <1>1, Reads DEF Whole
<1>3. kind = "hosts" => Pinned
  BY <1>1, ReadsPins DEF Pinned, Edited
<1> QED BY <1>2, <1>3 DEF Glueless

LEMMA StaysWhole == Glueless /\ [Next]_vars => Glueless'
<1> SUFFICES ASSUME Glueless, [Next]_vars
             PROVE  Glueless'
  OBVIOUS
<1>1. CASE EntryEdit
  <2>1. kind = "entry" /\ kind' = kind
    BY <1>1 DEF EntryEdit, Edit
  <2>2. Whole'
    BY <1>1, <2>1, EntryMoves DEF Glueless, Edited, Moved, Whole
  <2> QED BY <2>1, <2>2 DEF Glueless
<1>2. CASE RecipientsEdit
  <2>1. kind = "recipients" /\ kind' = kind
    BY <1>2 DEF RecipientsEdit, Edit
  <2>2. Whole'
    BY <1>2, <2>1, RecipientsStay DEF Glueless, Edited
  <2> QED BY <2>1, <2>2 DEF Glueless
<1>3. CASE IdentitiesEdit
  <2>1. kind = "identities" /\ kind' = kind
    BY <1>3 DEF IdentitiesEdit, Edit
  <2>2. Whole'
    BY <1>3, <2>1, IdentitiesStay DEF Glueless, Edited
  <2> QED BY <2>1, <2>2 DEF Glueless
<1>4. CASE HostsEdit
  <2>1. kind = "hosts" /\ kind' = kind
    BY <1>4 DEF HostsEdit, Edit
  <2>2. Pinned'
    BY <1>4, <2>1, HostsStay DEF Glueless
  <2>3. Pinned' => Whole'
    BY PinnedIsWhole, PTL
  <2> QED BY <2>2, <2>3 DEF Glueless
<1>5. CASE UNCHANGED vars
  BY <1>5 DEF vars, Glueless, Whole, Pinned
<1> QED BY <1>1, <1>2, <1>3, <1>4, <1>5 DEF Next, Done

\* No edit joins two lines, however many edits are made of texts of any length.
THEOREM NoLinesJoined == Spec => []NeverGlued
<1>1. Glueless => NeverGlued
  BY DEF Glueless, NeverGlued, Whole, TextOf
<1> QED BY StartsWhole, StaysWhole, <1>1, PTL DEF Spec

\* Pinning replaces the host's key of that type and nothing else; forgetting a
\* host takes its pins and nobody else's: in files of any lines.
THEOREM PinsFollowTheEdits == Spec => PinsFollow
<1>1. ASSUME Glueless, [Next]_vars
      PROVE  [kind = "hosts" => PinsMove]_vars
  <2>1. CASE HostsEdit
    <3>1. kind = "hosts"
      BY <2>1 DEF HostsEdit, Edit
    <3> QED BY <1>1, <2>1, <3>1, HostsStay DEF Glueless
  <2>2. CASE EntryEdit \/ RecipientsEdit \/ IdentitiesEdit
    BY <2>2 DEF EntryEdit, RecipientsEdit, IdentitiesEdit, Edit
  <2>3. CASE UNCHANGED vars
    BY <2>3
  <2> QED BY <1>1, <2>1, <2>2, <2>3 DEF Next, Done
<1> QED BY StartsWhole, StaysWhole, <1>1, PTL DEF Spec, PinsFollow, PinsMove

-----------------------------------------------------------------------------
(***************************************************************************)
(* OneLineTouched.                                                          *)
(***************************************************************************)
LEMMA ReplacedRewrites ==
  ASSUME NEW B, NEW t \in Seq(LinesOf(B)), NEW u \in Seq(LinesOf(B)),
         NEW i \in 1..Len(t), Replaced(t, u, i)
  PROVE  Rewrites(t, u, i)
<1> DEFINE a == Bodies(t)
           b == Bodies(u)
           ra == RemoveAt(a, i)
           rb == RemoveAt(b, i)
<1>1. Len(u) = Len(t) /\ \A j \in 1..Len(t) : j # i => u[j] = t[j]
  BY DEF Replaced
<1>2. /\ a \in Seq(B) /\ b \in Seq(B) /\ Len(a) = Len(t) /\ Len(b) = Len(t)
      /\ \A j \in 1..Len(t) : j # i => a[j] = b[j]
  BY <1>1, BodiesOf
<1> HIDE DEF a, b
<1>3. /\ ra \in Seq(B) /\ Len(ra) = Len(a) - 1
      /\ \A j \in 1..(Len(a) - 1) : ra[j] = IF j < i THEN a[j] ELSE a[j + 1]
  <2>1. a \in Seq(B) /\ i \in 1..Len(a)
    BY <1>2
  <2> QED BY <2>1, ElementRemoved
<1>4. /\ rb \in Seq(B) /\ Len(rb) = Len(b) - 1
      /\ \A j \in 1..(Len(b) - 1) : rb[j] = IF j < i THEN b[j] ELSE b[j + 1]
  <2>1. b \in Seq(B) /\ i \in 1..Len(b)
    BY <1>2
  <2> QED BY <2>1, ElementRemoved
<1> HIDE DEF ra, rb
<1>5. ASSUME NEW j \in 1..(Len(t) - 1)
      PROVE  ra[j] = rb[j]
  <2>1. /\ Len(t) \in Nat /\ i \in Nat
        /\ j \in 1..Len(t) /\ j + 1 \in 1..Len(t)
        /\ (j < i => j # i) /\ (~(j < i) => j + 1 # i)
    OBVIOUS
  <2> QED BY <1>2, <1>3, <1>4, <2>1
<1>6. ra = rb
  BY <1>2, <1>3, <1>4, <1>5, SeqEqual
<1> QED BY <1>1, <1>6 DEF Rewrites, a, b, ra, rb

LEMMA ExtendedAdds ==
  ASSUME NEW B, NEW t \in Seq(LinesOf(B)), NEW u \in Seq(LinesOf(B)), Extended(t, u)
  PROVE  Adds(t, u)
<1> DEFINE a == Bodies(t)
           b == Bodies(u)
           f == Front(b)
<1>1. /\ Len(t) \in Nat /\ Len(u) = Len(t) + 1
      /\ \A j \in 1..Len(t) : u[j].body = t[j].body
  BY DEF Extended
<1>2. /\ a \in Seq(B) /\ b \in Seq(B) /\ Len(a) = Len(t) /\ Len(b) = Len(t) + 1
      /\ \A j \in 1..Len(t) : j \in 1..Len(u)
      /\ \A j \in 1..Len(t) : a[j] = t[j].body
      /\ \A j \in 1..Len(u) : b[j] = u[j].body
  BY <1>1, BodiesOf
<1> HIDE DEF a, b
<1>3. f \in Seq(B) /\ Len(f) = Len(t) /\ \A j \in 1..Len(t) : f[j] = b[j]
  BY <1>1, <1>2 DEF Front
<1> HIDE DEF f
<1>4. f = a
  BY <1>1, <1>2, <1>3, SeqEqual
<1> QED BY <1>1, <1>4 DEF Adds, a, b, f

LEMMA RemovedDrops ==
  ASSUME NEW B, NEW t \in Seq(LinesOf(B)), NEW i \in 1..Len(t), NEW u, u = RemoveAt(t, i)
  PROVE  Drops(t, u, i)
<1> DEFINE a == Bodies(t)
           b == Bodies(u)
           ra == RemoveAt(a, i)
<1>1. /\ u \in Seq(LinesOf(B)) /\ Len(u) = Len(t) - 1
      /\ \A j \in 1..(Len(t) - 1) : u[j] = IF j < i THEN t[j] ELSE t[j + 1]
  BY ElementRemoved
<1>2. /\ a \in Seq(B) /\ Len(a) = Len(t)
      /\ \A j \in 1..Len(t) : a[j] = t[j].body
  BY BodiesOf
<1>3. /\ b \in Seq(B) /\ Len(b) = Len(t) - 1
      /\ \A j \in 1..(Len(t) - 1) : b[j] = u[j].body
  BY <1>1, BodiesOf
<1> HIDE DEF a, b
<1>4. /\ ra \in Seq(B) /\ Len(ra) = Len(t) - 1
      /\ \A j \in 1..(Len(t) - 1) : ra[j] = IF j < i THEN a[j] ELSE a[j + 1]
  BY <1>2, ElementRemoved
<1> HIDE DEF ra
<1>5. ASSUME NEW j \in 1..(Len(t) - 1)
      PROVE  b[j] = ra[j]
  <2>1. j \in 1..Len(t) /\ j + 1 \in 1..Len(t)
    OBVIOUS
  <2> QED BY <1>1, <1>2, <1>3, <1>4, <2>1
<1>6. b = ra
  BY <1>3, <1>4, <1>5, SeqEqual
<1> QED BY <1>6 DEF Drops, a, b, ra

\* What OneLineTouched says of a step of an entry.
OneLine(t, u, o) ==
  \/ u = t
  \/ Adds(t, u)
  \/ \E i \in 2..Len(t) : Rewrites(t, u, i) \/ Drops(t, u, i)
  \/ /\ o[1] = "password" \/ (o[1] = "otpauth" /\ IsOtpOnly(t))
     /\ Rewrites(t, u, 1) \/ (Len(t) = 1 /\ u = <<>>)

LEMMA MovesTouchOneLine ==
  ASSUME NEW t, NEW u, NEW o, t # <<>>, Moved(t, u, o)
  PROVE  OneLine(t, u, o)
<1>1. PICK B : TextOf(t, B) /\ TextOf(u, B)
  BY DEF Moved
<1>2. t \in Seq(LinesOf(B)) /\ u \in Seq(LinesOf(B)) /\ 1 \in 1..Len(t)
      /\ \A i \in 2..Len(t) : i \in 1..Len(t)
  <2>1. t \in Seq(LinesOf(B)) /\ u \in Seq(LinesOf(B))
    BY <1>1 DEF TextOf
  <2>2. Len(t) \in Nat \ {0}
    BY <2>1, EmptySeq
  <2> QED BY <2>1, <2>2
<1>3. CASE u = t
  BY <1>3 DEF OneLine
<1>4. CASE Extended(t, u)
  BY <1>2, <1>4, ExtendedAdds DEF OneLine
<1>5. ASSUME NEW i \in 2..Len(t), Replaced(t, u, i)
      PROVE  OneLine(t, u, o)
  <2>1. Rewrites(t, u, i)
    BY <1>2, <1>5, ReplacedRewrites
  <2> QED BY <2>1 DEF OneLine
<1>6. ASSUME NEW i \in 2..Len(t), u = RemoveAt(t, i)
      PROVE  OneLine(t, u, o)
  <2>1. Drops(t, u, i)
    BY <1>2, <1>6, RemovedDrops
  <2> QED BY <2>1 DEF OneLine
<1>7. CASE /\ o[1] = "password" \/ (o[1] = "otpauth" /\ IsOtpOnly(t))
           /\ Replaced(t, u, 1) \/ (Len(t) = 1 /\ u = <<>>)
  <2>1. Replaced(t, u, 1) => Rewrites(t, u, 1)
    BY <1>2, ReplacedRewrites
  <2> QED BY <1>7, <2>1 DEF OneLine
<1> QED BY <1>3, <1>4, <1>5, <1>6, <1>7 DEF Moved, Touches

\* An edit of an entry touches one line, and the password line only if it is
\* what is edited: no line becomes the password because another went.
THEOREM EditsTouchOneLine == Spec => OneLineTouched
<1>1. ASSUME Glueless, [Next]_vars
      PROVE  [kind = "entry" /\ text # <<>> =>
               OneLine(text, text', last')]_vars
  <2>1. CASE EntryEdit
    <3>1. kind = "entry"
      BY <2>1 DEF EntryEdit, Edit
    <3>2. Whole
      BY <1>1, <3>1 DEF Glueless, Edited
    <3>3. Moved(text, text', last')
      BY <2>1, <3>2, EntryMoves
    <3> QED BY <3>3, MovesTouchOneLine
  <2>2. CASE RecipientsEdit \/ IdentitiesEdit \/ HostsEdit
    BY <2>2 DEF RecipientsEdit, IdentitiesEdit, HostsEdit, Edit
  <2>3. CASE UNCHANGED vars
    BY <2>3
  <2> QED BY <1>1, <2>1, <2>2, <2>3 DEF Next, Done
<1> QED BY StartsWhole, StaysWhole, <1>1, PTL DEF Spec, OneLineTouched, OneLine

-----------------------------------------------------------------------------
(***************************************************************************)
(* RecipientsFollow.                                                        *)
(***************************************************************************)
\* The list the bodies of a file's lines stand for.
ListedAt(b) == {i \in DOMAIN b : b[i][1] # NoKey /\ \A j \in 1..(i - 1) : b[j] # b[i]}
ListOf(b) == Picked(b, ListedAt(b))

LEMMA ListRead ==
  ASSUME NEW B, NEW t \in Seq(LinesOf(B))
  PROVE  RecipientsIn(t) = ListOf(Bodies(t))
<1> DEFINE b == Bodies(t)
           I == {i \in DOMAIN t : /\ t[i].body[1] # NoKey
                                  /\ \A j \in 1..(i - 1) : t[j].body # t[i].body}
<1>1. b \in Seq(B) /\ Len(b) = Len(t) /\ \A i \in 1..Len(t) : b[i] = t[i].body
  BY BodiesOf
<1>2. DOMAIN t = 1..Len(t) /\ Len(t) \in Nat
  OBVIOUS
<1>3. RecipientsIn(t) = Picked(b, I)
  BY DEF RecipientsIn
<1> HIDE DEF b
<1>4. DOMAIN b = 1..Len(b)
  BY <1>1
<1>5. \A i \in 1..Len(t) : \A j \in 1..(i - 1) : j \in 1..Len(t)
  BY <1>2
<1>6. I = ListedAt(b)
  BY <1>1, <1>2, <1>4, <1>5 DEF ListedAt
<1> QED BY <1>3, <1>6 DEF ListOf, b

LEMMA KeysListed ==
  ASSUME NEW B, NEW b \in Seq(B)
  PROVE  /\ ListOf(b) \in Seq(B)
         /\ ToSet(ListOf(b)) = {k \in ToSet(b) : k[1] # NoKey}
<1> DEFINE I == ListedAt(b)
<1>1. DOMAIN b = 1..Len(b) /\ Len(b) \in Nat
  OBVIOUS
<1>2. ListOf(b) \in Seq(B) /\ ToSet(ListOf(b)) = {b[i] : i \in {j \in 1..Len(b) : j \in I}}
  <2> HIDE DEF I
  <2>1. Picked(b, I) \in Seq(B) /\ ToSet(Picked(b, I)) = {b[i] : i \in {j \in 1..Len(b) : j \in I}}
    BY PickedAre
  <2> QED BY <2>1 DEF ListOf, I
<1>3. ASSUME NEW n \in 1..Len(b), b[n][1] # NoKey
      PROVE  \E i \in 1..Len(b) : i \in I /\ b[i] = b[n]
  <2> DEFINE Same == {i \in 1..Len(b) : b[i] = b[n]}
  <2>1. Same \in SUBSET Nat /\ Same # {}
    OBVIOUS
  <2>2. PICK i \in Same : \A j \in Same : i <= j
    <3> HIDE DEF Same
    <3> QED BY <2>1, NumbersHaveLeast
  <2>3. \A j \in 1..(i - 1) : j \in 1..Len(b) /\ ~(i <= j)
    BY <1>1
  <2>4. \A j \in 1..(i - 1) : b[j] # b[i]
    BY <2>2, <2>3
  <2> QED BY <1>1, <1>3, <2>4 DEF ListedAt
<1>4. \A i \in I : b[i][1] # NoKey
  BY DEF ListedAt
<1>5. ToSet(b) = {b[i] : i \in 1..Len(b)}
  BY <1>1 DEF ToSet
<1> HIDE DEF I
<1> QED BY <1>2, <1>3, <1>4, <1>5

LEMMA ListGrows ==
  ASSUME NEW B, NEW b \in Seq(B), NEW k \in B
  PROVE  ListOf(Append(b, k)) =
           IF k[1] = NoKey \/ k \in ToSet(b) THEN ListOf(b) ELSE Append(ListOf(b), k)
<1> DEFINE u == Append(b, k)
           I == ListedAt(u)
           J == ListedAt(b)
<1>1. /\ DOMAIN u = 1..(Len(b) + 1) /\ DOMAIN b = 1..Len(b) /\ u[Len(b) + 1] = k
      /\ \A i \in 1..Len(b) : u[i] = b[i] /\ i \in 1..(Len(b) + 1)
      /\ Len(b) \in Nat
  BY Longer
<1>2. Len(b) + 1 \in I <=> k[1] # NoKey /\ k \notin ToSet(b)
  <2> HIDE DEF u
  <2>1. Len(b) + 1 \in I <=> k[1] # NoKey /\ \A j \in 1..Len(b) : u[j] # k
    BY <1>1 DEF ListedAt
  <2> QED BY <1>1, <2>1 DEF ToSet
<1>3. ASSUME NEW i \in 1..Len(b)
      PROVE  i \in I <=> i \in J
  <2> HIDE DEF u
  <2>1. \A j \in 1..(i - 1) : j \in 1..Len(b) /\ u[j] = b[j]
    BY <1>1
  <2> QED BY <1>1, <2>1 DEF ListedAt
<1> HIDE DEF I, J
<1>4. Picked(u, I) = IF Len(b) + 1 \in I THEN Append(Picked(b, J), k) ELSE Picked(b, J)
  BY <1>3, PickedGrowsTo
<1> QED BY <1>2, <1>4 DEF ListOf, I, J, u

LEMMA NothingListed == ListOf(<<>>) = <<>>
BY PickedNothing DEF ListOf

LEMMA ListKeepsOrder ==
  ASSUME NEW B, NEW b \in Seq(B)
  PROVE  \A c \in Seq(B) : IsPrefix(ListOf(b), ListOf(b \o c))
<1> DEFINE S == {c \in Seq(B) : IsPrefix(ListOf(b), ListOf(b \o c))}
<1>1. <<>> \in S
  <2>1. b \o <<>> = b /\ <<>> \in Seq(B) /\ ListOf(b) \in Seq(B)
    BY KeysListed
  <2> QED BY <2>1, OwnPrefix
<1>2. ASSUME NEW c \in Seq(B), NEW k \in B, c \in S
      PROVE  Append(c, k) \in S
  <2>1. b \o c \in Seq(B) /\ b \o Append(c, k) = Append(b \o c, k) /\ Append(c, k) \in Seq(B)
    BY ConcatGrows, Longer
  <2> DEFINE d == b \o c
  <2>2. d \in Seq(B) /\ IsPrefix(ListOf(b), ListOf(d))
    BY <1>2, <2>1
  <2> HIDE DEF d
  <2>3. ListOf(Append(d, k)) = ListOf(d) \/ ListOf(Append(d, k)) = Append(ListOf(d), k)
    BY <2>2, ListGrows
  <2>4. ListOf(b) \in Seq(B) /\ ListOf(d) \in Seq(B)
    BY <2>2, KeysListed
  <2>5. IsPrefix(ListOf(b), Append(ListOf(d), k))
    BY <2>2, <2>4, PrefixGrows
  <2>6. IsPrefix(ListOf(b), ListOf(Append(d, k)))
    BY <2>2, <2>3, <2>5
  <2> QED BY <2>1, <2>6 DEF d
<1>3. Seq(B) \subseteq S
  <2> HIDE DEF S
  <2> QED BY <1>1, <1>2, SequencesGrow
<1> QED BY <1>3

\* pass's reading of a file whose every line is ended.
LEMMA EndedIdsRead ==
  ASSUME NEW B, NEW u \in Seq(LinesOf(B)), \A i \in 1..Len(u) : u[i].end # "none"
  PROVE  ToSet(ParseGpgIdFile(u)) = {x[1] : x \in ToSet(RecipientsIn(u))}
<1> DEFINE J == {i \in DOMAIN u : u[i].end # "none" /\ u[i].body[1] # NoKey}
           ids == Picked(u, J)
<1>1. DOMAIN u = 1..Len(u)
  OBVIOUS
<1>2. ParseGpgIdFile(u) = [i \in DOMAIN ids |-> ids[i].body[1]]
  BY DEF ParseGpgIdFile
<1>3. {u[i] : i \in {m \in 1..Len(u) : m \in J}} = {l \in ToSet(u) : l.body[1] # NoKey}
  BY <1>1 DEF ToSet
<1> HIDE DEF J
<1>4. ToSet(ids) = {l \in ToSet(u) : l.body[1] # NoKey}
  BY <1>3, PickedAre
<1> HIDE DEF ids
<1>5. ToSet(ParseGpgIdFile(u)) = {l.body[1] : l \in ToSet(ids)}
  BY <1>2 DEF ToSet
<1>6. ToSet(RecipientsIn(u)) = {x \in {l.body : l \in ToSet(u)} : x[1] # NoKey}
  <2>1. Bodies(u) \in Seq(B) /\ ToSet(Bodies(u)) = {l.body : l \in ToSet(u)}
    BY BodiesOf
  <2>2. RecipientsIn(u) = ListOf(Bodies(u))
    BY ListRead
  <2> QED BY <2>1, <2>2, KeysListed
<1> QED BY <1>4, <1>5, <1>6

\* add_recipients from text t to text u.
Added(t, u, k, j) ==
  /\ ToSet(RecipientsIn(u)) = ToSet(RecipientsIn(t)) \cup {x \in {k, j} : x[1] # NoKey}
  /\ IsPrefix(RecipientsIn(t), RecipientsIn(u))
  /\ u # t => ToSet(ParseGpgIdFile(u)) = {x[1] : x \in ToSet(RecipientsIn(u))}

\* What RecipientsFollow says of a step from t to u of which o is told.
ListMoves(t, u, o) ==
  LET before == RecipientsIn(t)  after == RecipientsIn(u)
      keys == IF o[1] = "add" THEN o[2] ELSE <<o[2]>>
  IN  IF o[1] = "add"
      THEN /\ ToSet(after) = ToSet(before) \union {k \in ToSet(keys) : k[1] # NoKey}
           /\ IsPrefix(before, after)
           /\ u # t => ToSet(ParseGpgIdFile(u)) = {k[1] : k \in ToSet(after)}
      ELSE after = Only(before, ToSet(before) \ ToSet(keys))

LEMMA AddedFollow ==
  ASSUME NEW B, NEW t \in Seq(LinesOf(B)), Lines(t), NEW k \in B, NEW j \in B,
         NEW u, u = AddRecipients(t, <<k, j>>)
  PROVE  Added(t, u, k, j)
<1> DEFINE keys == <<k, j>>
           b == Bodies(t)
           I == {i \in DOMAIN keys : /\ keys[i][1] # NoKey /\ ~Contains(RecipientsIn(t), keys[i])
                                     /\ \A m \in 1..(i - 1) : keys[m] # keys[i]}
           new == Picked(keys, I)
<1>1. u = IF new = <<>> THEN t ELSE WithLines(t, new)
  BY DEF AddRecipients
<1>2. keys \in Seq(B) /\ Len(keys) = 2 /\ keys[1] = k /\ keys[2] = j /\ DOMAIN keys = 1..2
  OBVIOUS
<1>3. b \in Seq(B) /\ RecipientsIn(t) = ListOf(b)
  BY BodiesOf, ListRead
<1>4. \A x : Contains(ListOf(b), x) <=> x \in ToSet(ListOf(b))
  <2>1. ListOf(b) \in Seq(B)
    BY <1>3, KeysListed
  <2>2. DOMAIN ListOf(b) = 1..Len(ListOf(b))
    BY <2>1
  <2> QED BY <2>2 DEF Contains, ToSet
<1>5. /\ new \in Seq(B)
      /\ ToSet(new) = {keys[i] : i \in {m \in 1..Len(keys) : m \in I}}
  <2> HIDE DEF I, keys
  <2> QED BY <1>2, PickedAre
<1>6. /\ ToSet(new) \subseteq {x \in {k, j} : x[1] # NoKey}
      /\ {x \in {k, j} : x[1] # NoKey} \subseteq ToSet(new) \cup ToSet(ListOf(b))
  <2> DEFINE C(x) == Contains(RecipientsIn(t), x)
  <2>1. /\ 1 \in I <=> k[1] # NoKey /\ ~C(k)
        /\ 2 \in I <=> j[1] # NoKey /\ ~C(j) /\ k # j
    <3> HIDE DEF keys, C
    <3>1. 1..(1 - 1) = {} /\ 1..(2 - 1) = {1} /\ 1 \in 1..2 /\ 2 \in 1..2
      OBVIOUS
    <3>2. I = {i \in DOMAIN keys : /\ keys[i][1] # NoKey /\ ~C(keys[i])
                                   /\ \A m \in 1..(i - 1) : keys[m] # keys[i]}
      BY DEF C
    <3> HIDE DEF I
    <3> QED BY <1>2, <3>1, <3>2
  <2>2. ToSet(new) = {keys[i] : i \in {m \in 1..2 : m \in I}}
    BY <1>2, <1>5
  <2>3. \A x : C(x) <=> x \in ToSet(ListOf(b))
    BY <1>3, <1>4
  <2> HIDE DEF keys, I, new, C
  <2>4. /\ k \in ToSet(new) <=> 1 \in I \/ (2 \in I /\ j = k)
        /\ j \in ToSet(new) <=> 2 \in I \/ (1 \in I /\ j = k)
        /\ \A x \in ToSet(new) : x = k \/ x = j
    BY <1>2, <2>2
  <2> QED BY <2>1, <2>3, <2>4
<1> HIDE DEF keys, I, new
<1>7. u \in Seq(LinesOf(B)) /\ Bodies(u) = b \o new
  <2>1. CASE new = <<>>
    <3>1. b \o <<>> = b
      BY <1>3
    <3> QED BY <1>1, <2>1, <3>1
  <2>2. CASE new # <<>>
    BY <1>1, <1>5, <2>2, BodiesAdded, LinesAdded DEF TextOf
  <2> QED BY <2>1, <2>2
<1>8. RecipientsIn(u) = ListOf(b \o new)
  BY <1>7, ListRead
<1>9. ToSet(b \o new) = ToSet(b) \cup ToSet(new) /\ b \o new \in Seq(B)
  <2> DEFINE c == b \o new
             m == Len(b)
             n == Len(b) + Len(new)
  <2>1. m = Len(b) /\ n = Len(b) + Len(new) /\ Len(b) \in Nat /\ Len(new) \in Nat
    BY <1>3, <1>5
  <2> HIDE DEF m, n
  <2>2. /\ c \in Seq(B) /\ Len(c) = n
        /\ \A i \in 1..m : c[i] = b[i]
        /\ \A i \in 1..n : ~(i <= m) => c[i] = new[i - m]
        /\ \A i \in 1..n : IF i <= m THEN i \in 1..m ELSE i - m \in 1..Len(new)
    BY <1>3, <1>5, <2>1, Joined
  <2> HIDE DEF c
  <2>3. DOMAIN c = 1..n /\ DOMAIN b = 1..m /\ DOMAIN new = 1..Len(new)
    BY <1>3, <1>5, <2>1, <2>2
  <2>4. ToSet(c) \subseteq ToSet(b) \cup ToSet(new)
    BY <2>2, <2>3 DEF ToSet
  <2>5. \A i \in 1..m : i \in 1..n
    BY <2>1
  <2>6. \A i \in 1..Len(new) : i + m \in 1..n /\ ~(i + m <= m) /\ (i + m) - m = i
    BY <2>1
  <2>7. \A i \in 1..Len(new) : c[i + m] = new[i]
    BY <2>2, <2>6
  <2>8. ToSet(b) \subseteq ToSet(c)
    BY <2>2, <2>3, <2>5 DEF ToSet
  <2>9. ToSet(new) \subseteq ToSet(c)
    BY <2>3, <2>6, <2>7 DEF ToSet
  <2> QED BY <2>2, <2>4, <2>8, <2>9 DEF c
<1>10. ToSet(RecipientsIn(u)) = ToSet(RecipientsIn(t)) \cup {x \in {k, j} : x[1] # NoKey}
  <2>1. ToSet(RecipientsIn(u)) = {x \in ToSet(b) \cup ToSet(new) : x[1] # NoKey}
    BY <1>8, <1>9, KeysListed
  <2>2. ToSet(RecipientsIn(t)) = {x \in ToSet(b) : x[1] # NoKey}
    BY <1>3, KeysListed
  <2> HIDE DEF b
  <2>3. ToSet(ListOf(b)) = {x \in ToSet(b) : x[1] # NoKey}
    BY <1>3, KeysListed
  <2> QED BY <1>6, <2>1, <2>2, <2>3
<1>11. IsPrefix(RecipientsIn(t), RecipientsIn(u))
  <2> HIDE DEF b
  <2> QED BY <1>3, <1>5, <1>8, ListKeepsOrder
<1>12. ASSUME u # t
       PROVE  ToSet(ParseGpgIdFile(u)) = {x[1] : x \in ToSet(RecipientsIn(u))}
  <2>1. u = WithLines(t, new)
    BY <1>1, <1>12
  <2>2. \A i \in 1..Len(u) : u[i].end # "none"
    BY <1>5, <2>1, BodiesAdded
  <2>3. u \in Seq(LinesOf(B))
    BY <1>7
  <2> HIDE DEF b
  <2> QED BY <2>2, <2>3, EndedIdsRead
<1> QED BY <1>10, <1>11, <1>12 DEF Added

-----------------------------------------------------------------------------
\* remove_recipient.
LEMMA BodiesGrow ==
  ASSUME NEW B, NEW t \in Seq(LinesOf(B)), NEW l \in LinesOf(B)
  PROVE  Bodies(Append(t, l)) = Append(Bodies(t), l.body) /\ l.body \in B
<1> DEFINE u == Append(t, l)
           b == Bodies(t)
           c == Append(b, l.body)
           n == Len(t) + 1
<1>1. /\ u \in Seq(LinesOf(B)) /\ Len(u) = n /\ u[n] = l /\ Len(t) \in Nat
      /\ \A i \in 1..Len(t) : u[i] = t[i]
  OBVIOUS
<1>2. b \in Seq(B) /\ Len(b) = Len(t) /\ \A i \in 1..Len(t) : b[i] = t[i].body
  BY BodiesOf
<1>3. l.body \in B
  BY LineIsRecord
<1> HIDE DEF b
<1>4. /\ c \in Seq(B) /\ Len(c) = n /\ c[n] = l.body
      /\ \A i \in 1..Len(t) : c[i] = b[i]
  BY <1>2, <1>3
<1> HIDE DEF c, u
<1>5. \A i \in 1..n : i = n \/ i \in 1..Len(t)
  BY <1>1
<1> HIDE DEF n
<1>6. \A i \in 1..Len(u) : c[i] = u[i].body
  BY <1>1, <1>2, <1>4, <1>5
<1>7. Bodies(u) = c
  BY <1>1, <1>4, <1>6, SameBodies
<1> QED BY <1>3, <1>7 DEF b, c, u

LEMMA OnlySame ==
  ASSUME NEW T, NEW s \in Seq(T), NEW S, NEW U, \A x \in ToSet(s) : x \in S <=> x \in U
  PROVE  Only(s, S) = Only(s, U)
<1> DEFINE I == {i \in DOMAIN s : s[i] \in S}
           J == {i \in DOMAIN s : s[i] \in U}
<1>1. DOMAIN s = 1..Len(s)
  OBVIOUS
<1>2. \A i \in 1..Len(s) : i \in I <=> i \in J
  BY <1>1 DEF ToSet
<1>3. Only(s, S) = Picked(s, I) /\ Only(s, U) = Picked(s, J)
  BY DEF Only
<1> HIDE DEF I, J
<1> QED BY <1>2, <1>3, PickedSame

LEMMA OnlyStays ==
  ASSUME NEW T, NEW s \in Seq(T), NEW S
  PROVE  Only(s, S) \in Seq(T)
BY PickedAre DEF Only

\* What is left of the bodies b once k is removed from them: others than k are
\* in c where they were in b, and c lists them as b did.
Leaves(b, c, k, U) ==
  /\ ListOf(c) = Only(ListOf(b), U)
  /\ ToSet(c) \subseteq ToSet(b)
  /\ \A x \in ToSet(b) : x # k => x \in ToSet(c)

LEMMA LeavesGrow ==
  ASSUME NEW B, NEW b \in Seq(B), NEW c \in Seq(B), NEW k, NEW U, \A y \in B : y \in U <=> y # k,
         Leaves(b, c, k, U), NEW x \in B
  PROVE  /\ x # k \/ k[1] = NoKey => Leaves(Append(b, x), Append(c, x), k, U)
         /\ x = k => Leaves(Append(b, x), c, k, U)
<1>1. /\ ToSet(Append(b, x)) = ToSet(b) \cup {x}
      /\ ToSet(Append(c, x)) = ToSet(c) \cup {x}
  BY Longer
<1>2. /\ ListOf(Append(b, x)) =
           IF x[1] = NoKey \/ x \in ToSet(b) THEN ListOf(b) ELSE Append(ListOf(b), x)
      /\ ListOf(Append(c, x)) =
           IF x[1] = NoKey \/ x \in ToSet(c) THEN ListOf(c) ELSE Append(ListOf(c), x)
  BY ListGrows
<1>3. ListOf(b) \in Seq(B)
  BY KeysListed
<1>4. Only(Append(ListOf(b), x), U) =
        IF x \in U THEN Append(Only(ListOf(b), U), x) ELSE Only(ListOf(b), U)
  BY <1>3, OnlyGrows
<1>5. /\ ListOf(c) = Only(ListOf(b), U) /\ ToSet(c) \subseteq ToSet(b)
      /\ \A y \in ToSet(b) : y # k => y \in ToSet(c)
  BY DEF Leaves
<1>6. x \in U <=> x # k
  OBVIOUS
<1>7. ASSUME x = k
      PROVE  ListOf(c) = Only(ListOf(Append(b, x)), U)
  BY <1>2, <1>4, <1>5, <1>6, <1>7
<1>8. ASSUME x # k
      PROVE  ListOf(Append(c, x)) = Only(ListOf(Append(b, x)), U)
  <2>1. x \in ToSet(c) <=> x \in ToSet(b)
    BY <1>5, <1>8
  <2>2. CASE x[1] = NoKey \/ x \in ToSet(b)
    BY <1>2, <1>5, <2>1, <2>2
  <2>3. CASE ~(x[1] = NoKey \/ x \in ToSet(b))
    BY <1>2, <1>4, <1>5, <1>6, <1>8, <2>1, <2>3
  <2> QED BY <2>2, <2>3
<1>9. ASSUME x = k, k[1] = NoKey
      PROVE  ListOf(Append(c, x)) = Only(ListOf(Append(b, x)), U)
  BY <1>2, <1>5, <1>9
<1>10. CASE x = k
  <2>1. Leaves(Append(b, x), c, k, U)
    BY <1>1, <1>5, <1>7, <1>10 DEF Leaves
  <2>2. ASSUME k[1] = NoKey
        PROVE  Leaves(Append(b, x), Append(c, x), k, U)
    BY <1>1, <1>5, <1>9, <1>10, <2>2 DEF Leaves
  <2> QED BY <1>10, <2>1, <2>2
<1>11. CASE x # k
  <2>1. Leaves(Append(b, x), Append(c, x), k, U)
    BY <1>1, <1>5, <1>8, <1>11 DEF Leaves
  <2> QED BY <1>11, <2>1
<1> QED BY <1>10, <1>11

LEMMA RemovedLeave ==
  ASSUME NEW B, NEW k, NEW U, \A y \in B : y \in U <=> y # k,
         NEW S, \A l \in LinesOf(B) : l \in S <=> l.body # k \/ k = BlankLine
  PROVE  \A s \in Seq(LinesOf(B)) : Leaves(Bodies(s), Bodies(Only(s, S)), k, U)
<1> DEFINE T == LinesOf(B)
           A == {s \in Seq(T) : Leaves(Bodies(s), Bodies(Only(s, S)), k, U)}
<1>1. <<>> \in A
  <2>1. Only(<<>>, S) = <<>> /\ Only(<<>>, U) = <<>> /\ <<>> \in Seq(T) /\ Bodies(<<>>) = <<>>
    BY NoneOfNothing DEF Bodies
  <2>2. Leaves(<<>>, <<>>, k, U)
    BY <2>1, NothingListed DEF Leaves
  <2> QED BY <2>1, <2>2
<1>2. ASSUME NEW s \in Seq(T), NEW l \in T, s \in A
      PROVE  Append(s, l) \in A
  <2> DEFINE o == Only(s, S)
             b == Bodies(s)
             c == Bodies(o)
  <2>1. /\ o \in Seq(T) /\ s \in Seq(T) /\ l \in T
        /\ Only(Append(s, l), S) = IF l \in S THEN Append(o, l) ELSE o
        /\ Append(s, l) \in Seq(T)
    BY OnlyStays, OnlyGrows, Longer
  <2> HIDE DEF o
  <2>2. /\ Bodies(Append(s, l)) = Append(b, l.body) /\ Bodies(Append(o, l)) = Append(c, l.body)
        /\ l.body \in B
    BY <2>1, BodiesGrow
  <2>3. b \in Seq(B) /\ c \in Seq(B)
    BY <2>1, BodiesOf
  <2>4. Leaves(b, c, k, U)
    BY <1>2 DEF o
  <2> HIDE DEF b, c
  <2>5. /\ l.body # k \/ k[1] = NoKey => Leaves(Append(b, l.body), Append(c, l.body), k, U)
        /\ l.body = k => Leaves(Append(b, l.body), c, k, U)
    BY <2>2, <2>3, <2>4, LeavesGrow
  <2>6. l \in S => l.body # k \/ k[1] = NoKey
    <3>1. BlankLine[1] = NoKey
      BY DEF BlankLine
    <3>2. l \in S => l.body # k \/ k = BlankLine
      OBVIOUS
    <3> QED BY <3>1, <3>2, Zenon
  <2>7. l \notin S => l.body = k
    OBVIOUS
  <2>8. Leaves(Bodies(Append(s, l)), Bodies(Only(Append(s, l), S)), k, U)
    <3>1. CASE l \in S
      BY <2>1, <2>2, <2>5, <2>6, <3>1
    <3>2. CASE l \notin S
      BY <2>1, <2>2, <2>5, <2>7, <3>2 DEF c
    <3> QED BY <3>1, <3>2
  <2> QED BY <2>1, <2>8
<1>3. Seq(T) \subseteq A
  <2> HIDE DEF A, T
  <2> QED BY <1>1, <1>2, SequencesGrow
<1> QED BY <1>3

LEMMA RemovedFollow ==
  ASSUME NEW B, NEW t \in Seq(LinesOf(B)), NEW k, NEW keys, keys = <<k>>
  PROVE  RecipientsIn(RemoveRecipient(t, k)) =
           Only(RecipientsIn(t), ToSet(RecipientsIn(t)) \ ToSet(keys))
<1> DEFINE S == {l \in LinesOf(B) : l.body # k \/ k = BlankLine}
           R == {l \in ToSet(t) : l.body # k \/ k = BlankLine}
           U == {y \in B : y # k}
           r == RecipientsIn(t)
           o == Only(t, S)
<1>1. \A l \in ToSet(t) : l \in LinesOf(B)
  BY DEF ToSet
<1>2. RemoveRecipient(t, k) = o /\ o \in Seq(LinesOf(B))
  <2>1. RemoveRecipient(t, k) = Only(t, R)
    BY DEF RemoveRecipient
  <2>2. \A l \in ToSet(t) : l \in R <=> l \in S
    BY <1>1
  <2> HIDE DEF R, S
  <2>3. Only(t, R) = Only(t, S)
    BY <2>2, OnlySame
  <2> QED BY <2>1, <2>3, OnlyStays
<1>3. r = ListOf(Bodies(t)) /\ Bodies(t) \in Seq(B)
  BY ListRead, BodiesOf
<1>4. r \in Seq(B)
  BY <1>3, KeysListed
<1>5. ListOf(Bodies(o)) = Only(ListOf(Bodies(t)), U)
  <2>1. /\ \A y \in B : y \in U <=> y # k
        /\ \A l \in LinesOf(B) : l \in S <=> l.body # k \/ k = BlankLine
    OBVIOUS
  <2> HIDE DEF U, S
  <2>2. Leaves(Bodies(t), Bodies(o), k, U)
    BY <2>1, RemovedLeave
  <2> QED BY <2>2 DEF Leaves
<1>6. RecipientsIn(o) = ListOf(Bodies(o))
  BY <1>2, ListRead
<1>7. \A x \in ToSet(r) : x \in U <=> x \in ToSet(r) \ ToSet(keys)
  <2>1. ToSet(keys) = {k}
    BY DEF ToSet
  <2>2. \A x \in ToSet(r) : x \in B
    BY <1>4 DEF ToSet
  <2> HIDE DEF r
  <2> QED BY <2>1, <2>2
<1> HIDE DEF U, o, r
<1>8. Only(r, U) = Only(r, ToSet(r) \ ToSet(keys))
  BY <1>4, <1>7, OnlySame
<1> QED BY <1>2, <1>3, <1>5, <1>6, <1>8 DEF r

\* The list follows the edits, in files of any lines: a key added is listed and
\* comes after the others, and pass reads it too; one removed is listed no more,
\* and the others stay as they were.
THEOREM ListFollowsTheEdits == Spec => RecipientsFollow
<1>1. ASSUME Glueless, [Next]_vars
      PROVE  [kind = "recipients" => ListMoves(text, text', last')]_vars
  <2>1. CASE RecipientsEdit
    <3>1. kind = "recipients"
      BY <2>1 DEF RecipientsEdit, Edit
    <3>2. PICK B0 : TextOf(text, B0)
      BY <1>1, <3>1 DEF Glueless, Edited, Whole
    <3>3. ASSUME NEW k, NEW j, text' = AddRecipients(text, <<k, j>>), last' = <<"add", <<k, j>>>>
          PROVE  ListMoves(text, text', last')
      <4> DEFINE B == B0 \cup {k, j}
      <4>1. text \in Seq(LinesOf(B)) /\ Lines(text) /\ k \in B /\ j \in B
        BY <3>2, TextsGrow DEF TextOf
      <4> HIDE DEF B
      <4>2. Added(text, text', k, j)
        BY <3>3, <4>1, AddedFollow DEF Added
      <4>3. last'[1] = "add" /\ ToSet(last'[2]) = {k, j}
        BY <3>3 DEF ToSet
      <4> QED BY <4>2, <4>3 DEF ListMoves, Added
    <3>4. ASSUME NEW k, text' = RemoveRecipient(text, k), last' = <<"remove", k>>
          PROVE  ListMoves(text, text', last')
      <4>1. text \in Seq(LinesOf(B0))
        BY <3>2 DEF TextOf
      <4>2. RecipientsIn(RemoveRecipient(text, k)) =
              Only(RecipientsIn(text), ToSet(RecipientsIn(text)) \ ToSet(<<k>>))
        BY <4>1, RemovedFollow
      <4>3. last'[1] = "remove" /\ last'[2] = k
        BY <3>4
      <4> QED BY <3>4, <4>2, <4>3 DEF ListMoves
    <3> QED BY <2>1, <3>3, <3>4 DEF RecipientsEdit, Edit
  <2>2. CASE EntryEdit \/ IdentitiesEdit \/ HostsEdit
    BY <2>2 DEF EntryEdit, IdentitiesEdit, HostsEdit, Edit
  <2>3. CASE UNCHANGED vars
    BY <2>3
  <2> QED BY <1>1, <2>1, <2>2, <2>3 DEF Next, Done
<1> QED BY StartsWhole, StaysWhole, <1>1, PTL DEF Spec, RecipientsFollow, ListMoves

-----------------------------------------------------------------------------
(***************************************************************************)
(* EditReadsBack.  What the readers of an entry find, by the bodies of its  *)
(* lines.                                                                   *)
(***************************************************************************)
UrisOf(B) == {x \in B : x.key = UriKey}
FieldsOf(B, k, values) == {x \in B : x.key \notin {"", UriKey} /\ x.key = k /\ x.value \in values}
PasskeysOf(B) == {x \in B : x.key = PasskeyKey /\ x.value \in DOMAIN Credential}
ValuesOf(s) == [i \in DOMAIN s |-> s[i].value]

LEMMA UriByBodies ==
  ASSUME NEW B, NEW t \in Seq(LinesOf(B))
  PROVE  UriAt(t) = FirstIn(Bodies(t), 1, UrisOf(B))
<1> DEFINE b == Bodies(t)
           I == {i \in 1..Len(t) : t[i].body.key = UriKey}
<1>1. b \in Seq(B) /\ Len(b) = Len(t) /\ \A i \in 1..Len(t) : b[i] = t[i].body
  BY BodiesOf
<1> HIDE DEF b
<1>2. \A i \in 1..Len(t) : b[i] \in B
  BY <1>1
<1>3. I = PlacesIn(b, 1, UrisOf(B))
  BY <1>1, <1>2 DEF PlacesIn, UrisOf
<1>4. UriAt(t) = First(I)
  BY DEF UriAt, SelectInSeq, First
<1> QED BY <1>3, <1>4 DEF FirstIn, b

LEMMA FieldByBodies ==
  ASSUME NEW B, NEW t \in Seq(LinesOf(B)), NEW k, NEW values, NEW all,
         \A x \in ToSet(Bodies(t)) : x.value \in values <=> x.value \in all
  PROVE  FieldAt(t, k, values) = FirstIn(Bodies(t), 2, FieldsOf(B, k, all))
<1> DEFINE b == Bodies(t)
           I == {i \in 2..Len(t) : IsField(t[i]) /\ t[i].body.key = k /\ t[i].body.value \in values}
<1>1. /\ b \in Seq(B) /\ Len(b) = Len(t) /\ Len(t) \in Nat
      /\ \A i \in 1..Len(t) : b[i] = t[i].body
  BY BodiesOf
<1>2. \A i \in 2..Len(t) : /\ i \in 1..Len(t) /\ b[i] \in B /\ b[i] = t[i].body
                           /\ t[i].body.value \in values <=> b[i].value \in all
  <2>1. \A x \in ToSet(b) : x.value \in values <=> x.value \in all
    OBVIOUS
  <2> HIDE DEF b
  <2>2. \A i \in 2..Len(t) : i \in 1..Len(t)
    BY <1>1
  <2>3. \A i \in 1..Len(t) : b[i] \in B /\ b[i] \in ToSet(b)
    BY <1>1 DEF ToSet
  <2> QED BY <1>1, <2>1, <2>2, <2>3
<1> HIDE DEF b
<1>3. I = PlacesIn(b, 2, FieldsOf(B, k, all))
  BY <1>1, <1>2 DEF PlacesIn, FieldsOf, IsField
<1>4. FieldAt(t, k, values) = First(I)
  BY DEF FieldAt, SelectInSubSeq, First
<1> QED BY <1>3, <1>4 DEF FirstIn, b

\* Any value will do.
LEMMA AnyFieldByBodies ==
  ASSUME NEW B, NEW t \in Seq(LinesOf(B)), NEW k
  PROVE  FieldAt(t, k, Values(t)) = FirstIn(Bodies(t), 2, FieldsOf(B, k, {x.value : x \in B}))
<1>1. Bodies(t) \in Seq(B) /\ ToSet(Bodies(t)) = {l.body : l \in ToSet(t)}
  BY BodiesOf
<1>2. \A x \in ToSet(Bodies(t)) : x \in B
  BY <1>1 DEF ToSet
<1>3. \A x \in ToSet(Bodies(t)) : x.value \in Values(t)
  BY <1>1 DEF Values
<1>4. \A x \in ToSet(Bodies(t)) : x.value \in Values(t) <=> x.value \in {y.value : y \in B}
  BY <1>2, <1>3
<1> QED BY <1>4, FieldByBodies

LEMMA BodiesPicked ==
  ASSUME NEW B, NEW I
  PROVE  \A t \in Seq(LinesOf(B)) : Bodies(Picked(t, I)) = Picked(Bodies(t), I)
<1> DEFINE T == LinesOf(B)
           A == {t \in Seq(T) : Bodies(Picked(t, I)) = Picked(Bodies(t), I)}
<1>1. <<>> \in A
  <2>1. <<>> \in Seq(T) /\ Bodies(<<>>) = <<>>
    BY DEF Bodies
  <2> QED BY <2>1, PickedNothing
<1>2. ASSUME NEW t \in Seq(T), NEW l \in T, t \in A
      PROVE  Append(t, l) \in A
  <2> DEFINE p == Picked(t, I)
             b == Bodies(t)
             n == Len(t) + 1
  <2>1. p \in Seq(T)
    BY PickedAre
  <2>2. b \in Seq(B) /\ Len(b) + 1 = n
    BY BodiesOf
  <2>3. Picked(Append(t, l), I) = IF n \in I THEN Append(p, l) ELSE p
    BY PickedGrows
  <2>4. Bodies(p) = Picked(b, I)
    BY <1>2
  <2> HIDE DEF p
  <2>5. /\ Bodies(Append(t, l)) = Append(b, l.body) /\ l.body \in B
        /\ Bodies(Append(p, l)) = Append(Bodies(p), l.body)
    BY <2>1, BodiesGrow
  <2> HIDE DEF b, n
  <2>6. Picked(Append(b, l.body), I) =
          IF n \in I THEN Append(Picked(b, I), l.body) ELSE Picked(b, I)
    <3>1. ASSUME NEW x \in B
          PROVE  Picked(Append(b, x), I) =
                   IF Len(b) + 1 \in I THEN Append(Picked(b, I), x) ELSE Picked(b, I)
      <4> HIDE DEF A, T
      <4> QED BY <2>2, PickedGrows
    <3> QED BY <2>2, <2>5, <3>1
  <2>7. Bodies(Picked(Append(t, l), I)) = Picked(Bodies(Append(t, l)), I)
    BY <2>3, <2>4, <2>5, <2>6
  <2>8. Append(t, l) \in Seq(T)
    OBVIOUS
  <2> QED BY <2>7, <2>8
<1>3. Seq(T) \subseteq A
  <2> HIDE DEF A, T
  <2> QED BY <1>1, <1>2, SequencesGrow
<1> QED BY <1>3

LEMMA PasskeysByBodies ==
  ASSUME NEW B, NEW t \in Seq(LinesOf(B))
  PROVE  EntryPasskeys(t) = ValuesOf(AllIn(Bodies(t), 2, PasskeysOf(B)))
<1> DEFINE b == Bodies(t)
           I == PasskeysAt(t)
           held == Picked(t, I)
           d == Bodies(held)
<1>1. /\ b \in Seq(B) /\ Len(b) = Len(t) /\ Len(t) \in Nat
      /\ \A i \in 1..Len(t) : b[i] = t[i].body
  BY BodiesOf
<1>2. d = Picked(b, I)
  BY BodiesPicked
<1>3. held \in Seq(LinesOf(B))
  BY PickedAre
<1>4. EntryPasskeys(t) = [i \in DOMAIN held |-> held[i].body.value]
  BY DEF EntryPasskeys
<1> HIDE DEF b
<1>5. I = PlacesIn(b, 2, PasskeysOf(B))
  <2>1. \A i \in 2..Len(t) : i \in 1..Len(t) /\ b[i] \in B /\ b[i] = t[i].body
    BY <1>1
  <2> QED BY <1>1, <2>1 DEF PasskeysAt, PlacesIn, PasskeysOf, IsPasskey
<1> HIDE DEF held, I
<1>6. d \in Seq(B) /\ Len(d) = Len(held) /\ \A i \in 1..Len(held) : d[i] = held[i].body
  BY <1>3, BodiesOf
<1> HIDE DEF d
<1>7. DOMAIN d = 1..Len(held) /\ DOMAIN held = 1..Len(held)
  BY <1>3, <1>6
<1>8. EntryPasskeys(t) = ValuesOf(d)
  BY <1>4, <1>6, <1>7 DEF ValuesOf
<1> QED BY <1>2, <1>5, <1>8 DEF AllIn, b

LEMMA CountByBodies ==
  ASSUME NEW B, NEW t \in Seq(LinesOf(B))
  PROVE  Count(t) = Len(AllIn(Bodies(t), 1, UrisOf(B)))
<1> DEFINE b == Bodies(t)
           I == {i \in DOMAIN t : t[i].body.key = UriKey}
<1>1. /\ b \in Seq(B) /\ Len(b) = Len(t) /\ Len(t) \in Nat /\ DOMAIN t = 1..Len(t)
      /\ \A i \in 1..Len(t) : b[i] = t[i].body
  BY BodiesOf
<1>2. Count(t) = Len(Picked(b, I))
  BY DEF Count
<1> HIDE DEF b
<1>3. I = PlacesIn(b, 1, UrisOf(B))
  <2>1. \A i \in 1..Len(t) : b[i] \in B
    BY <1>1
  <2> QED BY <1>1, <2>1 DEF PlacesIn, UrisOf
<1> QED BY <1>2, <1>3 DEF AllIn, b

\* Bodies of what the edits make.
LEMMA BodiesWithLine ==
  ASSUME NEW B, NEW t \in Seq(LinesOf(B)), Lines(t), NEW x \in B
  PROVE  Bodies(WithLine(t, x)) = Append(Bodies(t), x) /\ WithLine(t, x) \in Seq(LinesOf(B))
<1> DEFINE w == WithLine(t, x)
           b == Bodies(t)
           c == Append(b, x)
           n == Len(t) + 1
<1>1. /\ w \in Seq(LinesOf(B)) /\ Len(w) = n
      /\ \A i \in 1..Len(t) : w[i].body = t[i].body
      /\ w[n].body = x
  BY LineAdded DEF TextOf
<1>2. b \in Seq(B) /\ Len(b) = Len(t) /\ Len(t) \in Nat /\ \A i \in 1..Len(t) : b[i] = t[i].body
  BY BodiesOf
<1> HIDE DEF w, b
<1>3. c \in Seq(B) /\ Len(c) = n /\ c[n] = x /\ \A i \in 1..Len(t) : c[i] = b[i]
  BY <1>2
<1> HIDE DEF c
<1>4. \A i \in 1..n : i = n \/ i \in 1..Len(t)
  BY <1>2
<1> HIDE DEF n
<1>5. \A i \in 1..Len(w) : c[i] = w[i].body
  BY <1>1, <1>2, <1>3, <1>4
<1>6. Bodies(w) = c
  BY <1>1, <1>3, <1>5, SameBodies
<1> QED BY <1>1, <1>6 DEF w, b, c

LEMMA BodiesWithout ==
  ASSUME NEW B, NEW t \in Seq(LinesOf(B)), NEW n \in 0..Len(t)
  PROVE  Bodies(Without(t, n)) = Without(Bodies(t), n) /\ Without(t, n) \in Seq(LinesOf(B))
<1>1. CASE n = 0
  BY <1>1 DEF Without
<1>2. CASE n # 0
  <2>1. n \in 1..Len(t)
    BY <1>2
  <2>2. Drops(t, RemoveAt(t, n), n)
    BY <2>1, RemovedDrops
  <2>3. RemoveAt(t, n) \in Seq(LinesOf(B))
    BY <2>1, ElementRemoved
  <2> QED BY <1>2, <2>2, <2>3 DEF Drops, Without
<1> QED BY <1>1, <1>2

PutAt(s, n, x) == [s EXCEPT ![n] = x]

LEMMA BodiesReplaced ==
  ASSUME NEW B, NEW t \in Seq(LinesOf(B)), NEW n \in 1..Len(t), NEW l \in LinesOf(B)
  PROVE  /\ Bodies(PutAt(t, n, l)) = PutAt(Bodies(t), n, l.body)
         /\ PutAt(t, n, l) \in Seq(LinesOf(B)) /\ l.body \in B /\ Len(PutAt(t, n, l)) = Len(t)
<1> DEFINE u == [t EXCEPT ![n] = l]
           b == Bodies(t)
           c == [b EXCEPT ![n] = l.body]
<1>1. /\ u \in Seq(LinesOf(B)) /\ Len(u) = Len(t)
      /\ \A i \in 1..Len(t) : u[i] = IF i = n THEN l ELSE t[i]
  BY ExceptSeq
<1>2. b \in Seq(B) /\ Len(b) = Len(t) /\ \A i \in 1..Len(t) : b[i] = t[i].body
  BY BodiesOf
<1>3. l.body \in B
  BY LineIsRecord
<1> HIDE DEF u, b
<1>4. /\ c \in Seq(B) /\ Len(c) = Len(b)
      /\ \A i \in 1..Len(b) : c[i] = IF i = n THEN l.body ELSE b[i]
  BY <1>2, <1>3, ExceptSeq
<1> HIDE DEF c
<1>5. Bodies(u) = c
  <2>1. \A i \in 1..Len(u) : c[i] = u[i].body
    BY <1>1, <1>2, <1>4
  <2> QED BY <1>1, <1>2, <1>4, <2>1, SameBodies
<1> QED BY <1>1, <1>3, <1>5 DEF u, b, c, PutAt

-----------------------------------------------------------------------------
\* A body in S put where the first of S stands, or else on a line of its own, is
\* the first of S.
LEMMA PutLast ==
  ASSUME NEW B, NEW t \in Seq(LinesOf(B)), Lines(t), NEW x \in B, NEW S, x \in S,
         NEW m \in Nat \ {0}, m <= Len(t) + 1, FirstIn(Bodies(t), m, S) = 0,
         NEW u, u = WithLine(t, x), NEW i, i = FirstIn(Bodies(u), m, S)
  PROVE  i # 0 /\ i \in 1..Len(u) /\ u[i].body = x /\ u \in Seq(LinesOf(B))
<1> DEFINE b == Bodies(t)
           c == Append(b, x)
           n == Len(b) + 1
<1>1. b \in Seq(B) /\ Len(b) = Len(t) /\ FirstIn(b, m, S) = 0
  BY BodiesOf
<1>2. Bodies(u) = c /\ u \in Seq(LinesOf(B))
  BY BodiesWithLine
<1>3. Len(u) = Len(c) /\ \A j \in 1..Len(u) : c[j] = u[j].body
  BY <1>2, BodiesOf
<1> HIDE DEF b
<1>4. FirstIn(c, m, S) = IF m <= n /\ x \in S THEN n ELSE 0
  BY <1>1, FirstInGrows
<1>5. Len(c) = n /\ c[n] = x /\ n \in 1..n /\ n # 0
  BY <1>1
<1>6. m <= n
  BY <1>1
<1> HIDE DEF c, n
<1> QED BY <1>2, <1>3, <1>4, <1>5, <1>6

LEMMA PutInPlace ==
  ASSUME NEW B, NEW t \in Seq(LinesOf(B)), NEW x \in B, NEW S, x \in S,
         NEW m \in Nat \ {0}, NEW n, n = FirstIn(Bodies(t), m, S), n # 0,
         NEW l \in LinesOf(B), l.body = x, NEW u, u = PutAt(t, n, l),
         NEW i, i = FirstIn(Bodies(u), m, S)
  PROVE  i # 0 /\ i \in 1..Len(u) /\ u[i].body = x /\ u \in Seq(LinesOf(B))
<1> DEFINE b == Bodies(t)
           c == PutAt(b, n, x)
<1>1. b \in Seq(B) /\ Len(b) = Len(t) /\ n = FirstIn(b, m, S)
  BY BodiesOf
<1> HIDE DEF b
<1>2. FirstIn(c, m, S) = n /\ c[n] = x /\ n \in 1..Len(b)
  BY <1>1, FirstReplaced DEF PutAt
<1>3. n \in 1..Len(t)
  BY <1>1, <1>2
<1>4. Bodies(u) = c /\ u \in Seq(LinesOf(B)) /\ Len(u) = Len(t)
  <2> DEFINE r == PutAt(t, n, l)
  <2>1. Bodies(r) = PutAt(Bodies(t), n, l.body) /\ r \in Seq(LinesOf(B)) /\ Len(r) = Len(t)
    <3> HIDE DEF c, r
    <3>1. \A j \in 1..Len(t), y \in LinesOf(B) :
            /\ Bodies(PutAt(t, j, y)) = PutAt(Bodies(t), j, y.body)
            /\ PutAt(t, j, y) \in Seq(LinesOf(B)) /\ Len(PutAt(t, j, y)) = Len(t)
      BY BodiesReplaced
    <3> QED BY <1>3, <3>1 DEF r
  <2> QED BY <2>1 DEF b
<1>5. \A j \in 1..Len(u) : c[j] = u[j].body
  BY <1>4, BodiesOf
<1> HIDE DEF c
<1> QED BY <1>2, <1>3, <1>4, <1>5

\* set_field, then fields.
NamesField(k) == k \notin {"", UriKey}

LEMMA FieldReadsBack ==
  ASSUME NEW B, NEW t \in Seq(LinesOf(B)), Lines(t), t # <<>>,
         NEW k, NamesField(k), NEW v, FieldLine(k, v) \in B
  PROVE  FieldValue(SetField(t, k, v), k) = v
<1> DEFINE x == FieldLine(k, v)
           S == FieldsOf(B, k, {y.value : y \in B})
           n == FirstIn(Bodies(t), 2, S)
           u == SetField(t, k, v)
           i == FirstIn(Bodies(u), 2, S)
<1>1. x \in B /\ x.value = v /\ x \in S
  BY DEF FieldLine, FieldsOf, NamesField
<1>2. 2 \in Nat \ {0} /\ 2 <= Len(t) + 1
  BY EmptySeq
<1>3. FieldAt(t, k, Values(t)) = n
  BY AnyFieldByBodies
<1>4. i # 0 /\ i \in 1..Len(u) /\ u[i].body = x /\ u \in Seq(LinesOf(B))
  <2>1. CASE n = 0
    <3>1. u = WithLine(t, x)
      BY <1>3, <2>1 DEF SetField, AppendField
    <3> HIDE DEF x, S, u
    <3> QED BY <1>1, <1>2, <2>1, <3>1, PutLast
  <2>2. CASE n # 0
    <3> DEFINE e == IF t[n].end = "crlf" THEN "lf" ELSE t[n].end
               l == Line(x, e)
    <3>1. u = PutAt(t, n, l)
      BY <1>3, <2>2 DEF SetField, PutAt
    <3>2. l \in LinesOf(B) /\ l.body = x
      <4>1. Bodies(t) \in Seq(B) /\ Len(Bodies(t)) = Len(t)
        BY BodiesOf
      <4>2. n \in 1..Len(t)
        <5> HIDE DEF S
        <5> QED BY <1>2, <2>2, <4>1, FirstInIs
      <4> HIDE DEF n
      <4>3. t[n] \in LinesOf(B)
        BY <4>2
      <4>4. e \in Ends
        BY <4>3, LineIsRecord DEF Ends
      <4> HIDE DEF e, x
      <4> QED BY <1>1, <4>4, NewLine
    <3>3. n = FirstIn(Bodies(t), 2, S) /\ i = FirstIn(Bodies(u), 2, S)
      OBVIOUS
    <3> HIDE DEF x, S, u, l, n, i
    <3> QED BY <1>1, <1>2, <2>2, <3>1, <3>2, <3>3, PutInPlace
  <2> QED BY <2>1, <2>2
<1> HIDE DEF x, u
<1>5. FieldAt(u, k, Values(u)) = i
  BY <1>4, AnyFieldByBodies
<1> HIDE DEF i
<1>6. FieldValue(u, k) = u[i].body.value
  BY <1>4, <1>5 DEF FieldValue
<1> QED BY <1>1, <1>4, <1>6 DEF u

\* set_otpauth, then otpauth.
LEMMA OtpauthReadsBack ==
  ASSUME NEW B, NEW t \in Seq(LinesOf(B)), Lines(t), NEW v, FieldLine(UriKey, v) \in B
  PROVE  Otpauth(SetOtpauth(t, v)) = v
<1> DEFINE x == FieldLine(UriKey, v)
           S == UrisOf(B)
           n == FirstIn(Bodies(t), 1, S)
           u == SetOtpauth(t, v)
           i == FirstIn(Bodies(u), 1, S)
<1>1. x \in B /\ x.value = v /\ x \in S
  BY DEF FieldLine, UrisOf
<1>2. 1 \in Nat \ {0} /\ 1 <= Len(t) + 1
  OBVIOUS
<1>3. UriAt(t) = n
  BY UriByBodies
<1>4. i # 0 /\ i \in 1..Len(u) /\ u[i].body = x /\ u \in Seq(LinesOf(B))
  <2>1. CASE n = 0
    <3>1. u = WithLine(t, x)
      BY <1>3, <2>1 DEF SetOtpauth
    <3> HIDE DEF x, S, u
    <3> QED BY <1>1, <1>2, <2>1, <3>1, PutLast
  <2>2. CASE n # 0
    <3> DEFINE l == [t[n] EXCEPT !.body = x]
    <3>1. u = PutAt(t, n, l)
      BY <1>3, <2>2 DEF SetOtpauth, WithBody, PutAt
    <3>2. l \in LinesOf(B) /\ l.body = x
      <4>1. Bodies(t) \in Seq(B) /\ Len(Bodies(t)) = Len(t)
        BY BodiesOf
      <4>2. n \in 1..Len(t)
        <5> HIDE DEF S
        <5> QED BY <1>2, <2>2, <4>1, FirstInIs
      <4> HIDE DEF n, x
      <4>3. t[n] \in LinesOf(B)
        BY <4>2
      <4> QED BY <1>1, <4>3, LineIsRecord
    <3>3. n = FirstIn(Bodies(t), 1, S) /\ i = FirstIn(Bodies(u), 1, S)
      OBVIOUS
    <3> HIDE DEF x, S, u, l, n, i
    <3> QED BY <1>1, <1>2, <2>2, <3>1, <3>2, <3>3, PutInPlace
  <2> QED BY <2>1, <2>2
<1> HIDE DEF x, u
<1>5. UriAt(u) = i
  BY <1>4, UriByBodies
<1> HIDE DEF i
<1>6. Otpauth(u) = u[i].body.value
  BY <1>5 DEF Otpauth
<1> QED BY <1>1, <1>4, <1>6 DEF u

\* remove_otpauth.
LEMMA UriCountedOut ==
  ASSUME NEW B, NEW t \in Seq(LinesOf(B))
  PROVE  Count(RemoveOtpauth(t)) = Count(t) - (IF UriAt(t) > 1 THEN 1 ELSE 0)
<1> DEFINE S == UrisOf(B)
           b == Bodies(t)
           n == UriAt(t)
           o == AllIn(b, 1, S)
           u == Without(t, n)
<1>1. b \in Seq(B) /\ n \in 0..Len(t) /\ n = FirstIn(b, 1, S) /\ Count(t) = Len(o)
  BY BodiesOf, UriByBodies, CountByBodies, LinesFound
<1> HIDE DEF b, n
<1>2. /\ AllIn(LessFirst(b, 1, S), 1, S) = LessFirst(o, 1, S)
      /\ n # 0 <=> FirstIn(o, 1, S) # 0
      /\ o \in Seq(B)
  <2>1. b \in Seq(B) /\ 1 \in Nat \ {0} /\ S \subseteq S
    BY <1>1
  <2> HIDE DEF S
  <2> QED BY <1>1, <2>1, FirstOfAllGoes
<1>3. Bodies(u) = LessFirst(b, 1, S) /\ u \in Seq(LinesOf(B))
  BY <1>1, BodiesWithout DEF LessFirst, b
<1> HIDE DEF u, S
<1>4. Count(u) = Len(LessFirst(o, 1, S))
  BY <1>2, <1>3, CountByBodies DEF S
<1> HIDE DEF o
<1>5. n # 0 => Len(LessFirst(o, 1, S)) = Len(o) - 1
  BY <1>2, LessFirstIs
<1>6. Len(o) \in Nat
  BY <1>2
<1>7. n \in Nat
  BY <1>1
<1>8. CASE n = 0
  <2>1. RemoveOtpauth(t) = t
    BY <1>8 DEF RemoveOtpauth, Without, n
  <2> QED BY <1>1, <1>6, <1>8, <2>1 DEF n
<1>9. CASE n = 1
  <2>1. RemoveOtpauth(t) = t
    BY <1>9 DEF RemoveOtpauth, n
  <2> QED BY <1>1, <1>6, <1>9, <2>1 DEF n
<1>10. CASE n > 1
  <2>1. RemoveOtpauth(t) = u
    BY <1>10 DEF RemoveOtpauth, n, u
  <2> QED BY <1>1, <1>4, <1>5, <1>7, <1>10, <2>1 DEF n
<1> QED BY <1>7, <1>8, <1>9, <1>10

-----------------------------------------------------------------------------
\* Passkeys.
LEMMA ValuesAre ==
  ASSUME NEW B, NEW s \in Seq(B)
  PROVE  /\ ValuesOf(s) \in Seq({x.value : x \in B}) /\ Len(ValuesOf(s)) = Len(s)
         /\ \A i \in 1..Len(s) : ValuesOf(s)[i] = s[i].value
<1>1. DOMAIN s = 1..Len(s) /\ Len(s) \in Nat /\ \A i \in 1..Len(s) : s[i] \in B
  OBVIOUS
<1> QED BY <1>1 DEF ValuesOf

LEMMA ValuesGrow ==
  ASSUME NEW B, NEW s \in Seq(B), NEW x \in B
  PROVE  ValuesOf(Append(s, x)) = ValuesOf(s) \o <<x.value>>
<1> DEFINE V == {y.value : y \in B}
           u == Append(s, x)
           a == ValuesOf(u)
           b == ValuesOf(s)
           c == b \o <<x.value>>
           n == Len(s) + 1
<1>1. /\ u \in Seq(B) /\ Len(u) = n /\ u[n] = x /\ Len(s) \in Nat
      /\ \A i \in 1..Len(s) : u[i] = s[i]
  OBVIOUS
<1>2. x.value \in V
  OBVIOUS
<1>3. b \in Seq(V) /\ Len(b) = Len(s) /\ \A i \in 1..Len(s) : b[i] = s[i].value
  <2> HIDE DEF c, u
  <2> QED BY ValuesAre
<1>4. a \in Seq(V) /\ Len(a) = n /\ \A i \in 1..n : a[i] = u[i].value
  <2> HIDE DEF u
  <2> QED BY <1>1, ValuesAre
<1> HIDE DEF u, a, b, V
<1>5. c \in Seq(V) /\ Len(c) = n /\ c[n] = x.value /\ \A i \in 1..Len(s) : c[i] = b[i]
  <2> DEFINE z == x.value
  <2>1. z \in V /\ <<z>> \in Seq(V) /\ Len(<<z>>) = 1 /\ <<z>>[1] = z
    BY <1>2
  <2> HIDE DEF z
  <2>2. b \o <<z>> \in Seq(V) /\ Len(b \o <<z>>) = n
    BY <1>1, <1>3, <2>1
  <2>3. (b \o <<z>>)[n] = z
    BY <1>1, <1>3, <2>1
  <2>4. \A i \in 1..Len(s) : (b \o <<z>>)[i] = b[i]
    BY <1>3, <2>1
  <2> QED BY <2>2, <2>3, <2>4 DEF z
<1> HIDE DEF c
<1>6. \A i \in 1..n : i = n \/ i \in 1..Len(s)
  BY <1>1
<1> HIDE DEF n
<1>7. \A i \in 1..n : a[i] = c[i]
  BY <1>1, <1>3, <1>4, <1>5, <1>6
<1>8. a = c
  BY <1>4, <1>5, <1>7, SeqEqual
<1> QED BY <1>8 DEF a, b, c, u

LEMMA ValuesWithout ==
  ASSUME NEW B, NEW s \in Seq(B), NEW n \in 0..Len(s)
  PROVE  ValuesOf(Without(s, n)) = Without(ValuesOf(s), n)
<1> DEFINE V == {y.value : y \in B}
           r == RemoveAt(s, n)
           a == ValuesOf(r)
           b == ValuesOf(s)
           c == RemoveAt(b, n)
           N == 1..(Len(s) - 1)
<1>1. b \in Seq(V) /\ Len(b) = Len(s) /\ \A i \in 1..Len(s) : b[i] = s[i].value
  BY ValuesAre
<1>2. CASE n # 0
  <2>1. n \in 1..Len(s)
    BY <1>2
  <2>2. r \in Seq(B) /\ Len(r) = Len(s) - 1 /\ \A j \in N : r[j] = IF j < n THEN s[j] ELSE s[j + 1]
    BY <2>1, ElementRemoved
  <2>3. a \in Seq(V) /\ Len(a) = Len(s) - 1 /\ \A j \in N : a[j] = r[j].value
    <3> HIDE DEF r
    <3> QED BY <2>2, ValuesAre
  <2> HIDE DEF b, a, r
  <2>4. c \in Seq(V) /\ Len(c) = Len(s) - 1 /\ \A j \in N : c[j] = IF j < n THEN b[j] ELSE b[j + 1]
    <3>1. n \in 1..Len(b)
      BY <1>1, <2>1
    <3> HIDE DEF V
    <3> QED BY <1>1, <3>1, ElementRemoved
  <2> HIDE DEF c, V
  <2>5. \A j \in N : j \in 1..Len(s) /\ j + 1 \in 1..Len(s)
    OBVIOUS
  <2>6. \A j \in N : a[j] = c[j]
    <3> HIDE DEF N
    <3> QED BY <1>1, <2>2, <2>3, <2>4, <2>5
  <2>7. a = c
    BY <2>3, <2>4, <2>6, SeqEqual
  <2> QED BY <1>2, <2>7 DEF Without, a, b, c, r
<1>3. CASE n = 0
  BY <1>3 DEF Without
<1> QED BY <1>2, <1>3

LEMMA OnlyOne ==
  ASSUME NEW v, NEW S
  PROVE  Only(<<v>>, S) = IF v \in S THEN <<v>> ELSE <<>>
<1> DEFINE T == {v}
           I == {i \in DOMAIN <<v>> : <<v>>[i] \in S}
           e == <<>>
<1>1. Only(<<v>>, S) = Picked(<<v>>, I)
  BY DEF Only
<1>2. 1 \in I <=> v \in S
  OBVIOUS
<1>3. e \in Seq(T) /\ v \in T /\ Append(e, v) = <<v>> /\ Len(e) = 0 /\ 0 + 1 = 1
  OBVIOUS
<1>4. Picked(e, I) = e
  BY PickedNothing
<1> HIDE DEF e, I, T
<1>5. ASSUME NEW q \in Seq(T), NEW x \in T
      PROVE  Picked(Append(q, x), I) =
               IF Len(q) + 1 \in I THEN Append(Picked(q, I), x) ELSE Picked(q, I)
  BY PickedGrows
<1>6. Picked(Append(e, v), I) = IF 1 \in I THEN Append(Picked(e, I), v) ELSE Picked(e, I)
  BY <1>3, <1>5
<1> QED BY <1>1, <1>2, <1>3, <1>4, <1>6 DEF e

\* entry_add_passkey, then entry_passkeys and password.
LEMMA PasskeyOnLine ==
  ASSUME NEW B, NEW t \in Seq(LinesOf(B)), Lines(t), t # <<>>, NEW v,
         FieldLine(PasskeyKey, v) \in B, NEW u, u = AppendField(t, PasskeyKey, v)
  PROVE  /\ EntryPasskeys(u) = EntryPasskeys(t) \o Only(<<v>>, DOMAIN Credential)
         /\ Password(u)[1] = t[1].body
<1> DEFINE x == FieldLine(PasskeyKey, v)
           S == PasskeysOf(B)
           b == Bodies(t)
           c == Append(b, x)
           o == AllIn(b, 2, S)
<1>1. u = WithLine(t, x) /\ x \in B /\ x.value = v /\ (x \in S <=> v \in DOMAIN Credential)
  BY DEF AppendField, FieldLine, PasskeysOf
<1>2. b \in Seq(B) /\ Len(b) = Len(t) /\ Len(t) \in Nat \ {0}
  BY BodiesOf, EmptySeq
<1> HIDE DEF x
<1>3. Bodies(u) = c /\ u \in Seq(LinesOf(B))
  BY <1>1, BodiesWithLine
<1>4. /\ Len(u) = Len(t) + 1 /\ \A i \in 1..Len(t) : u[i].body = t[i].body
  BY <1>1, LineAdded
<1>5. Password(u)[1] = t[1].body
  <2>1. u # <<>> /\ 1 \in 1..Len(t)
    BY <1>2, <1>3, <1>4, EmptySeq
  <2>2. Password(u) = <<u[1].body, u[1].end = "crlf">>
    BY <2>1 DEF Password, Seen
  <2> QED BY <1>4, <2>1, <2>2
<1>6. EntryPasskeys(u) = ValuesOf(AllIn(c, 2, S)) /\ EntryPasskeys(t) = ValuesOf(o)
  <2> HIDE DEF c, b
  <2> QED BY <1>3, PasskeysByBodies DEF b
<1> HIDE DEF b, S
<1>7. AllIn(c, 2, S) = IF x \in S THEN Append(o, x) ELSE o
  <2>1. 2 \in Nat \ {0} /\ 2 <= Len(b) + 1
    BY <1>2
  <2> QED BY <1>1, <1>2, <2>1, AllInGrows
<1>8. o \in Seq(B)
  <2>1. \A i \in 1..Len(b) : i \in PlacesIn(b, 2, S) => b[i] \in B
    BY <1>2
  <2> QED BY <1>2, <2>1, PickedYields DEF AllIn
<1> HIDE DEF c, o
<1>9. ValuesOf(Append(o, x)) = ValuesOf(o) \o <<v>>
  BY <1>1, <1>8, ValuesGrow
<1>10. ValuesOf(o) \o <<>> = ValuesOf(o)
  <2>1. ValuesOf(o) \in Seq({y.value : y \in B})
    BY <1>8, ValuesAre
  <2> QED BY <2>1
<1>11. Only(<<v>>, DOMAIN Credential) = IF v \in DOMAIN Credential THEN <<v>> ELSE <<>>
  BY OnlyOne
<1> QED
  <2>1. CASE x \in S
    BY <1>1, <1>5, <1>6, <1>7, <1>9, <1>11, <2>1
  <2>2. CASE x \notin S
    BY <1>1, <1>5, <1>6, <1>7, <1>10, <1>11, <2>2
  <2> QED BY <2>1, <2>2

LEMMA PasskeyReadsBack ==
  ASSUME NEW B, NEW t \in Seq(LinesOf(B)), Lines(t), NEW v,
         Blank \in B, FieldLine(PasskeyKey, v) \in B,
         NEW u, u = EntryAddPasskey(t, v)
  PROVE  /\ EntryPasskeys(u) = EntryPasskeys(t) \o Only(<<v>>, DOMAIN Credential)
         /\ Password(u)[1] = Password(t)[1]
<1>1. CASE t # <<>>
  <2>1. u = AppendField(t, PasskeyKey, v)
    BY <1>1 DEF EntryAddPasskey
  <2>2. Password(t)[1] = t[1].body
    BY <1>1 DEF Password, Seen
  <2> QED BY <1>1, <2>1, <2>2, PasskeyOnLine
<1>2. CASE t = <<>>
  <2> DEFINE l == Line(Blank, "lf")
             s == <<l>>
             e == <<>>
             S == PasskeysOf(B)
  <2>1. u = AppendField(s, PasskeyKey, v)
    BY <1>2 DEF EntryAddPasskey
  <2>2. l \in LinesOf(B) /\ l.body = Blank /\ l.end # "none"
    BY NewLine DEF Ends, Line
  <2> HIDE DEF l
  <2>3. s \in Seq(LinesOf(B)) /\ s # <<>> /\ s[1] = l /\ Len(s) = 1
    BY <2>2
  <2>4. Lines(s)
    BY <2>2, <2>3 DEF Lines
  <2>5. Password(t)[1] = Blank
    BY <1>2 DEF Password
  <2>6. Bodies(s) = <<Blank>> /\ Bodies(t) = e
    BY <1>2, <2>2 DEF Bodies
  <2>7. /\ EntryPasskeys(s) = ValuesOf(AllIn(<<Blank>>, 2, S))
        /\ EntryPasskeys(t) = ValuesOf(AllIn(e, 2, S))
    <3> HIDE DEF s, S, e
    <3> QED BY <2>3, <2>6, PasskeysByBodies DEF S
  <2>8. AllIn(<<Blank>>, 2, S) = AllIn(e, 2, S)
    <3>1. e \in Seq(B) /\ 2 \in Nat \ {0} /\ ~(2 <= Len(e) + 1) /\ Append(e, Blank) = <<Blank>>
      OBVIOUS
    <3> HIDE DEF e, S
    <3>2. ASSUME NEW y \in B
          PROVE  AllIn(Append(e, y), 2, S) = AllIn(e, 2, S)
      BY <3>1, AllInGrows
    <3>3. AllIn(Append(e, Blank), 2, S) = AllIn(e, 2, S)
      BY <3>2
    <3> QED BY <3>1, <3>3
  <2> HIDE DEF s
  <2>9. /\ EntryPasskeys(u) = EntryPasskeys(s) \o Only(<<v>>, DOMAIN Credential)
        /\ Password(u)[1] = s[1].body
    BY <2>1, <2>3, <2>4, PasskeyOnLine
  <2> QED BY <2>2, <2>3, <2>5, <2>7, <2>8, <2>9
<1> QED BY <1>1, <1>2

\* entry_remove_passkey, then entry_passkeys.
LEMMA PasskeyIsField ==
  ASSUME NEW B, NEW V, V \subseteq DOMAIN Credential
  PROVE  \A x \in PasskeysOf(B) : x \in FieldsOf(B, PasskeyKey, V) <=> x.value \in V
<1>1. PasskeyKey \notin {"", UriKey}
  BY DEF PasskeyKey, UriKey
<1> QED BY <1>1, Zenon DEF PasskeysOf, FieldsOf

LEMMA FieldIsPasskey ==
  ASSUME NEW B, NEW V, V \subseteq DOMAIN Credential
  PROVE  FieldsOf(B, PasskeyKey, V) \subseteq PasskeysOf(B)
BY Zenon DEF PasskeysOf, FieldsOf

LEMMA PasskeyReadsGone ==
  ASSUME NEW B, NEW t \in Seq(LinesOf(B)), NEW id,
         NEW u, u = EntryRemovePasskey(t, id), NEW at,
         at = First({i \in 1..Len(EntryPasskeys(t)) : Credential[EntryPasskeys(t)[i]] = id})
  PROVE  EntryPasskeys(u) = Without(EntryPasskeys(t), at)
<1> DEFINE V == {v \in DOMAIN Credential : Credential[v] = id}
           R == FieldsOf(B, PasskeyKey, V)
           S == PasskeysOf(B)
           b == Bodies(t)
           n == FirstIn(b, 2, R)
           o == AllIn(b, 2, S)
           w == ValuesOf(o)
           A == {i \in 1..Len(w) : Credential[w[i]] = id}
           f == FirstIn(o, 1, R)
<1>1. /\ R \subseteq S
      /\ \A x \in S : (x \in R <=> x.value \in V) /\ x.value \in DOMAIN Credential
  <2>1. V \subseteq DOMAIN Credential
    OBVIOUS
  <2>2. \A x \in S : x.value \in DOMAIN Credential
    BY DEF PasskeysOf
  <2> HIDE DEF V
  <2> QED BY <2>1, <2>2, PasskeyIsField, FieldIsPasskey
<1>2. FieldAt(t, PasskeyKey, V) = n
  BY FieldByBodies
<1>3. u = Without(t, n)
  BY <1>2 DEF EntryRemovePasskey, RemoveFieldWhere
<1>4. EntryPasskeys(t) = w
  BY PasskeysByBodies
<1>5. b \in Seq(B) /\ Len(b) = Len(t) /\ 2 \in Nat \ {0}
  BY BodiesOf
<1>6. at = First(A)
  BY <1>4
<1>7. \A x \in S : x \in R <=> Credential[x.value] = id
  BY <1>1
<1> HIDE DEF R, S, b
<1>8. o \in Seq(S)
  <2>1. \A i \in 1..Len(b) : i \in PlacesIn(b, 2, S) => b[i] \in S
    BY DEF PlacesIn
  <2> QED BY <1>5, <2>1, PickedYields DEF AllIn
<1>9. n \in 0..Len(t)
  <2>1. n = 0 \/ n \in 1..Len(b)
    BY <1>5, FirstInIs
  <2> QED BY <1>5, <2>1
<1>10. Bodies(u) = LessFirst(b, 2, R) /\ u \in Seq(LinesOf(B))
  <2>1. Bodies(u) = Without(Bodies(t), n) /\ u \in Seq(LinesOf(B))
    BY <1>3, <1>9, BodiesWithout
  <2> QED BY <2>1 DEF LessFirst, b
<1>11. EntryPasskeys(u) = ValuesOf(AllIn(LessFirst(b, 2, R), 2, S))
  BY <1>10, PasskeysByBodies DEF S
<1>12. AllIn(LessFirst(b, 2, R), 2, S) = LessFirst(o, 1, R)
  <2>1. R \subseteq S /\ 2 \in Nat \ {0}
    BY <1>1
  <2>2. \A s \in Seq(B) :
          /\ AllIn(LessFirst(s, 2, R), 2, S) = LessFirst(AllIn(s, 2, S), 1, R)
          /\ FirstIn(s, 2, R) # 0 <=> FirstIn(AllIn(s, 2, S), 1, R) # 0
          /\ AllIn(s, 2, S) \in Seq(B)
    BY <2>1, FirstOfAllGoes
  <2> QED BY <1>5, <2>2
<1> HIDE DEF o, V
<1>13. Len(w) = Len(o) /\ \A i \in 1..Len(o) : w[i] = o[i].value /\ o[i] \in S
  <2>1. Len(w) = Len(o) /\ \A i \in 1..Len(o) : w[i] = o[i].value
    BY <1>8, ValuesAre
  <2>2. \A i \in 1..Len(o) : o[i] \in S
    BY <1>8
  <2> QED BY <2>1, <2>2
<1> HIDE DEF w
<1>14. A = PlacesIn(o, 1, R)
  BY <1>7, <1>13 DEF PlacesIn
<1>15. at = f
  BY <1>6, <1>14 DEF FirstIn
<1>16. f \in 0..Len(o)
  <2>1. f = 0 \/ f \in 1..Len(o)
    BY <1>8, FirstInIs
  <2> QED BY <1>8, <2>1
<1> HIDE DEF f
<1>17. ValuesOf(Without(o, f)) = Without(w, f)
  BY <1>8, <1>16, ValuesWithout DEF w
<1> QED BY <1>4, <1>11, <1>12, <1>15, <1>17 DEF LessFirst, f

\* What ReadsBack asks of each edit.
LEMMA ReadsBackIs ==
  ASSUME NEW t, NEW u
  PROVE  /\ \A p : ReadsBack(t, u, <<"password", p>>)
         /\ \A v : Otpauth(u) = v => ReadsBack(t, u, <<"otpauth", v>>)
         /\ Count(u) = Count(t) - (IF UriAt(t) > 1 THEN 1 ELSE 0)
              => ReadsBack(t, u, <<"no otpauth">>)
         /\ \A k, v : (t # <<>> => FieldValue(u, k) = v) => ReadsBack(t, u, <<"field", k, v>>)
         /\ \A v : /\ EntryPasskeys(u) = EntryPasskeys(t) \o Only(<<v>>, DOMAIN Credential)
                   /\ Password(u)[1] = Password(t)[1]
                   => ReadsBack(t, u, <<"passkey", v>>)
         /\ \A id : EntryPasskeys(u) = Without(EntryPasskeys(t),
                      First({i \in 1..Len(EntryPasskeys(t)) : Credential[EntryPasskeys(t)[i]] = id}))
                    => ReadsBack(t, u, <<"no passkey", id>>)
BY DEF ReadsBack, SelectInSeq, First

LEMMA EntryReads ==
  ASSUME Whole, EntryEdit, \A k \in FieldKeys : NamesField(k)
  PROVE  ReadsBack(text, text', last')
<1>1. PICK B0 : TextOf(text, B0)
  BY DEF Whole
<1>2. ASSUME NEW p \in Passwords, last' = <<"password", p>>
      PROVE  ReadsBack(text, text', last')
  BY <1>2, ReadsBackIs
<1>3. ASSUME NEW u \in Uris, text' = SetOtpauth(text, u), last' = <<"otpauth", u>>
      PROVE  ReadsBack(text, text', last')
  <2> DEFINE B == B0 \cup {FieldLine(UriKey, u)}
  <2>1. text \in Seq(LinesOf(B)) /\ Lines(text) /\ FieldLine(UriKey, u) \in B
    BY <1>1, TextsGrow DEF TextOf
  <2> HIDE DEF B
  <2>2. Otpauth(text') = u
    BY <1>3, <2>1, OtpauthReadsBack
  <2> QED BY <1>3, <2>2, ReadsBackIs
<1>4. ASSUME text' = RemoveOtpauth(text), last' = <<"no otpauth">>
      PROVE  ReadsBack(text, text', last')
  <2>1. Count(text') = Count(text) - (IF UriAt(text) > 1 THEN 1 ELSE 0)
    BY <1>1, <1>4, UriCountedOut DEF TextOf
  <2> QED BY <1>4, <2>1, ReadsBackIs
<1>5. ASSUME NEW k \in FieldKeys, NEW v \in FieldValues,
             text' = SetField(text, k, v), last' = <<"field", k, v>>
      PROVE  ReadsBack(text, text', last')
  <2> DEFINE B == B0 \cup {FieldLine(k, v)}
  <2>1. text \in Seq(LinesOf(B)) /\ Lines(text) /\ FieldLine(k, v) \in B
    BY <1>1, TextsGrow DEF TextOf
  <2> HIDE DEF B
  <2>2. text # <<>> => FieldValue(text', k) = v
    BY <1>5, <2>1, FieldReadsBack
  <2> QED BY <1>5, <2>2, ReadsBackIs
<1>6. ASSUME NEW v \in PasskeyValues, text' = EntryAddPasskey(text, v), last' = <<"passkey", v>>
      PROVE  ReadsBack(text, text', last')
  <2> DEFINE B == B0 \cup {Blank, FieldLine(PasskeyKey, v)}
  <2>1. /\ text \in Seq(LinesOf(B)) /\ Lines(text)
        /\ Blank \in B /\ FieldLine(PasskeyKey, v) \in B
    BY <1>1, TextsGrow DEF TextOf
  <2> HIDE DEF B
  <2>2. /\ EntryPasskeys(text') = EntryPasskeys(text) \o Only(<<v>>, DOMAIN Credential)
        /\ Password(text')[1] = Password(text)[1]
    BY <1>6, <2>1, PasskeyReadsBack
  <2> QED BY <1>6, <2>2, ReadsBackIs
<1>7. ASSUME NEW id, text' = EntryRemovePasskey(text, id), last' = <<"no passkey", id>>
      PROVE  ReadsBack(text, text', last')
  <2> DEFINE held == EntryPasskeys(text)
             at == First({i \in 1..Len(held) : Credential[held[i]] = id})
  <2>1. text \in Seq(LinesOf(B0))
    BY <1>1 DEF TextOf
  <2>2. at = First({i \in 1..Len(EntryPasskeys(text)) :
                      Credential[EntryPasskeys(text)[i]] = id})
    OBVIOUS
  <2> HIDE DEF at
  <2>3. EntryPasskeys(text') = Without(EntryPasskeys(text), at)
    BY <1>7, <2>1, <2>2, PasskeyReadsGone, Zenon
  <2> QED BY <1>7, <2>2, <2>3, ReadsBackIs
<1> QED BY <1>2, <1>3, <1>4, <1>5, <1>6, <1>7 DEF EntryEdit, Edit

\* What an edit of an entry sets is what its readers find afterwards, in texts
\* of any lines: a field, the URI, the passkeys in their order; a URI or a
\* passkey taken away is the one gone, and a passkey added to an entry without
\* a line does not become its password.
THEOREM EditsReadBack == Spec => EditReadsBack
<1>1. \A k \in FieldKeys : NamesField(k)
  BY TextsAssumption, Zenon DEF NamesField
<1>2. ASSUME Glueless, [Next]_vars
      PROVE  [kind = "entry" => ReadsBack(text, text', last')]_vars
  <2>1. CASE EntryEdit
    <3>1. kind = "entry"
      BY <2>1 DEF EntryEdit, Edit
    <3>2. Whole
      BY <1>2, <3>1 DEF Glueless, Edited
    <3> QED BY <1>1, <2>1, <3>2, EntryReads
  <2>2. CASE RecipientsEdit \/ IdentitiesEdit \/ HostsEdit
    BY <2>2 DEF RecipientsEdit, IdentitiesEdit, HostsEdit, Edit
  <2>3. CASE UNCHANGED vars
    BY <2>3
  <2> QED BY <1>2, <2>1, <2>2, <2>3 DEF Next, Done
<1> QED BY StartsWhole, StaysWhole, <1>2, PTL DEF Spec, EditReadsBack
=============================================================================

---------------------------- MODULE LineText_proofs ----------------------------
(***************************************************************************)
(* Lemmas about texts of lines (LineText), the known-hosts file             *)
(* (KnownHosts), what an edit of it leaves pinned, and entries (EntryText), *)
(* what an edit of one makes of its lines.                                  *)
(***************************************************************************)
EXTENDS KnownHosts, EntryText, SequenceTheorems, WellFoundedInduction, TLAPS

\* A nonempty set of numbers has a least element.
LEMMA NumbersHaveLeast ==
  ASSUME NEW S \in SUBSET Nat, S # {}
  PROVE  \E n \in S : \A m \in S : n <= m
<1> DEFINE Below == {p \in Nat \X Nat : p[1] < p[2]}
<1>1. OpToRel(<, Nat) = Below
  BY Zenon DEF OpToRel
<1>2. IsWellFoundedOn(Below, Nat)
  BY <1>1, NatLessThanWellFounded
<1>3. PICK n \in S : \A m \in S : ~(<<m, n>> \in Below)
  <2> HIDE DEF Below
  <2> QED BY <1>2, WFMin, Zenon
<1>4. ASSUME NEW m \in S
      PROVE  n <= m
  <2>1. n \in Nat /\ m \in Nat
    OBVIOUS
  <2>2. ~(m < n)
    BY <1>3, <2>1
  <2> QED BY <2>1, <2>2
<1> QED BY <1>4

\* So has a set of numbers that has a bound a greatest.
LEMMA LastOfNumbers ==
  ASSUME NEW m \in Nat, NEW S, S \subseteq 0..m, S # {}
  PROVE  Max(S) \in S
<1> DEFINE D == {m - x : x \in S}
<1>1. D \in SUBSET Nat /\ D # {}
  <2>1. \A x \in S : m - x \in Nat
    OBVIOUS
  <2> QED BY <2>1
<1>2. PICK d \in D : \A e \in D : d <= e
  <2> HIDE DEF D
  <2> QED BY <1>1, NumbersHaveLeast
<1>3. PICK x \in S : d = m - x
  OBVIOUS
<1>4. ASSUME NEW y \in S
      PROVE  x >= y
  <2>1. x \in Nat /\ y \in Nat
    OBVIOUS
  <2>2. m - x <= m - y
    BY <1>2, <1>3
  <2> QED BY <2>1, <2>2
<1> QED BY <1>4 DEF Max

-----------------------------------------------------------------------------
\* The elements of a sequence over T are in T.
LEMMA ElementsOf ==
  ASSUME NEW T, NEW s \in Seq(T)
  PROVE  ToSet(s) \subseteq T /\ s \in Seq(ToSet(s))
BY DEF ToSet

\* An appended element is there, with the others.
LEMMA AppendsElement ==
  ASSUME NEW T, NEW s \in Seq(T), NEW x
  PROVE  ToSet(Append(s, x)) = ToSet(s) \cup {x}
<1>1. /\ DOMAIN Append(s, x) = 1..(Len(s) + 1) /\ DOMAIN s = 1..Len(s) /\ Len(s) \in Nat
      /\ \A i \in 1..Len(s) : Append(s, x)[i] = s[i]
      /\ Append(s, x)[Len(s) + 1] = x
  <2> DEFINE U == T \cup {x}
  <2>1. s \in Seq(U) /\ x \in U
    OBVIOUS
  <2> HIDE DEF U
  <2> QED BY <2>1
<1>2. \A i \in 1..(Len(s) + 1) : i \in 1..Len(s) \/ i = Len(s) + 1
  BY <1>1
<1> QED BY <1>1, <1>2 DEF ToSet

(***************************************************************************)
(* Picked: the elements of a sequence at some places.  A run of its         *)
(* recursion over the first n elements exists for every n, and gathers what *)
(* stands at those places.                                                  *)
(***************************************************************************)
Gathers(s, I, n, g) ==
  g = [i \in 0..n |-> IF i = 0 THEN <<>>
                      ELSE IF i \in I THEN Append(g[i - 1], s[i]) ELSE g[i - 1]]

LEMMA GathersExist ==
  ASSUME NEW T, NEW s \in Seq(T), NEW I
  PROVE  \A n \in 0..Len(s) : \E g : Gathers(s, I, n, g)
<1> DEFINE Stuck == {n \in 0..Len(s) : ~\E g : Gathers(s, I, n, g)}
<1>1. Len(s) \in Nat
  OBVIOUS
<1>2. SUFFICES ASSUME Stuck # {}
               PROVE  FALSE
  OBVIOUS
<1>3. PICK n \in Stuck : \A m \in Stuck : n <= m
  <2>1. Stuck \in SUBSET Nat
    BY <1>1
  <2> HIDE DEF Stuck
  <2> QED BY <1>2, <2>1, NumbersHaveLeast
<1>4. n \in 0..Len(s) /\ n \in Nat /\ ~\E g : Gathers(s, I, n, g)
  BY <1>1, <1>3
<1>5. CASE n = 0
  <2> DEFINE g == [i \in 0..n |-> <<>>]
  <2>1. \A i \in 0..n : i = 0
    BY <1>5
  <2>2. Gathers(s, I, n, g)
    BY <2>1 DEF Gathers
  <2> QED BY <1>4, <2>2
<1>6. CASE n # 0
  <2>1. n - 1 \in 0..Len(s) /\ ~(n <= n - 1)
    BY <1>1, <1>4, <1>6
  <2>2. n - 1 \notin Stuck
    BY <1>3, <2>1
  <2>3. PICK f : Gathers(s, I, n - 1, f)
    BY <2>1, <2>2
  <2> DEFINE Last1 == IF n \in I THEN Append(f[n - 1], s[n]) ELSE f[n - 1]
             g == [i \in 0..n |-> IF i = n THEN Last1 ELSE f[i]]
             Next1(h, i) == IF i = 0 THEN <<>>
                            ELSE IF i \in I THEN Append(h[i - 1], s[i]) ELSE h[i - 1]
  <2>4. \A i \in 0..(n - 1) : g[i] = f[i]
    BY <1>1, <1>4
  <2>5. \A i \in 0..(n - 1) : f[i] = Next1(f, i)
    BY <2>3 DEF Gathers
  <2>6. ASSUME NEW i \in 0..n
        PROVE  g[i] = Next1(g, i)
    <3>1. CASE i = n
      <4>1. g[n] = Last1 /\ g[n - 1] = f[n - 1]
        BY <1>1, <1>4, <2>1, <2>4
      <4> HIDE DEF g
      <4> QED BY <1>6, <3>1, <4>1
    <3>2. CASE i # n
      <4>1. i \in 0..(n - 1) /\ (i # 0 => i - 1 \in 0..(n - 1))
        BY <1>1, <1>4, <3>2
      <4>2. g[i] = f[i] /\ (i # 0 => g[i - 1] = f[i - 1])
        BY <2>4, <4>1
      <4> HIDE DEF g
      <4> QED BY <2>5, <4>1, <4>2
    <3> QED BY <3>1, <3>2
  <2>7. g = [i \in 0..n |-> g[i]]
    OBVIOUS
  <2> HIDE DEF g
  <2>8. Gathers(s, I, n, g)
    BY <2>6, <2>7 DEF Gathers
  <2> QED BY <1>4, <2>8
<1> QED BY <1>5, <1>6

LEMMA PickedGathers ==
  ASSUME NEW T, NEW s \in Seq(T), NEW I
  PROVE  \E g : /\ Picked(s, I) = g[Len(s)]
              /\ g[0] = <<>>
              /\ \A i \in 1..Len(s) :
                   g[i] = IF i \in I THEN Append(g[i - 1], s[i]) ELSE g[i - 1]
<1> DEFINE g == CHOOSE f : Gathers(s, I, Len(s), f)
<1>1. Len(s) \in 0..Len(s) /\ Len(s) \in Nat
  OBVIOUS
<1>2. \E f : Gathers(s, I, Len(s), f)
  BY <1>1, GathersExist
<1>3. Gathers(s, I, Len(s), g)
  BY <1>2
<1>4. Picked(s, I) = g[Len(s)]
  BY DEF Picked, Gathers
<1> HIDE DEF g
<1>5. g[0] = <<>> /\ \A i \in 1..Len(s) :
        g[i] = IF i \in I THEN Append(g[i - 1], s[i]) ELSE g[i - 1]
  <2>1. 0 \in 0..Len(s) /\ \A i \in 1..Len(s) : i \in 0..Len(s) /\ i # 0
    BY <1>1
  <2>2. \A i \in 0..Len(s) :
          g[i] = IF i = 0 THEN <<>>
                 ELSE IF i \in I THEN Append(g[i - 1], s[i]) ELSE g[i - 1]
    BY <1>3 DEF Gathers
  <2> QED BY <2>1, <2>2
<1> QED BY <1>4, <1>5

\* What is gathered over the first n elements, if what is picked there is in E.
LEMMA GatheredAreOf ==
  ASSUME NEW T, NEW s \in Seq(T), NEW I, NEW E, NEW n \in 0..Len(s),
         \A i \in 1..n : i \in I => s[i] \in E,
         NEW g, g[0] = <<>>,
         \A i \in 1..Len(s) : g[i] = IF i \in I THEN Append(g[i - 1], s[i]) ELSE g[i - 1]
  PROVE  g[n] \in Seq(E)
<1> DEFINE Bad == {i \in 0..n : g[i] \notin Seq(E)}
<1>1. n \in Nat /\ Len(s) \in Nat
  OBVIOUS
<1>2. ASSUME Bad # {}
      PROVE  FALSE
  <2>1. PICK i \in Bad : \A j \in Bad : i <= j
    <3>1. Bad \in SUBSET Nat
      BY <1>1
    <3> HIDE DEF Bad
    <3> QED BY <1>2, <3>1, NumbersHaveLeast
  <2>2. i \in 0..n /\ g[i] \notin Seq(E) /\ i # 0
    <3>1. <<>> \in Seq(E)
      OBVIOUS
    <3> QED BY <2>1, <3>1
  <2>3. i \in 1..n /\ i \in 1..Len(s) /\ i - 1 \in 0..n /\ ~(i <= i - 1)
    BY <1>1, <2>2
  <2>4. g[i - 1] \in Seq(E)
    BY <2>1, <2>3
  <2>5. g[i] = IF i \in I THEN Append(g[i - 1], s[i]) ELSE g[i - 1]
    BY <2>3
  <2>6. i \in I => s[i] \in E
    BY <2>3
  <2> HIDE DEF Bad
  <2> QED BY <2>2, <2>4, <2>5, <2>6
<1>3. n \in 0..n
  BY <1>1
<1> QED BY <1>2, <1>3

LEMMA PickedYields ==
  ASSUME NEW T, NEW s \in Seq(T), NEW I, NEW E,
         \A i \in 1..Len(s) : i \in I => s[i] \in E
  PROVE  Picked(s, I) \in Seq(E)
<1>1. PICK g : /\ Picked(s, I) = g[Len(s)]
               /\ g[0] = <<>>
               /\ \A i \in 1..Len(s) :
                    g[i] = IF i \in I THEN Append(g[i - 1], s[i]) ELSE g[i - 1]
  BY PickedGathers
<1> DEFINE n == Len(s)
<1>2. n \in 0..Len(s) /\ \A i \in 1..n : i \in I => s[i] \in E
  OBVIOUS
<1> HIDE DEF n
<1>3. g[n] \in Seq(E)
  BY <1>1, <1>2, GatheredAreOf
<1> QED BY <1>1, <1>3 DEF n

\* What is picked before the last element, and the last one if it is picked.
LEMMA PickedLast ==
  ASSUME NEW T, NEW s \in Seq(T), s # <<>>, NEW I, NEW E,
         \A i \in 1..(Len(s) - 1) : i \in I => s[i] \in E
  PROVE  \E p \in Seq(E) : Picked(s, I) = p \/ Picked(s, I) = Append(p, s[Len(s)])
<1>1. PICK g : /\ Picked(s, I) = g[Len(s)]
               /\ g[0] = <<>>
               /\ \A i \in 1..Len(s) :
                    g[i] = IF i \in I THEN Append(g[i - 1], s[i]) ELSE g[i - 1]
  BY PickedGathers
<1>2. Len(s) - 1 \in 0..Len(s) /\ Len(s) \in 1..Len(s)
  OBVIOUS
<1>3. g[Len(s) - 1] \in Seq(E)
  BY <1>1, <1>2, GatheredAreOf
<1>4. g[Len(s)] = IF Len(s) \in I THEN Append(g[Len(s) - 1], s[Len(s)]) ELSE g[Len(s) - 1]
  BY <1>1, <1>2
<1> QED BY <1>1, <1>3, <1>4

\* Every element picked is there.
LEMMA PickedKeeps ==
  ASSUME NEW T, NEW s \in Seq(T), NEW I, NEW n \in 1..Len(s), n \in I
  PROVE  s[n] \in ToSet(Picked(s, I))
<1>1. PICK g : /\ Picked(s, I) = g[Len(s)]
               /\ g[0] = <<>>
               /\ \A i \in 1..Len(s) :
                    g[i] = IF i \in I THEN Append(g[i - 1], s[i]) ELSE g[i - 1]
  BY PickedGathers
<1> DEFINE Bad == {i \in n..Len(s) : s[n] \notin ToSet(g[i])}
<1>2. n \in Nat /\ Len(s) \in Nat /\ n <= Len(s) /\ 1 <= n
  OBVIOUS
<1>3. \A i \in 0..Len(s) : g[i] \in Seq(T)
  <2>1. \A i \in 1..Len(s) : s[i] \in T
    OBVIOUS
  <2>2. ASSUME NEW i \in 0..Len(s)
        PROVE  g[i] \in Seq(T)
    <3>1. \A k \in 1..i : k \in I => s[k] \in T
      BY <1>2, <2>1
    <3> QED BY <1>1, <3>1, GatheredAreOf
  <2> QED BY <2>2
<1>4. ASSUME Bad # {}
      PROVE  FALSE
  <2>1. PICK i \in Bad : \A j \in Bad : i <= j
    <3>1. Bad \in SUBSET Nat
      BY <1>2
    <3> HIDE DEF Bad
    <3> QED BY <1>4, <3>1, NumbersHaveLeast
  <2>2. i \in n..Len(s) /\ i \in 1..Len(s) /\ i - 1 \in 0..Len(s) /\ s[n] \notin ToSet(g[i])
    BY <1>2, <2>1
  <2>3. g[i - 1] \in Seq(T)
    BY <1>3, <2>2
  <2>4. \A x : /\ x \in ToSet(Append(g[i - 1], x))
               /\ ToSet(g[i - 1]) \subseteq ToSet(Append(g[i - 1], x))
    BY <2>3, AppendsElement
  <2>5. g[i] = IF i \in I THEN Append(g[i - 1], s[i]) ELSE g[i - 1]
    BY <1>1, <2>2
  <2>6. CASE i = n
    BY <2>2, <2>4, <2>5, <2>6
  <2>7. CASE i # n
    <3>1. i - 1 \in n..Len(s) /\ ~(i <= i - 1)
      BY <1>2, <2>2, <2>7
    <3>2. s[n] \in ToSet(g[i - 1])
      BY <2>1, <3>1
    <3> QED BY <2>2, <2>4, <2>5, <3>2
  <2> QED BY <2>6, <2>7
<1>5. Len(s) \in n..Len(s)
  BY <1>2
<1> QED BY <1>1, <1>4, <1>5

\* The places of s, in I and up to n, that the elements of p come from, in order.
Places(p, s, I, n, f) ==
  /\ f \in [1..Len(p) -> 1..n]
  /\ \A k \in 1..Len(p) : f[k] \in I /\ p[k] = s[f[k]]
  /\ \A k, l \in 1..Len(p) : k < l => f[k] < f[l]

\* What the next element of s adds to them.
Grown(p, s, I, i, f) ==
  /\ Places(p, s, I, i, f)
  /\ i \in I => \E h : Places(Append(p, s[i]), s, I, i, h)

LEMMA PlacesGrow ==
  ASSUME NEW T, NEW p \in Seq(T), NEW s, NEW I, NEW m \in Nat, NEW i, i = m + 1,
         s[i] \in T, NEW f, Places(p, s, I, m, f)
  PROVE  Grown(p, s, I, i, f)
<1>1. /\ f \in [1..Len(p) -> 1..m]
      /\ \A k \in 1..Len(p) : f[k] \in I /\ p[k] = s[f[k]]
      /\ \A k, l \in 1..Len(p) : k < l => f[k] < f[l]
  BY DEF Places
<1>2. Len(p) \in Nat /\ \A k \in 1..Len(p) : f[k] \in 1..i /\ f[k] < i
  BY <1>1
<1>3. Places(p, s, I, i, f)
  BY <1>1, <1>2 DEF Places
<1>4. ASSUME i \in I
      PROVE  \E h : Places(Append(p, s[i]), s, I, i, h)
  <2> DEFINE n == Len(p) + 1
             q == Append(p, s[i])
             h == [k \in 1..n |-> IF k < n THEN f[k] ELSE i]
  <2>1. Len(q) = n /\ q[n] = s[i] /\ \A k \in 1..Len(p) : q[k] = p[k]
    BY AppendProperties
  <2>2. n \in Nat /\ \A k \in 1..n : (k \in 1..Len(p) /\ k < n) \/ (k = n /\ ~(k < n))
    BY <1>2
  <2>3. h \in [1..n -> 1..i]
    BY <1>2, <2>2
  <2>4. \A k \in 1..n : h[k] = IF k < n THEN f[k] ELSE i
    OBVIOUS
  <2> HIDE DEF q, h, n
  <2>5. \A k \in 1..n : h[k] \in I /\ q[k] = s[h[k]]
    BY <1>1, <1>4, <2>1, <2>2, <2>4
  <2>6. ASSUME NEW k \in 1..n, NEW l \in 1..n, k < l
        PROVE  h[k] < h[l]
    <3>1. k < n
      BY <2>2, <2>6
    <3>2. h[k] = f[k] /\ k \in 1..Len(p)
      BY <2>2, <2>4, <3>1
    <3>3. CASE l < n
      BY <1>1, <2>2, <2>4, <2>6, <3>2, <3>3
    <3>4. CASE ~(l < n)
      BY <1>2, <2>4, <3>2, <3>4
    <3> QED BY <3>3, <3>4
  <2> QED BY <2>1, <2>3, <2>5, <2>6 DEF Places, q
<1> QED BY <1>3, <1>4 DEF Grown

LEMMA PickedPlaces ==
  ASSUME NEW T, NEW s \in Seq(T), NEW I
  PROVE  \E f : Places(Picked(s, I), s, I, Len(s), f)
<1>1. PICK g : /\ Picked(s, I) = g[Len(s)]
               /\ g[0] = <<>>
               /\ \A i \in 1..Len(s) :
                    g[i] = IF i \in I THEN Append(g[i - 1], s[i]) ELSE g[i - 1]
  BY PickedGathers
<1> DEFINE Stuck == {i \in 0..Len(s) : ~\E f : Places(g[i], s, I, i, f)}
<1>2. Len(s) \in Nat /\ Len(s) \in 0..Len(s)
  OBVIOUS
<1>3. \A i \in 0..Len(s) : g[i] \in Seq(T)
  <2>1. \A i \in 1..Len(s) : s[i] \in T
    OBVIOUS
  <2>2. ASSUME NEW i \in 0..Len(s)
        PROVE  g[i] \in Seq(T)
    <3>1. \A k \in 1..i : k \in I => s[k] \in T
      BY <1>2, <2>1
    <3> QED BY <1>1, <3>1, GatheredAreOf
  <2> QED BY <2>2
<1>4. ASSUME Stuck # {}
      PROVE  FALSE
  <2>1. PICK i \in Stuck : \A j \in Stuck : i <= j
    <3>1. Stuck \in SUBSET Nat
      BY <1>2
    <3> HIDE DEF Stuck
    <3> QED BY <1>4, <3>1, NumbersHaveLeast
  <2>2. i \in 0..Len(s) /\ ~\E f : Places(g[i], s, I, i, f)
    BY <2>1
  <2>3. CASE i = 0
    <3> DEFINE f == [k \in 1..0 |-> 0]
    <3>1. Len(<<>>) = 0 /\ 1..0 = {} /\ f \in [1..0 -> 1..0]
      OBVIOUS
    <3> HIDE DEF f
    <3>2. Places(<<>>, s, I, 0, f)
      BY <3>1 DEF Places
    <3> QED BY <1>1, <2>2, <2>3, <3>2
  <2>4. CASE i # 0
    <3>1. /\ i \in 1..Len(s) /\ i \in Nat \ {0}
          /\ i - 1 \in 0..Len(s) /\ ~(i <= i - 1)
      BY <1>2, <2>2, <2>4
    <3>2. PICK f : Places(g[i - 1], s, I, i - 1, f)
      BY <2>1, <3>1
    <3>3. g[i - 1] \in Seq(T) /\ s[i] \in T
      BY <1>3, <3>1
    <3>4. /\ Places(g[i - 1], s, I, i, f)
          /\ i \in I => \E h : Places(Append(g[i - 1], s[i]), s, I, i, h)
      <4> DEFINE m == i - 1
                 q == g[m]
      <4>1. m \in Nat /\ i = m + 1 /\ q \in Seq(T) /\ s[i] \in T /\ Places(q, s, I, m, f)
        BY <3>1, <3>2, <3>3
      <4> HIDE DEF m, q
      <4>2. Grown(q, s, I, i, f)
        BY <4>1, PlacesGrow
      <4> QED BY <4>2 DEF Grown, q, m
    <3>5. g[i] = IF i \in I THEN Append(g[i - 1], s[i]) ELSE g[i - 1]
      BY <1>1, <3>1
    <3> HIDE DEF Stuck
    <3> QED BY <2>2, <3>4, <3>5
  <2> QED BY <2>3, <2>4
<1> QED BY <1>1, <1>2, <1>4

\* Only yields a sequence of elements of both the sequence and the set, and all
\* of them.
LEMMA OnlyYields ==
  ASSUME NEW T, NEW s \in Seq(T), NEW S
  PROVE  /\ Only(s, S) \in Seq(T \cap S)
         /\ ToSet(Only(s, S)) = ToSet(s) \cap S
<1> DEFINE I == {i \in DOMAIN s : s[i] \in S}
<1>1. Only(s, S) = Picked(s, I)
  BY DEF Only
<1>2. DOMAIN s = 1..Len(s)
  OBVIOUS
<1>3. Picked(s, I) \in Seq(T \cap S)
  <2>1. \A i \in 1..Len(s) : i \in I => s[i] \in T \cap S
    OBVIOUS
  <2> HIDE DEF I
  <2> QED BY <2>1, PickedYields
<1>4. Picked(s, I) \in Seq(ToSet(s) \cap S)
  <2>1. \A i \in 1..Len(s) : i \in I => s[i] \in ToSet(s) \cap S
    BY <1>2 DEF ToSet
  <2> HIDE DEF I
  <2> QED BY <2>1, PickedYields
<1>5. ASSUME NEW x \in ToSet(s) \cap S
      PROVE  x \in ToSet(Picked(s, I))
  <2>1. PICK i \in DOMAIN s : x = s[i]
    BY DEF ToSet
  <2>2. i \in 1..Len(s) /\ i \in I
    BY <1>2, <1>5, <2>1
  <2> HIDE DEF I
  <2> QED BY <2>1, <2>2, PickedKeeps
<1> HIDE DEF I
<1>6. ToSet(Picked(s, I)) \subseteq ToSet(s) \cap S
  BY <1>4, ElementsOf
<1> QED BY <1>1, <1>3, <1>5, <1>6

-----------------------------------------------------------------------------
(***************************************************************************)
(* Known hosts.  H, Y and K are the names, key types and keys of the pins,  *)
(* O the lines that are none.                                               *)
(***************************************************************************)
PinBodies(H, Y, K) == {Pin(hosts, type, key) : hosts \in Seq(H), type \in Y, key \in K}
HostLines(H, Y, K, O) == [body : PinBodies(H, Y, K) \cup O, end : Ends]

LEMMA PinIsBody ==
  ASSUME NEW H, NEW Y, NEW K, NEW hosts \in Seq(H), NEW type \in Y, NEW key \in K
  PROVE  Pin(hosts, type, key) \in PinBodies(H, Y, K)
BY DEF PinBodies

\* The fields of a pin.
LEMMA PinFields ==
  ASSUME NEW H, NEW Y, NEW K, NEW b \in PinBodies(H, Y, K)
  PROVE  /\ b[1] = "pin" /\ b[2] \in Seq(H) /\ b[3] \in Y /\ b[4] \in K
         /\ b = Pin(b[2], b[3], b[4])
<1>1. PICK hosts \in Seq(H), type \in Y, key \in K : b = Pin(hosts, type, key)
  BY DEF PinBodies
<1> QED BY <1>1 DEF Pin

\* Body c is what may be left of body b without a host: the same line, or the
\* same pin of fewer hosts.
LeftOf(c, b, host, types) ==
  /\ c[1] = b[1]
  /\ b[1] = "pin" =>
       /\ c[3] = b[3] /\ c[4] = b[4]
       /\ ToSet(c[2]) \subseteq ToSet(b[2])
       /\ b[3] \in types => host \notin ToSet(c[2])

LEMMA BodyLeft ==
  ASSUME NEW H, NEW Y, NEW K, NEW O, \A o \in O : o[1] # "pin",
         NEW b \in PinBodies(H, Y, K) \cup O, NEW host, NEW types
  PROVE  /\ BodyWithout(b, host, types) \in PinBodies(H, Y, K) \cup O
         /\ LeftOf(BodyWithout(b, host, types), b, host, types)
<1>1. CASE b \notin PinBodies(H, Y, K)
  <2>1. BodyWithout(b, host, types) = b /\ b[1] # "pin"
    BY <1>1 DEF BodyWithout
  <2> QED BY <2>1 DEF LeftOf
<1>2. CASE b \in PinBodies(H, Y, K) /\ b[3] \notin types
  <2>1. BodyWithout(b, host, types) = b
    BY <1>2 DEF BodyWithout
  <2> QED BY <1>2, <2>1 DEF LeftOf
<1>3. CASE b \in PinBodies(H, Y, K) /\ b[3] \in types
  <2> DEFINE left == Only(b[2], ToSet(b[2]) \ {host})
  <2>1. b[1] = "pin" /\ b[2] \in Seq(H) /\ b[3] \in Y /\ b[4] \in K
    BY <1>3, PinFields
  <2>2. b[2] \in Seq(ToSet(b[2])) /\ ToSet(b[2]) \subseteq H
    BY <2>1, ElementsOf
  <2>3. left \in Seq(ToSet(b[2]) \cap (ToSet(b[2]) \ {host}))
    BY <2>2, OnlyYields
  <2>4. ToSet(left) \subseteq ToSet(b[2]) /\ host \notin ToSet(left)
    BY <2>3, ElementsOf
  <2>5. left \in Seq(H)
    BY <2>2, <2>3
  <2>6. BodyWithout(b, host, types) = Pin(left, b[3], b[4])
    BY <1>3, <2>1 DEF BodyWithout
  <2> HIDE DEF left
  <2>7. /\ Pin(left, b[3], b[4]) \in PinBodies(H, Y, K)
        /\ Pin(left, b[3], b[4])[1] = "pin" /\ Pin(left, b[3], b[4])[2] = left
        /\ Pin(left, b[3], b[4])[3] = b[3] /\ Pin(left, b[3], b[4])[4] = b[4]
    BY <2>1, <2>5 DEF PinBodies, Pin
  <2> DEFINE c == Pin(left, b[3], b[4])
  <2>8. LeftOf(c, b, host, types)
    <3> HIDE DEF c
    <3>1. c[1] = "pin" /\ c[2] = left /\ c[3] = b[3] /\ c[4] = b[4]
      BY <2>7 DEF c
    <3> QED BY <2>1, <2>4, <3>1 DEF LeftOf
  <2> QED BY <2>6, <2>7, <2>8
<1> QED BY <1>1, <1>2, <1>3

\* A text after remove_lines: every line ends in a newline, and every line that
\* is left comes from one of the text.
LEMMA LinesLeft ==
  ASSUME NEW H, NEW Y, NEW K, NEW O, \A o \in O : o[1] # "pin",
         NEW t \in Seq(HostLines(H, Y, K, O)), NEW host, NEW types
  PROVE  /\ RemoveLines(t, host, types) \in Seq(HostLines(H, Y, K, O))
         /\ \A i \in DOMAIN RemoveLines(t, host, types) :
              /\ RemoveLines(t, host, types)[i].end = "lf"
              /\ \E line \in ToSet(t) :
                   RemoveLines(t, host, types)[i].body = BodyWithout(line.body, host, types)
<1> DEFINE B == PinBodies(H, Y, K) \cup O
           bodies == [i \in DOMAIN t |-> BodyWithout(t[i].body, host, types)]
           S == {b \in ToSet(bodies) : IF b[1] = "pin" THEN b[2] # <<>> ELSE b # <<"void">>}
           left == Only(bodies, S)
           r == RemoveLines(t, host, types)
<1>1. /\ Len(t) \in Nat /\ DOMAIN t = 1..Len(t)
      /\ \A i \in 1..Len(t) : t[i] \in HostLines(H, Y, K, O)
  OBVIOUS
<1>2. \A i \in 1..Len(t) : t[i].body \in B
  BY <1>1 DEF HostLines
<1> HIDE DEF B
<1>3. \A i \in 1..Len(t) : BodyWithout(t[i].body, host, types) \in B
  BY <1>2, BodyLeft DEF B
<1>4. bodies \in Seq(B)
  BY <1>1, <1>3
<1>5. \A b \in ToSet(bodies) : \E line \in ToSet(t) : b = BodyWithout(line.body, host, types)
  BY <1>1 DEF ToSet
<1> HIDE DEF bodies
<1>6. left \in Seq(ToSet(bodies) \cap S) /\ ToSet(bodies) \subseteq B
  BY <1>4, ElementsOf, OnlyYields
<1> HIDE DEF S
<1>7. r = [i \in DOMAIN left |-> Line(left[i], "lf")]
  BY DEF RemoveLines, left, S, bodies
<1> HIDE DEF r, left
<1>8. /\ Len(left) \in Nat /\ DOMAIN left = 1..Len(left)
      /\ \A i \in 1..Len(left) : left[i] \in ToSet(bodies) /\ left[i] \in B
  BY <1>6
<1>9. \A i \in DOMAIN left : /\ Line(left[i], "lf") \in HostLines(H, Y, K, O)
                             /\ Line(left[i], "lf").end = "lf"
                             /\ Line(left[i], "lf").body = left[i]
  BY <1>8 DEF Line, HostLines, Ends, B
<1>10. r \in Seq(HostLines(H, Y, K, O)) /\ DOMAIN r = DOMAIN left
  BY <1>7, <1>8, <1>9
<1>11. \A i \in DOMAIN r : r[i].end = "lf" /\ r[i].body = left[i] /\ left[i] \in ToSet(bodies)
  BY <1>7, <1>8, <1>9, <1>10
<1> QED BY <1>5, <1>10, <1>11 DEF r

\* The pins left are pins of the text, and none is one of the host and types.
LEMMA PinsLeft ==
  ASSUME NEW H, NEW Y, NEW K, NEW O, \A o \in O : o[1] # "pin",
         NEW t \in Seq(HostLines(H, Y, K, O)), NEW host, NEW types,
         NEW k \in KnownHostsList(RemoveLines(t, host, types))
  PROVE  k \in KnownHostsList(t) /\ ~(k.host = host /\ k.key.type \in types)
<1> DEFINE r == RemoveLines(t, host, types)
<1>1. PICK line \in ToSet(r) : /\ line.body[1] = "pin" /\ line.body[4] # Garbled
                               /\ k \in PinsOf(line) /\ k.host \notin Hashed
  BY DEF KnownHostsList
<1>2. PICK old \in ToSet(t) : line.body = BodyWithout(old.body, host, types)
  <2>1. PICK i \in DOMAIN r : line = r[i]
    BY <1>1 DEF ToSet
  <2>2. \E old \in ToSet(t) : r[i].body = BodyWithout(old.body, host, types)
    BY LinesLeft
  <2> QED BY <2>1, <2>2
<1>3. old.body \in PinBodies(H, Y, K) \cup O
  <2>1. old \in HostLines(H, Y, K, O)
    BY ElementsOf
  <2> QED BY <2>1 DEF HostLines
<1>4. /\ old.body[1] = "pin" /\ line.body[3] = old.body[3] /\ line.body[4] = old.body[4]
      /\ ToSet(line.body[2]) \subseteq ToSet(old.body[2])
      /\ old.body[3] \in types => host \notin ToSet(line.body[2])
  <2>1. \A b \in PinBodies(H, Y, K) \cup O :
          LeftOf(BodyWithout(b, host, types), b, host, types)
    BY BodyLeft
  <2>2. LeftOf(line.body, old.body, host, types)
    BY <1>2, <1>3, <2>1
  <2> QED BY <1>1, <2>2 DEF LeftOf
<1>5. PICK h \in ToSet(line.body[2]) : k = KnownHost(h, old.body[3], old.body[4])
  BY <1>1, <1>4 DEF PinsOf
<1>6. k.host = h /\ k.key.type = old.body[3] /\ k \in PinsOf(old)
  BY <1>4, <1>5 DEF KnownHost, HostKey, PinsOf
<1>7. k \in KnownHostsList(t)
  BY <1>1, <1>4, <1>6 DEF KnownHostsList
<1> QED BY <1>4, <1>5, <1>6, <1>7

\* A pin that is not one of the host and types is left.
LEMMA PinsKept ==
  ASSUME NEW H, NEW Y, NEW K, NEW O, \A o \in O : o[1] # "pin",
         NEW t \in Seq(HostLines(H, Y, K, O)), NEW host, NEW types,
         NEW k \in KnownHostsList(t), ~(k.host = host /\ k.key.type \in types)
  PROVE  k \in KnownHostsList(RemoveLines(t, host, types))
<1> DEFINE B == PinBodies(H, Y, K) \cup O
           bodies == [i \in DOMAIN t |-> BodyWithout(t[i].body, host, types)]
           S == {b \in ToSet(bodies) : IF b[1] = "pin" THEN b[2] # <<>> ELSE b # <<"void">>}
           left == Only(bodies, S)
           r == RemoveLines(t, host, types)
<1>1. PICK line \in ToSet(t) : /\ line.body[1] = "pin" /\ line.body[4] # Garbled
                               /\ k \in PinsOf(line) /\ k.host \notin Hashed
  BY DEF KnownHostsList
<1> DEFINE b == line.body
           c == BodyWithout(b, host, types)
<1>2. b \in PinBodies(H, Y, K)
  <2>1. line \in HostLines(H, Y, K, O)
    BY ElementsOf
  <2> QED BY <1>1, <2>1 DEF HostLines
<1>3. b[1] = "pin" /\ b[2] \in Seq(H) /\ b[3] \in Y /\ b[4] \in K /\ b[4] # Garbled
  BY <1>1, <1>2, PinFields
<1>4. PICK h \in ToSet(b[2]) : k = KnownHost(h, b[3], b[4])
  BY <1>1 DEF PinsOf
<1>5. k.host = h /\ k.key.type = b[3]
  BY <1>4 DEF KnownHost, HostKey
<1> HIDE DEF b
<1>6. c[1] = "pin" /\ h \in ToSet(c[2]) /\ c[3] = b[3] /\ c[4] = b[4]
  <2>1. CASE b[3] \notin types
    BY <1>3, <2>1 DEF BodyWithout
  <2>2. CASE b[3] \in types
    <3> DEFINE names == Only(b[2], ToSet(b[2]) \ {host})
    <3>1. c = Pin(names, b[3], b[4])
      BY <1>3, <2>2 DEF BodyWithout
    <3>2. ToSet(names) = ToSet(b[2]) \cap (ToSet(b[2]) \ {host})
      <4> DEFINE s == b[2]
                 others == ToSet(b[2]) \ {host}
      <4>1. s \in Seq(H)
        BY <1>3
      <4> HIDE DEF s, others
      <4>2. ToSet(Only(s, others)) = ToSet(s) \cap others
        BY <4>1, OnlyYields
      <4> QED BY <4>2 DEF s, others
    <3>3. h \in ToSet(names)
      BY <1>4, <1>5, <2>2, <3>2
    <3> HIDE DEF names, c
    <3> QED BY <3>1, <3>3 DEF Pin
  <2> QED BY <2>1, <2>2
<1>7. bodies \in Seq(B) /\ c \in ToSet(bodies)
  <2>1. /\ Len(t) \in Nat /\ DOMAIN t = 1..Len(t)
        /\ \A i \in 1..Len(t) : t[i] \in HostLines(H, Y, K, O)
    OBVIOUS
  <2>2. \A i \in 1..Len(t) : t[i].body \in B
    BY <2>1 DEF HostLines
  <2> HIDE DEF B
  <2>3. \A i \in 1..Len(t) : BodyWithout(t[i].body, host, types) \in B
    BY <2>2, BodyLeft DEF B
  <2>4. bodies \in Seq(B) /\ DOMAIN bodies = DOMAIN t
    BY <2>1, <2>3
  <2>5. PICK i \in DOMAIN t : line = t[i]
    BY DEF ToSet
  <2>6. bodies[i] = c
    BY <2>5 DEF b
  <2> HIDE DEF bodies, c
  <2> QED BY <2>4, <2>6 DEF ToSet
<1> HIDE DEF bodies, c, B
<1>8. c \in S
  <2>1. c[2] # <<>>
    BY <1>6 DEF ToSet
  <2> QED BY <1>6, <1>7, <2>1
<1> HIDE DEF S
<1>9. c \in ToSet(left)
  <2>1. ToSet(left) = ToSet(bodies) \cap S
    BY <1>7, OnlyYields
  <2> QED BY <1>7, <1>8, <2>1
<1>10. r = [i \in DOMAIN left |-> Line(left[i], "lf")]
  BY DEF RemoveLines, left, S, bodies
<1> HIDE DEF left, r
<1>11. PICK i \in DOMAIN left : left[i] = c
  BY <1>9 DEF ToSet
<1> DEFINE new == r[i]
<1>12. new.body = c /\ new \in ToSet(r)
  <2>1. i \in DOMAIN r /\ r[i] = Line(c, "lf")
    BY <1>10, <1>11
  <2> QED BY <2>1 DEF Line, ToSet
<1> HIDE DEF new
<1>13. k \in PinsOf(new)
  BY <1>4, <1>6, <1>12 DEF PinsOf
<1> QED BY <1>1, <1>3, <1>6, <1>12, <1>13 DEF KnownHostsList, r

\* known_hosts_remove: no pin of the host is left, and no pin is new.
LEMMA PinsForgotten ==
  ASSUME NEW H, NEW Y, NEW K, NEW O, \A o \in O : o[1] # "pin",
         NEW t \in Seq(HostLines(H, Y, K, O)), NEW host,
         NEW k \in KnownHostsList(KnownHostsRemove(t, host))
  PROVE  k \in KnownHostsList(t) /\ k.host # host
<1>1. k \in KnownHostsList(t) /\ ~(k.host = host /\ k.key.type \in TypesIn(t))
  BY PinsLeft DEF KnownHostsRemove
<1>2. PICK line \in ToSet(t) : line.body[1] = "pin" /\ k \in PinsOf(line)
  BY <1>1 DEF KnownHostsList
<1>3. k.key.type = line.body[3]
  BY <1>2 DEF PinsOf, KnownHost, HostKey
<1> QED BY <1>1, <1>2, <1>3 DEF TypesIn

\* known_hosts_add: the key added is the host's only one of its type, and no
\* other pin is new.
LEMMA PinsAdded ==
  ASSUME NEW H, NEW Y, NEW K, NEW O, \A o \in O : o[1] # "pin",
         NEW t \in Seq(HostLines(H, Y, K, O)), NEW host \in H, NEW type \in Y, NEW key \in K
  PROVE  /\ KnownHostsAdd(t, host, HostKey(type, key)) \in Seq(HostLines(H, Y, K, O))
         /\ \A i \in DOMAIN KnownHostsAdd(t, host, HostKey(type, key)) :
              KnownHostsAdd(t, host, HostKey(type, key))[i].end = "lf"
         /\ \A k \in KnownHostsList(KnownHostsAdd(t, host, HostKey(type, key))) :
              \/ k \in KnownHostsList(t) /\ ~(k.host = host /\ k.key.type = type)
              \/ k = KnownHost(host, type, key)
         /\ \A k \in KnownHostsList(t) :
              ~(k.host = host /\ k.key.type = type) =>
                k \in KnownHostsList(KnownHostsAdd(t, host, HostKey(type, key)))
         /\ host \notin Hashed /\ key # Garbled =>
              KnownHost(host, type, key) \in
                KnownHostsList(KnownHostsAdd(t, host, HostKey(type, key)))
<1> DEFINE r == RemoveLines(t, host, {type})
           new == Line(Pin(<<host>>, type, key), "lf")
           a == KnownHostsAdd(t, host, HostKey(type, key))
<1>1. r \in Seq(HostLines(H, Y, K, O)) /\ \A i \in DOMAIN r : r[i].end = "lf"
  BY LinesLeft
<1>2. /\ new \in HostLines(H, Y, K, O) /\ new.end = "lf" /\ new.body[2] = <<host>>
      /\ new.body[3] = type /\ new.body[4] = key
  <2>1. Pin(<<host>>, type, key) \in PinBodies(H, Y, K)
    <3>1. <<host>> \in Seq(H)
      OBVIOUS
    <3> QED BY <3>1, PinIsBody
  <2> QED BY <2>1 DEF Line, HostLines, Ends, Pin
<1>3. a = WithLine(r, Pin(<<host>>, type, key))
  BY DEF KnownHostsAdd, HostKey
<1> HIDE DEF r
<1>4. Terminated(r) = r
  <2>1. r = <<>> \/ Len(r) \in DOMAIN r
    BY <1>1
  <2> QED BY <1>1, <2>1 DEF Terminated, EndsInNewline, Last
<1>5. a = Append(r, new)
  BY <1>3, <1>4 DEF WithLine
<1> HIDE DEF a, new
<1>6. /\ a \in Seq(HostLines(H, Y, K, O)) /\ \A i \in DOMAIN a : a[i].end = "lf"
      /\ ToSet(a) = ToSet(r) \cup {new}
  <2>1. /\ a \in Seq(HostLines(H, Y, K, O)) /\ Len(a) = Len(r) + 1 /\ Len(r) \in Nat
        /\ \A i \in 1..Len(r) : a[i] = r[i]
        /\ a[Len(r) + 1] = new
    BY <1>1, <1>2, <1>5
  <2>2. DOMAIN a = 1..(Len(r) + 1) /\ DOMAIN r = 1..Len(r)
    BY <1>1, <2>1
  <2>3. \A i \in 1..(Len(r) + 1) : i \in 1..Len(r) \/ i = Len(r) + 1
    BY <2>1
  <2>4. \A i \in DOMAIN a : a[i].end = "lf"
    BY <1>1, <1>2, <2>1, <2>2, <2>3
  <2>5. \A x : x \in ToSet(a) <=> x \in ToSet(r) \cup {new}
    BY <2>1, <2>2, <2>3 DEF ToSet
  <2> QED BY <2>1, <2>4, <2>5
<1>7. ASSUME NEW k \in KnownHostsList(a)
      PROVE  \/ k \in KnownHostsList(t) /\ ~(k.host = host /\ k.key.type = type)
             \/ k = KnownHost(host, type, key)
  <2>1. PICK line \in ToSet(a) : /\ line.body[1] = "pin" /\ line.body[4] # Garbled
                                 /\ k \in PinsOf(line) /\ k.host \notin Hashed
    BY DEF KnownHostsList
  <2>2. CASE line = new
    <3>1. ToSet(<<host>>) = {host}
      BY DEF ToSet
    <3> QED BY <1>2, <2>1, <2>2, <3>1 DEF PinsOf
  <2>3. CASE line \in ToSet(r)
    <3>1. k \in KnownHostsList(r)
      BY <2>1, <2>3 DEF KnownHostsList
    <3> QED BY <3>1, PinsLeft DEF r
  <2> QED BY <1>6, <2>1, <2>2, <2>3
<1>8. ASSUME NEW k \in KnownHostsList(t), ~(k.host = host /\ k.key.type = type)
      PROVE  k \in KnownHostsList(a)
  <2>1. k \in KnownHostsList(r)
    BY <1>8, PinsKept DEF r
  <2> QED BY <1>6, <2>1 DEF KnownHostsList
<1>9. ASSUME host \notin Hashed, key # Garbled
      PROVE  KnownHost(host, type, key) \in KnownHostsList(a)
  <2> DEFINE k == KnownHost(host, type, key)
  <2>1. /\ ToSet(<<host>>) = {host}
        /\ new \in ToSet(a)
        /\ new.body[1] = "pin"
    <3>1. ToSet(<<host>>) = {host}
      BY DEF ToSet
    <3>2. new.body[1] = "pin"
      BY DEF new, Line, Pin
    <3> QED BY <1>6, <3>1, <3>2
  <2>2. k \in PinsOf(new)
    BY <1>2, <2>1 DEF PinsOf
  <2>3. k.host = host
    BY DEF KnownHost
  <2> HIDE DEF k
  <2> QED BY <1>2, <1>9, <2>1, <2>2, <2>3 DEF KnownHostsList, k
<1> QED BY <1>6, <1>7, <1>8, <1>9 DEF a
-----------------------------------------------------------------------------
(* Texts of lines, and what the edits of an entry make of them.             *)
LinesOf(B) == [body : B, end : Ends]

\* A text of lines with bodies in B.
TextOf(t, B) == t \in Seq(LinesOf(B)) /\ Lines(t)

-----------------------------------------------------------------------------
\* A line of a text.
LEMMA LineIsRecord ==
  ASSUME NEW B, NEW l \in LinesOf(B)
  PROVE  /\ l.body \in B /\ l.end \in Ends
         /\ \A e \in Ends : /\ [l EXCEPT !.end = e] \in LinesOf(B)
                            /\ [l EXCEPT !.end = e].body = l.body
                            /\ [l EXCEPT !.end = e].end = e
         /\ \A b \in B : /\ [l EXCEPT !.body = b] \in LinesOf(B)
                         /\ [l EXCEPT !.body = b].body = b
                         /\ [l EXCEPT !.body = b].end = l.end
BY DEF LinesOf

LEMMA NewLine ==
  ASSUME NEW B, NEW b \in B, NEW e \in Ends
  PROVE  Line(b, e) \in LinesOf(B) /\ Line(b, e).body = b /\ Line(b, e).end = e
BY DEF LinesOf, Line

LEMMA TextsGrow ==
  ASSUME NEW B, NEW C, B \subseteq C, NEW t \in Seq(LinesOf(B)), Lines(t)
  PROVE  TextOf(t, C)
<1>1. LinesOf(B) \subseteq LinesOf(C)
  BY DEF LinesOf
<1> HIDE DEF LinesOf
<1> QED BY <1>1 DEF TextOf

\* Lines, without the domain.
LEMMA LinesEnd ==
  ASSUME NEW B, NEW t \in Seq(LinesOf(B))
  PROVE  Lines(t) <=> \A i \in 1..Len(t) : t[i].end = "none" => i = Len(t)
BY DEF Lines

\* What Terminated changes: the ending of the last line.
LEMMA Terminates ==
  ASSUME NEW B, NEW t \in Seq(LinesOf(B)), Lines(t)
  PROVE  /\ Terminated(t) \in Seq(LinesOf(B)) /\ Len(Terminated(t)) = Len(t)
         /\ \A i \in 1..Len(t) : /\ Terminated(t)[i].body = t[i].body
                                 /\ Terminated(t)[i].end # "none"
<1>1. /\ t \in Seq(LinesOf(B)) /\ Len(t) \in Nat
      /\ \A i \in 1..Len(t) : t[i] \in LinesOf(B)
      /\ \A i \in 1..Len(t) : t[i].end = "none" => i = Len(t)
  BY LinesEnd
<1>2. CASE EndsInNewline(t)
  <2>1. Terminated(t) = t
    BY <1>2 DEF Terminated
  <2>2. \A i \in 1..Len(t) : t[i].end # "none"
    BY <1>1, <1>2 DEF EndsInNewline, Last
  <2> QED BY <1>1, <2>1, <2>2
<1>3. CASE ~EndsInNewline(t)
  <2> DEFINE n == Len(t)
             l == [t[n] EXCEPT !.end = "lf"]
             u == [t EXCEPT ![n] = l]
  <2>1. n \in 1..Len(t)
    BY <1>1, <1>3 DEF EndsInNewline
  <2>2. l \in LinesOf(B) /\ l.body = t[n].body /\ l.end = "lf"
    BY <1>1, <2>1, LineIsRecord DEF Ends
  <2>3. Terminated(t) = u
    BY <1>3 DEF Terminated
  <2> HIDE DEF l
  <2>4. /\ u \in Seq(LinesOf(B)) /\ Len(u) = Len(t)
        /\ \A i \in 1..Len(t) : u[i] = IF i = n THEN l ELSE t[i]
    BY <1>1, <2>1, <2>2, ExceptSeq
  <2> HIDE DEF n, u
  <2> QED BY <1>1, <2>2, <2>3, <2>4 DEF n
<1> QED BY <1>2, <1>3

\* WithLine adds one ended line and changes the body of no other.
LEMMA LineAdded ==
  ASSUME NEW B, NEW t \in Seq(LinesOf(B)), Lines(t), NEW b \in B
  PROVE  /\ TextOf(WithLine(t, b), B) /\ Len(WithLine(t, b)) = Len(t) + 1
         /\ \A i \in 1..Len(t) : WithLine(t, b)[i].body = t[i].body
         /\ \A i \in 1..(Len(t) + 1) : WithLine(t, b)[i].end # "none"
         /\ WithLine(t, b)[Len(t) + 1].body = b
<1> DEFINE u == Terminated(t)
           l == Line(b, "lf")
           w == Append(u, l)
<1>1. /\ u \in Seq(LinesOf(B)) /\ Len(u) = Len(t) /\ Len(t) \in Nat
      /\ \A i \in 1..Len(t) : u[i].body = t[i].body /\ u[i].end # "none"
  BY Terminates DEF TextOf
<1>2. l \in LinesOf(B) /\ l.end = "lf" /\ l.body = b
  BY NewLine DEF Ends
<1>3. w = WithLine(t, b)
  BY DEF WithLine
<1> HIDE DEF u, l
<1>4. /\ w \in Seq(LinesOf(B)) /\ Len(w) = Len(t) + 1
      /\ \A i \in 1..Len(t) : w[i] = u[i]
      /\ w[Len(t) + 1] = l
  BY <1>1, <1>2, AppendProperties
<1> HIDE DEF w
<1>5. \A i \in 1..(Len(t) + 1) : w[i].end # "none"
  <2>1. \A i \in 1..(Len(t) + 1) : i \in 1..Len(t) \/ i = Len(t) + 1
    BY <1>1
  <2> QED BY <1>1, <1>2, <1>4, <2>1
<1>6. TextOf(w, B)
  BY <1>4, <1>5, LinesEnd DEF TextOf
<1>7. \A i \in 1..Len(t) : w[i].body = t[i].body
  BY <1>1, <1>4
<1> QED BY <1>2, <1>3, <1>4, <1>5, <1>6, <1>7

\* WithLines adds ended lines.
LEMMA LinesAdded ==
  ASSUME NEW B, NEW t \in Seq(LinesOf(B)), Lines(t), NEW bodies \in Seq(B)
  PROVE  TextOf(WithLines(t, bodies), B)
<1> DEFINE u == Terminated(t)
           new == [i \in DOMAIN bodies |-> Line(bodies[i], "lf")]
           w == u \o new
<1>1. /\ u \in Seq(LinesOf(B)) /\ Len(u) = Len(t) /\ Len(u) \in Nat
      /\ \A i \in 1..Len(u) : u[i].end # "none"
  BY Terminates DEF TextOf
<1>2. /\ new \in Seq(LinesOf(B)) /\ Len(new) \in Nat
      /\ \A i \in 1..Len(new) : new[i].end = "lf"
  <2>1. /\ DOMAIN bodies = 1..Len(bodies) /\ Len(bodies) \in Nat
        /\ \A i \in 1..Len(bodies) : bodies[i] \in B
    OBVIOUS
  <2>2. \A i \in 1..Len(bodies) : /\ Line(bodies[i], "lf") \in LinesOf(B)
                                  /\ Line(bodies[i], "lf").end = "lf"
    BY <2>1, NewLine DEF Ends
  <2> QED BY <2>1, <2>2
<1>3. w = WithLines(t, bodies)
  BY DEF WithLines
<1> HIDE DEF u, new
<1>4. /\ w \in Seq(LinesOf(B)) /\ Len(w) = Len(u) + Len(new)
      /\ \A i \in 1..(Len(u) + Len(new)) :
           w[i] = IF i <= Len(u) THEN u[i] ELSE new[i - Len(u)]
  BY <1>1, <1>2, ConcatProperties
<1> HIDE DEF w
<1>5. \A i \in 1..(Len(u) + Len(new)) : w[i].end # "none"
  <2>1. \A i \in 1..(Len(u) + Len(new)) : i <= Len(u) => i \in 1..Len(u)
    BY <1>1, <1>2
  <2>2. \A i \in 1..(Len(u) + Len(new)) : ~(i <= Len(u)) => i - Len(u) \in 1..Len(new)
    BY <1>1, <1>2
  <2>3. \A i \in 1..(Len(u) + Len(new)) : ~(i <= Len(u)) => w[i] = new[i - Len(u)]
    BY <1>4
  <2> QED BY <1>1, <1>2, <1>4, <2>1, <2>2, <2>3
<1> QED BY <1>3, <1>4, <1>5, LinesEnd DEF TextOf

-----------------------------------------------------------------------------
\* u is t with line i replaced.
Replaced(t, u, i) ==
  /\ i \in 1..Len(t) /\ Len(u) = Len(t)
  /\ \A j \in 1..Len(t) : j # i => u[j] = t[j]

\* A line that is replaced by one with the same ending, or by an ended one.
LEMMA LineReplaced ==
  ASSUME NEW B, NEW t \in Seq(LinesOf(B)), Lines(t), NEW i \in 1..Len(t), NEW l \in LinesOf(B),
         l.end = "none" => t[i].end = "none", NEW u, u = [t EXCEPT ![i] = l]
  PROVE  TextOf(u, B) /\ Replaced(t, u, i)
<1>1. \A j \in 1..Len(t) : t[j].end = "none" => j = Len(t)
  BY LinesEnd
<1>2. /\ u \in Seq(LinesOf(B)) /\ Len(u) = Len(t)
      /\ \A j \in 1..Len(t) : u[j] = IF j = i THEN l ELSE t[j]
  BY ExceptSeq
<1>4. Lines(u)
  BY <1>1, <1>2, LinesEnd
<1>5. TextOf(u, B) /\ Replaced(t, u, i)
  BY <1>2, <1>4 DEF TextOf, Replaced
<1> QED BY <1>5

\* A sequence without one of its elements.
LEMMA ElementRemoved ==
  ASSUME NEW B, NEW s \in Seq(B), NEW i \in 1..Len(s)
  PROVE  /\ RemoveAt(s, i) \in Seq(B) /\ Len(RemoveAt(s, i)) = Len(s) - 1
         /\ \A j \in 1..(Len(s) - 1) :
              RemoveAt(s, i)[j] = IF j < i THEN s[j] ELSE s[j + 1]
<1> DEFINE a == SubSeq(s, 1, i - 1)
           b == SubSeq(s, i + 1, Len(s))
           w == a \o b
<1>1. Len(s) \in Nat /\ i \in Nat /\ 1 <= i /\ i <= Len(s)
  OBVIOUS
<1>2. /\ a \in Seq(B) /\ Len(a) = i - 1
      /\ \A j \in 1..(i - 1) : a[j] = s[j]
  BY <1>1
<1>3. /\ b \in Seq(B) /\ Len(b) = Len(s) - i
      /\ \A j \in 1..(Len(s) - i) : b[j] = s[j + i]
  BY <1>1
<1>4. w = RemoveAt(s, i)
  BY DEF RemoveAt
<1> HIDE DEF a, b
<1>5. /\ w \in Seq(B) /\ Len(w) = Len(a) + Len(b)
      /\ \A j \in 1..(Len(a) + Len(b)) : w[j] = IF j <= Len(a) THEN a[j] ELSE b[j - Len(a)]
  BY <1>2, <1>3, ConcatProperties
<1> HIDE DEF w
<1>6. Len(w) = Len(s) - 1
  BY <1>1, <1>2, <1>3, <1>5
<1>7. ASSUME NEW j \in 1..(Len(s) - 1)
      PROVE  w[j] = IF j < i THEN s[j] ELSE s[j + 1]
  <2>1. CASE j < i
    <3>1. j \in 1..(Len(a) + Len(b)) /\ j <= Len(a) /\ j \in 1..(i - 1)
      BY <1>1, <1>2, <1>3, <2>1
    <3> QED BY <1>2, <1>5, <2>1, <3>1
  <2>2. CASE ~(j < i)
    <3>1. /\ j \in 1..(Len(a) + Len(b)) /\ ~(j <= Len(a))
          /\ j - Len(a) \in 1..(Len(s) - i) /\ (j - Len(a)) + i = j + 1
      BY <1>1, <1>2, <1>3, <2>2
    <3> DEFINE k == j - Len(a)
    <3>2. w[j] = b[k]
      BY <1>5, <3>1
    <3>3. k \in 1..(Len(s) - i) /\ k + i = j + 1
      BY <3>1
    <3> HIDE DEF k
    <3>4. b[k] = s[k + i]
      BY <1>3, <3>3
    <3> QED BY <2>2, <3>2, <3>3, <3>4
  <2> QED BY <2>1, <2>2
<1> QED BY <1>4, <1>5, <1>6, <1>7

\* A text without one of its lines.
LEMMA LineRemoved ==
  ASSUME NEW B, NEW t \in Seq(LinesOf(B)), Lines(t), NEW i \in 1..Len(t)
  PROVE  TextOf(RemoveAt(t, i), B)
<1> DEFINE w == RemoveAt(t, i)
<1>1. /\ Len(t) \in Nat /\ i \in Nat /\ 1 <= i /\ i <= Len(t)
      /\ \A j \in 1..Len(t) : t[j].end = "none" => j = Len(t)
  BY LinesEnd
<1>2. /\ w \in Seq(LinesOf(B)) /\ Len(w) = Len(t) - 1
      /\ \A j \in 1..(Len(t) - 1) : w[j] = IF j < i THEN t[j] ELSE t[j + 1]
  BY ElementRemoved
<1> HIDE DEF w
<1>3. ASSUME NEW j \in 1..(Len(t) - 1), w[j].end = "none"
      PROVE  j = Len(t) - 1
  <2>1. j \in 1..Len(t) /\ j + 1 \in 1..Len(t) /\ j # Len(t)
    BY <1>1
  <2> QED BY <1>1, <1>2, <1>3, <2>1
<1>4. TextOf(w, B)
  BY <1>2, <1>3, LinesEnd DEF TextOf
<1> QED BY <1>4 DEF w

\* Some of a text's lines, in their order.
LEMMA LinesPicked ==
  ASSUME NEW B, NEW t \in Seq(LinesOf(B)), Lines(t), NEW I
  PROVE  TextOf(Picked(t, I), B)
<1> DEFINE E == {l \in LinesOf(B) : l.end # "none"}
           r == Picked(t, I)
<1>1. /\ t \in Seq(LinesOf(B)) /\ Len(t) \in Nat
      /\ \A i \in 1..Len(t) : t[i] \in LinesOf(B)
      /\ \A i \in 1..Len(t) : t[i].end = "none" => i = Len(t)
  BY LinesEnd
<1>2. CASE t = <<>>
  <2>1. r \in Seq({})
    <3>1. \A i \in 1..Len(t) : i \in I => t[i] \in {}
      BY <1>2
    <3> QED BY <1>1, <3>1, PickedYields
  <2>2. r = <<>>
    BY <2>1
  <2> QED BY <2>2 DEF TextOf, Lines
<1>3. CASE t # <<>>
  <2>1. \A i \in 1..(Len(t) - 1) : i \in I => t[i] \in E
    BY <1>1
  <2> HIDE DEF E
  <2>2. PICK p \in Seq(E) : r = p \/ r = Append(p, t[Len(t)])
    BY <1>1, <1>3, <2>1, PickedLast
  <2>3. /\ p \in Seq(LinesOf(B)) /\ Len(p) \in Nat
        /\ \A i \in 1..Len(p) : p[i].end # "none"
    BY <2>2 DEF E
  <2>4. t[Len(t)] \in LinesOf(B)
    BY <1>1, <1>3
  <2> HIDE DEF r
  <2>5. CASE r = p
    BY <2>3, <2>5, LinesEnd DEF TextOf, r
  <2>6. CASE r = Append(p, t[Len(t)])
    <3>1. /\ r \in Seq(LinesOf(B)) /\ Len(r) = Len(p) + 1
          /\ \A i \in 1..Len(p) : r[i] = p[i]
      BY <2>3, <2>4, <2>6, AppendProperties
    <3>3. \A i \in 1..(Len(p) + 1) : i \in 1..Len(p) \/ i = Len(p) + 1
      BY <2>3
    <3> QED BY <2>3, <3>1, <3>3, LinesEnd DEF TextOf, r
  <2> QED BY <2>2, <2>5, <2>6
<1> QED BY <1>2, <1>3

-----------------------------------------------------------------------------
\* Entries.  The lines the searches find.
LEMMA LinesFound ==
  ASSUME NEW B, NEW t \in Seq(LinesOf(B)), NEW k, NEW values
  PROVE  /\ UriAt(t) \in 0..Len(t)
         /\ FieldAt(t, k, values) = 0 \/ FieldAt(t, k, values) \in 2..Len(t)
<1>1. Len(t) \in Nat
  OBVIOUS
<1>2. ASSUME NEW I, I \subseteq 1..Len(t), I # {}
      PROVE  Min(I) \in I
  <2>1. I \in SUBSET Nat
    BY <1>1, <1>2
  <2> QED BY <1>2, <2>1, NumbersHaveLeast DEF Min
<1>3. UriAt(t) \in 0..Len(t)
  <2> DEFINE I == {i \in 1..Len(t) : t[i].body.key = UriKey}
  <2>1. UriAt(t) = IF I # {} THEN Min(I) ELSE 0
    BY DEF UriAt, SelectInSeq
  <2>2. I \subseteq 1..Len(t)
    OBVIOUS
  <2> HIDE DEF I
  <2>3. UriAt(t) = 0 \/ UriAt(t) \in 1..Len(t)
    BY <1>2, <2>1, <2>2
  <2> QED BY <1>1, <2>3
<1>4. FieldAt(t, k, values) = 0 \/ FieldAt(t, k, values) \in 2..Len(t)
  <2> DEFINE I == {i \in 2..Len(t) : IsField(t[i]) /\ t[i].body.key = k
                                                   /\ t[i].body.value \in values}
  <2>1. FieldAt(t, k, values) = IF I # {} THEN Min(I) ELSE 0
    BY DEF FieldAt, SelectInSubSeq
  <2>2. I \subseteq 2..Len(t) /\ I \subseteq 1..Len(t)
    BY <1>1
  <2> HIDE DEF I
  <2> QED BY <1>2, <2>1, <2>2
<1> QED BY <1>3, <1>4

\* What an edit of an entry, other than of its password, makes of a text.
Extended(t, u) == /\ Len(u) = Len(t) + 1
                  /\ \A i \in 1..Len(t) : u[i].body = t[i].body
Touches(t, u) ==
  \/ u = t
  \/ Extended(t, u)
  \/ \E i \in 2..Len(t) : Replaced(t, u, i) \/ u = RemoveAt(t, i)

LEMMA PasswordSet ==
  ASSUME NEW B, NEW t \in Seq(LinesOf(B)), Lines(t), NEW p \in B
  PROVE  /\ TextOf(SetPassword(t, p), B)
         /\ t # <<>> => (\/ Replaced(t, SetPassword(t, p), 1)
                         \/ Len(t) = 1 /\ SetPassword(t, p) = <<>>)
<1>1. /\ Len(t) \in Nat /\ (t # <<>> => 1 \in 1..Len(t))
      /\ \A i \in 1..Len(t) : t[i].end = "none" => i = Len(t)
  BY LinesEnd
<1>2. Line(p, "none") \in LinesOf(B) /\ Line(p, "lf") \in LinesOf(B) /\ Line(p, "lf").end = "lf"
  BY NewLine DEF Ends
<1>3. CASE t = <<>> \/ t[1].end = "none"
  <2>1. SetPassword(t, p) = <<>> \/ SetPassword(t, p) = <<Line(p, "none")>>
    BY <1>3 DEF SetPassword
  <2>2. TextOf(<<>>, B)
    BY DEF TextOf, Lines
  <2>3. TextOf(<<Line(p, "none")>>, B)
    BY <1>2 DEF TextOf, Lines
  <2>4. t # <<>> => Len(t) = 1 /\ Replaced(t, <<Line(p, "none")>>, 1)
    <3>1. t # <<>> => Len(t) = 1
      BY <1>1, <1>3
    <3> DEFINE v == <<Line(p, "none")>>
    <3>2. Len(v) = 1 /\ \A j \in 1..1 : j = 1
      OBVIOUS
    <3> HIDE DEF v
    <3>3. t # <<>> => Replaced(t, v, 1)
      BY <1>1, <3>1, <3>2 DEF Replaced
    <3> QED BY <3>1, <3>3 DEF v
  <2> QED BY <2>1, <2>2, <2>3, <2>4
<1>4. CASE t # <<>> /\ t[1].end # "none"
  <2>1. SetPassword(t, p) = [t EXCEPT ![1] = Line(p, "lf")]
    BY <1>4 DEF SetPassword
  <2> DEFINE l == Line(p, "lf")
  <2>2. l \in LinesOf(B) /\ l.end # "none" /\ 1 \in 1..Len(t)
    BY <1>1, <1>2, <1>4
  <2>3. SetPassword(t, p) = [t EXCEPT ![1] = l]
    BY <2>1
  <2> HIDE DEF l
  <2> QED BY <2>2, <2>3, LineReplaced
<1> QED BY <1>3, <1>4

LEMMA OtpauthSet ==
  ASSUME NEW B, NEW t \in Seq(LinesOf(B)), Lines(t), NEW u, FieldLine(UriKey, u) \in B
  PROVE  /\ TextOf(SetOtpauth(t, u), B)
         /\ \/ Touches(t, SetOtpauth(t, u))
            \/ IsOtpOnly(t) /\ Replaced(t, SetOtpauth(t, u), 1)
<1> DEFINE b == FieldLine(UriKey, u)
           n == UriAt(t)
<1>1. Len(t) \in Nat /\ n \in 0..Len(t) /\ b \in B
  BY LinesFound
<1>2. CASE n = 0
  <2>1. SetOtpauth(t, u) = WithLine(t, b)
    BY <1>2 DEF SetOtpauth
  <2> HIDE DEF b
  <2> QED BY <1>1, <2>1, LineAdded DEF Touches, Extended
<1>3. CASE n # 0
  <2> DEFINE l == [t[n] EXCEPT !.body = b]
  <2>1. SetOtpauth(t, u) = [t EXCEPT ![n] = l]
    BY <1>3 DEF SetOtpauth, WithBody
  <2>2. n \in 1..Len(t) /\ (n = 1 \/ n \in 2..Len(t))
    BY <1>1, <1>3
  <2>3. t[n] \in LinesOf(B)
    BY <2>2
  <2> HIDE DEF b, n
  <2>4. l \in LinesOf(B) /\ l.end = t[n].end
    BY <1>1, <2>3, LineIsRecord
  <2> HIDE DEF l
  <2>5. /\ TextOf(SetOtpauth(t, u), B)
        /\ Replaced(t, SetOtpauth(t, u), n)
    BY <2>1, <2>2, <2>4, LineReplaced
  <2> QED BY <2>2, <2>5 DEF Touches, IsOtpOnly, n
<1> QED BY <1>2, <1>3

\* A line found by a search, other than the password, goes.
LEMMA LineGone ==
  ASSUME NEW B, NEW t \in Seq(LinesOf(B)), Lines(t), NEW n, n = 0 \/ n \in 2..Len(t)
  PROVE  TextOf(Without(t, n), B) /\ Touches(t, Without(t, n))
<1>1. CASE n = 0
  BY <1>1 DEF Without, TextOf, Touches
<1>2. CASE n # 0
  <2>1. n \in 2..Len(t) /\ n \in 1..Len(t)
    BY <1>2
  <2>2. Without(t, n) = RemoveAt(t, n)
    BY <1>2 DEF Without
  <2> QED BY <2>1, <2>2, LineRemoved DEF Touches
<1> QED BY <1>1, <1>2

LEMMA OtpauthRemoved ==
  ASSUME NEW B, NEW t \in Seq(LinesOf(B)), Lines(t)
  PROVE  TextOf(RemoveOtpauth(t), B) /\ Touches(t, RemoveOtpauth(t))
<1>1. CASE UriAt(t) = 1
  BY <1>1 DEF RemoveOtpauth, TextOf, Touches
<1>2. CASE UriAt(t) # 1
  <2>1. UriAt(t) = 0 \/ UriAt(t) \in 2..Len(t)
    BY <1>2, LinesFound
  <2>2. RemoveOtpauth(t) = Without(t, UriAt(t))
    BY <1>2 DEF RemoveOtpauth
  <2> QED BY <2>1, <2>2, LineGone
<1> QED BY <1>1, <1>2

LEMMA FieldSet ==
  ASSUME NEW B, NEW t \in Seq(LinesOf(B)), Lines(t), NEW k, NEW v, FieldLine(k, v) \in B
  PROVE  TextOf(SetField(t, k, v), B) /\ Touches(t, SetField(t, k, v))
<1> DEFINE b == FieldLine(k, v)
           n == FieldAt(t, k, Values(t))
<1>1. b \in B /\ (n = 0 \/ n \in 2..Len(t))
  BY LinesFound
<1>2. CASE n = 0
  <2>1. SetField(t, k, v) = WithLine(t, b)
    BY <1>2 DEF SetField, AppendField
  <2> HIDE DEF b
  <2> QED BY <1>1, <2>1, LineAdded DEF Touches, Extended
<1>3. CASE n # 0
  <2> DEFINE e == IF t[n].end = "crlf" THEN "lf" ELSE t[n].end
             l == Line(b, e)
  <2>1. SetField(t, k, v) = [t EXCEPT ![n] = l]
    BY <1>3 DEF SetField
  <2>2. n \in 2..Len(t) /\ n \in 1..Len(t)
    BY <1>1, <1>3
  <2>3. t[n] \in LinesOf(B)
    BY <2>2
  <2>4. t[n].end \in Ends
    BY <2>3, LineIsRecord
  <2>5. e \in Ends /\ (e = "none" => t[n].end = "none")
    BY <2>4 DEF Ends
  <2> HIDE DEF b, n, e
  <2>6. l \in LinesOf(B) /\ l.end = e
    BY <1>1, <2>5, NewLine
  <2> HIDE DEF l
  <2>7. TextOf(SetField(t, k, v), B) /\ Replaced(t, SetField(t, k, v), n)
    BY <2>1, <2>2, <2>5, <2>6, LineReplaced
  <2> QED BY <2>2, <2>7 DEF Touches
<1> QED BY <1>2, <1>3

LEMMA PasskeyAdded ==
  ASSUME NEW B, NEW t \in Seq(LinesOf(B)), Lines(t), NEW v,
         Blank \in B, FieldLine(PasskeyKey, v) \in B
  PROVE  /\ TextOf(EntryAddPasskey(t, v), B)
         /\ t # <<>> => Touches(t, EntryAddPasskey(t, v))
<1> DEFINE b == FieldLine(PasskeyKey, v)
<1>1. b \in B
  OBVIOUS
<1>2. CASE t # <<>>
  <2>1. EntryAddPasskey(t, v) = WithLine(t, b)
    BY <1>2 DEF EntryAddPasskey, AppendField
  <2> HIDE DEF b
  <2> QED BY <1>1, <2>1, LineAdded DEF Touches, Extended
<1>3. CASE t = <<>>
  <2> DEFINE first == <<Line(Blank, "lf")>>
  <2>1. EntryAddPasskey(t, v) = WithLine(first, b)
    BY <1>3 DEF EntryAddPasskey, AppendField
  <2>2. Line(Blank, "lf") \in LinesOf(B) /\ Line(Blank, "lf").end = "lf"
    BY NewLine DEF Ends
  <2>3. first \in Seq(LinesOf(B)) /\ Lines(first)
    BY <2>2 DEF Lines
  <2> HIDE DEF b, first
  <2> QED BY <1>1, <1>3, <2>1, <2>3, LineAdded
<1> QED BY <1>2, <1>3

LEMMA PasskeyRemoved ==
  ASSUME NEW B, NEW t \in Seq(LinesOf(B)), Lines(t), NEW id
  PROVE  TextOf(EntryRemovePasskey(t, id), B) /\ Touches(t, EntryRemovePasskey(t, id))
BY LinesFound, LineGone DEF EntryRemovePasskey, RemoveFieldWhere

\* What IsText asks for is a text of lines.
LEMMA Reads ==
  ASSUME NEW t, IsText(t)
  PROVE  TextOf(t, {t[i].body : i \in DOMAIN t})
BY DEF IsText, TextOf, LinesOf

-----------------------------------------------------------------------------
(***************************************************************************)
(* Sequences from their last element: what is so of the empty one, and of a *)
(* longer one if it is so of the shorter, is so of all.                     *)
(***************************************************************************)
LEMMA PrefixesGrow ==
  ASSUME NEW T, NEW s \in Seq(T), NEW n \in 1..Len(s)
  PROVE  /\ SubSeq(s, 1, n - 1) \in Seq(T) /\ s[n] \in T
         /\ SubSeq(s, 1, n) = Append(SubSeq(s, 1, n - 1), s[n])
<1>1. n \in Nat /\ n - 1 \in Nat /\ Len(s) \in Nat /\ n <= Len(s)
  OBVIOUS
<1>2. \A i \in 1..Len(s) : s[i] \in T
  OBVIOUS
<1> DEFINE p == SubSeq(s, 1, n - 1)
<1>3. p \in Seq(T) /\ Len(p) = n - 1 /\ \A i \in 1..(n - 1) : p[i] = s[i]
  BY <1>1, <1>2
<1> HIDE DEF p
<1>4. /\ Append(p, s[n]) \in Seq(T) /\ Len(Append(p, s[n])) = n
      /\ \A i \in 1..n : Append(p, s[n])[i] = s[i]
  BY <1>1, <1>2, <1>3
<1>5. SubSeq(s, 1, n) \in Seq(T) /\ Len(SubSeq(s, 1, n)) = n
      /\ \A i \in 1..n : SubSeq(s, 1, n)[i] = s[i]
  BY <1>1, <1>2
<1>6. SubSeq(s, 1, n) = Append(p, s[n])
  BY <1>4, <1>5, SeqEqual
<1> QED BY <1>2, <1>3, <1>6 DEF p

LEMMA SequencesGrow ==
  ASSUME NEW T, NEW S, <<>> \in S,
         \A s \in Seq(T), x \in T : s \in S => Append(s, x) \in S
  PROVE  Seq(T) \subseteq S
<1> SUFFICES ASSUME NEW s \in Seq(T)
             PROVE  s \in S
  OBVIOUS
<1> DEFINE Bad == {n \in 0..Len(s) : SubSeq(s, 1, n) \notin S}
<1>1. Len(s) \in Nat
  OBVIOUS
<1>2. ASSUME Bad # {}
      PROVE  FALSE
  <2>1. PICK n \in Bad : \A m \in Bad : n <= m
    <3>1. Bad \in SUBSET Nat
      BY <1>1
    <3> HIDE DEF Bad
    <3> QED BY <1>2, <3>1, NumbersHaveLeast
  <2>2. n \in 0..Len(s) /\ SubSeq(s, 1, n) \notin S
    BY <2>1
  <2>3. n # 0
    <3>1. SubSeq(s, 1, 0) = <<>>
      OBVIOUS
    <3> QED BY <2>2, <3>1
  <2>4. n \in 1..Len(s) /\ n - 1 \in 0..Len(s) /\ ~(n <= n - 1)
    BY <1>1, <2>2, <2>3
  <2>5. SubSeq(s, 1, n - 1) \in S
    BY <2>1, <2>4
  <2>6. /\ SubSeq(s, 1, n - 1) \in Seq(T) /\ s[n] \in T
        /\ SubSeq(s, 1, n) = Append(SubSeq(s, 1, n - 1), s[n])
    BY <2>4, PrefixesGrow
  <2> QED BY <2>2, <2>5, <2>6
<1>3. SubSeq(s, 1, Len(s)) = s /\ Len(s) \in 0..Len(s)
  BY <1>1
<1> QED BY <1>2, <1>3

\* g gathers what stands at the places I of s.
Gathered(s, I, g) ==
  /\ g[0] = <<>>
  /\ \A i \in 1..Len(s) : g[i] = IF i \in I THEN Append(g[i - 1], s[i]) ELSE g[i - 1]

\* Sequences of which one starts as the other, and places alike as far as that.
Alike(s, u, I, J) ==
  /\ Len(s) <= Len(u)
  /\ \A i \in 1..Len(s) : s[i] = u[i] /\ (i \in I <=> i \in J)

LEMMA PickedAgrees ==
  ASSUME NEW T, NEW s \in Seq(T), NEW u \in Seq(T), NEW I, NEW J,
         Alike(s, u, I, J), NEW g, Gathered(s, I, g), NEW h, Gathered(u, J, h)
  PROVE  g[Len(s)] = h[Len(s)]
<1> DEFINE Bad == {i \in 0..Len(s) : g[i] # h[i]}
<1>1. Len(s) \in Nat /\ Len(u) \in Nat /\ Len(s) <= Len(u)
  BY DEF Alike
<1>2. ASSUME Bad # {}
      PROVE  FALSE
  <2>1. PICK n \in Bad : \A m \in Bad : n <= m
    <3>1. Bad \in SUBSET Nat
      BY <1>1
    <3> HIDE DEF Bad
    <3> QED BY <1>2, <3>1, NumbersHaveLeast
  <2>2. n \in 0..Len(s) /\ g[n] # h[n] /\ n # 0
    BY <2>1 DEF Gathered
  <2>3. n \in 1..Len(s) /\ n \in 1..Len(u) /\ n - 1 \in 0..Len(s) /\ ~(n <= n - 1)
    BY <1>1, <2>2
  <2>4. g[n - 1] = h[n - 1]
    BY <2>1, <2>3
  <2>5. /\ g[n] = IF n \in I THEN Append(g[n - 1], s[n]) ELSE g[n - 1]
        /\ h[n] = IF n \in J THEN Append(h[n - 1], u[n]) ELSE h[n - 1]
        /\ s[n] = u[n] /\ (n \in I <=> n \in J)
    BY <2>3 DEF Alike, Gathered
  <2> HIDE DEF Bad
  <2> QED BY <2>2, <2>4, <2>5
<1>3. Len(s) \in 0..Len(s)
  BY <1>1
<1> QED BY <1>2, <1>3

LEMMA GatheredPicked ==
  ASSUME NEW T, NEW s \in Seq(T), NEW I
  PROVE  \E g : Picked(s, I) = g[Len(s)] /\ Gathered(s, I, g)
BY PickedGathers DEF Gathered

LEMMA PickedSame ==
  ASSUME NEW T, NEW s \in Seq(T), NEW I, NEW J, \A i \in 1..Len(s) : i \in I <=> i \in J
  PROVE  Picked(s, I) = Picked(s, J)
<1>1. PICK g : Picked(s, I) = g[Len(s)] /\ Gathered(s, I, g)
  BY GatheredPicked
<1>2. PICK h : Picked(s, J) = h[Len(s)] /\ Gathered(s, J, h)
  BY GatheredPicked
<1>3. Alike(s, s, I, J)
  BY DEF Alike
<1> QED BY <1>1, <1>2, <1>3, PickedAgrees

\* What an element at the end adds.
LEMMA PickedGrows ==
  ASSUME NEW T, NEW s \in Seq(T), NEW x \in T, NEW I
  PROVE  Picked(Append(s, x), I) =
           IF Len(s) + 1 \in I THEN Append(Picked(s, I), x) ELSE Picked(s, I)
<1> DEFINE u == Append(s, x)
           n == Len(s) + 1
<1>1. /\ u \in Seq(T) /\ Len(u) = n /\ u[n] = x /\ Len(s) \in Nat
      /\ \A i \in 1..Len(s) : s[i] = u[i]
  OBVIOUS
<1> HIDE DEF u
<1>2. n \in 1..Len(u) /\ n - 1 = Len(s) /\ Alike(s, u, I, I)
  BY <1>1 DEF Alike
<1>3. PICK g : Picked(s, I) = g[Len(s)] /\ Gathered(s, I, g)
  BY GatheredPicked
<1>4. PICK h : Picked(u, I) = h[Len(u)] /\ Gathered(u, I, h)
  BY <1>1, GatheredPicked
<1>5. g[Len(s)] = h[Len(s)]
  BY <1>1, <1>2, <1>3, <1>4, PickedAgrees
<1>6. h[n] = IF n \in I THEN Append(h[n - 1], u[n]) ELSE h[n - 1]
  BY <1>2, <1>4 DEF Gathered
<1> HIDE DEF n
<1>7. Picked(u, I) = IF n \in I THEN Append(Picked(s, I), x) ELSE Picked(s, I)
  BY <1>1, <1>2, <1>3, <1>4, <1>5, <1>6
<1> QED BY <1>7 DEF u, n

LEMMA PickedNothing ==
  ASSUME NEW I
  PROVE  Picked(<<>>, I) = <<>>
<1> DEFINE s == <<>>
<1>1. s \in Seq(Nat) /\ Len(s) = 0
  OBVIOUS
<1> HIDE DEF s
<1>2. PICK g : Picked(s, I) = g[Len(s)] /\ Gathered(s, I, g)
  BY <1>1, GatheredPicked
<1>3. Picked(s, I) = <<>>
  BY <1>1, <1>2 DEF Gathered
<1> QED BY <1>3 DEF s

LEMMA PickedAre ==
  ASSUME NEW T, NEW s \in Seq(T), NEW I
  PROVE  /\ Picked(s, I) \in Seq(T)
         /\ ToSet(Picked(s, I)) = {s[i] : i \in {j \in 1..Len(s) : j \in I}}
<1> DEFINE E == {s[i] : i \in {j \in 1..Len(s) : j \in I}}
           p == Picked(s, I)
<1>1. \A i \in 1..Len(s) : i \in I => s[i] \in E /\ s[i] \in T
  OBVIOUS
<1>2. \A i \in 1..Len(s) : i \in I => s[i] \in ToSet(p)
  BY PickedKeeps
<1> HIDE DEF E
<1>3. p \in Seq(E) /\ p \in Seq(T)
  BY <1>1, PickedYields
<1> HIDE DEF p
<1>4. ToSet(p) \subseteq E
  BY <1>3, ElementsOf
<1>5. E \subseteq ToSet(p)
  BY <1>2 DEF E
<1> QED BY <1>3, <1>4, <1>5 DEF E, p

\* The same when the places of the longer sequence are given anew.
LEMMA PickedGrowsTo ==
  ASSUME NEW T, NEW s \in Seq(T), NEW x \in T, NEW I, NEW J,
         \A i \in 1..Len(s) : i \in I <=> i \in J
  PROVE  Picked(Append(s, x), I) =
           IF Len(s) + 1 \in I THEN Append(Picked(s, J), x) ELSE Picked(s, J)
<1>1. Picked(s, I) = Picked(s, J)
  BY PickedSame
<1> QED BY <1>1, PickedGrows

\* A sequence and one element more.
LEMMA Longer ==
  ASSUME NEW T, NEW s \in Seq(T), NEW x \in T
  PROVE  /\ Append(s, x) \in Seq(T) /\ DOMAIN Append(s, x) = 1..(Len(s) + 1)
         /\ DOMAIN s = 1..Len(s) /\ Len(s) \in Nat
         /\ Append(s, x)[Len(s) + 1] = x
         /\ \A i \in 1..Len(s) : Append(s, x)[i] = s[i] /\ i \in 1..(Len(s) + 1)
         /\ ToSet(Append(s, x)) = ToSet(s) \cup {x}
BY AppendsElement

LEMMA OnlyGrows ==
  ASSUME NEW T, NEW s \in Seq(T), NEW x \in T, NEW S
  PROVE  Only(Append(s, x), S) = IF x \in S THEN Append(Only(s, S), x) ELSE Only(s, S)
<1> DEFINE u == Append(s, x)
           I == {i \in DOMAIN u : u[i] \in S}
           J == {i \in DOMAIN s : s[i] \in S}
<1>1. /\ DOMAIN u = 1..(Len(s) + 1) /\ DOMAIN s = 1..Len(s) /\ u[Len(s) + 1] = x
      /\ \A i \in 1..Len(s) : u[i] = s[i] /\ i \in 1..(Len(s) + 1)
      /\ Len(s) \in Nat
  BY Longer
<1>2. Len(s) + 1 \in I <=> x \in S
  <2> HIDE DEF u
  <2> QED BY <1>1
<1>3. \A i \in 1..Len(s) : i \in I <=> i \in J
  <2> HIDE DEF u
  <2> QED BY <1>1
<1>4. Only(u, S) = Picked(u, I) /\ Only(s, S) = Picked(s, J)
  BY DEF Only
<1> HIDE DEF I, J
<1> QED BY <1>2, <1>3, <1>4, PickedGrowsTo

LEMMA NoneOfNothing ==
  ASSUME NEW S
  PROVE  Only(<<>>, S) = <<>>
BY PickedNothing DEF Only

\* One sequence after another.
LEMMA Joined ==
  ASSUME NEW T, NEW s \in Seq(T), NEW u \in Seq(T), NEW m, m = Len(s), NEW n, n = Len(s) + Len(u)
  PROVE  /\ s \o u \in Seq(T) /\ Len(s \o u) = n /\ n \in Nat /\ m \in Nat
         /\ \A i \in 1..m : (s \o u)[i] = s[i]
         /\ \A i \in 1..n : ~(i <= m) => (s \o u)[i] = u[i - m]
         /\ \A i \in 1..n : IF i <= m THEN i \in 1..m ELSE i - m \in 1..Len(u)
<1>1. Len(s) \in Nat /\ Len(u) \in Nat
  OBVIOUS
<1>2. /\ s \o u \in Seq(T) /\ Len(s \o u) = Len(s) + Len(u)
      /\ \A i \in 1..(Len(s) + Len(u)) : (s \o u)[i] = IF i <= Len(s) THEN s[i] ELSE u[i - Len(s)]
  BY ConcatProperties
<1> DEFINE c == s \o u
<1> HIDE DEF c
<1>3. \A i \in 1..m : i \in 1..n /\ i <= m
  BY <1>1
<1> QED BY <1>1, <1>2, <1>3

\* Bodies of texts.
LEMMA BodiesOf ==
  ASSUME NEW B, NEW t \in Seq(LinesOf(B))
  PROVE  /\ Bodies(t) \in Seq(B) /\ Len(Bodies(t)) = Len(t)
         /\ \A i \in 1..Len(t) : Bodies(t)[i] = t[i].body
         /\ ToSet(Bodies(t)) = {k.body : k \in ToSet(t)}
<1>1. /\ DOMAIN t = 1..Len(t) /\ Len(t) \in Nat
      /\ \A i \in 1..Len(t) : t[i] \in LinesOf(B)
  OBVIOUS
<1>2. \A i \in 1..Len(t) : t[i].body \in B
  BY <1>1, LineIsRecord
<1>3. Bodies(t) = [i \in 1..Len(t) |-> t[i].body]
  BY <1>1 DEF Bodies
<1>4. Bodies(t) \in Seq(B) /\ Len(Bodies(t)) = Len(t)
  BY <1>1, <1>2, <1>3
<1>5. ToSet(Bodies(t)) = {k.body : k \in ToSet(t)}
  BY <1>1, <1>3 DEF ToSet
<1> QED BY <1>3, <1>4, <1>5

LEMMA SameBodies ==
  ASSUME NEW B, NEW t \in Seq(LinesOf(B)), NEW b \in Seq(B), Len(b) = Len(t),
         \A i \in 1..Len(t) : b[i] = t[i].body
  PROVE  Bodies(t) = b
<1>1. /\ Bodies(t) \in Seq(B) /\ Len(Bodies(t)) = Len(t)
      /\ \A i \in 1..Len(t) : Bodies(t)[i] = t[i].body
  BY BodiesOf
<1> QED BY <1>1, SeqEqual

LEMMA BodiesAdded ==
  ASSUME NEW B, NEW t \in Seq(LinesOf(B)), Lines(t), NEW bodies \in Seq(B)
  PROVE  /\ Bodies(WithLines(t, bodies)) = Bodies(t) \o bodies
         /\ \A i \in 1..Len(WithLines(t, bodies)) : WithLines(t, bodies)[i].end # "none"
<1> DEFINE u == Terminated(t)
           new == [i \in DOMAIN bodies |-> Line(bodies[i], "lf")]
           w == u \o new
           b == Bodies(t)
           v == b \o bodies
<1>1. /\ u \in Seq(LinesOf(B)) /\ Len(u) = Len(t) /\ Len(t) \in Nat
      /\ \A i \in 1..Len(t) : u[i].body = t[i].body /\ u[i].end # "none"
  BY Terminates
<1>2. /\ new \in Seq(LinesOf(B)) /\ Len(new) = Len(bodies) /\ Len(bodies) \in Nat
      /\ \A i \in 1..Len(bodies) : new[i].body = bodies[i] /\ new[i].end # "none"
  <2>1. /\ DOMAIN bodies = 1..Len(bodies) /\ Len(bodies) \in Nat
        /\ \A i \in 1..Len(bodies) : bodies[i] \in B
    OBVIOUS
  <2>2. \A i \in 1..Len(bodies) : /\ Line(bodies[i], "lf") \in LinesOf(B)
                                  /\ Line(bodies[i], "lf").body = bodies[i]
                                  /\ Line(bodies[i], "lf").end = "lf"
    BY <2>1, NewLine DEF Ends
  <2> QED BY <2>1, <2>2
<1>3. w = WithLines(t, bodies)
  BY DEF WithLines
<1>4. b \in Seq(B) /\ Len(b) = Len(t) /\ \A i \in 1..Len(t) : b[i] = t[i].body
  BY BodiesOf
<1> DEFINE m == Len(t)
           n == Len(t) + Len(bodies)
<1> HIDE DEF u, new, b
<1>5. m = Len(u) /\ m = Len(b) /\ n = Len(u) + Len(new) /\ n = Len(b) + Len(bodies)
  BY <1>1, <1>2, <1>4
<1>6. m = Len(t)
  OBVIOUS
<1> HIDE DEF m, n
<1>7. /\ w \in Seq(LinesOf(B)) /\ Len(w) = n /\ n \in Nat /\ m \in Nat
      /\ \A i \in 1..m : w[i] = u[i]
      /\ \A i \in 1..n : ~(i <= m) => w[i] = new[i - m]
  <2>1. u \in Seq(LinesOf(B)) /\ new \in Seq(LinesOf(B)) /\ m = Len(u) /\ n = Len(u) + Len(new)
    BY <1>1, <1>2, <1>5
  <2> QED BY <2>1, Joined
<1>8. /\ v \in Seq(B) /\ Len(v) = n
      /\ \A i \in 1..m : v[i] = b[i]
      /\ \A i \in 1..n : ~(i <= m) => v[i] = bodies[i - m]
      /\ \A i \in 1..n : IF i <= m THEN i \in 1..m ELSE i - m \in 1..Len(bodies)
  <2>1. b \in Seq(B) /\ m = Len(b) /\ n = Len(b) + Len(bodies)
    BY <1>4, <1>5
  <2> QED BY <2>1, Joined
<1> HIDE DEF w, v
<1>9. ASSUME NEW i \in 1..n
      PROVE  v[i] = w[i].body /\ w[i].end # "none"
  <2>1. CASE i <= m
    <3>1. i \in 1..m /\ i \in 1..Len(t)
      BY <1>6, <1>8, <2>1
    <3> QED BY <1>1, <1>4, <1>7, <1>8, <3>1
  <2>2. CASE ~(i <= m)
    <3>1. i - m \in 1..Len(bodies)
      BY <1>8, <2>2
    <3>2. v[i] = bodies[i - m] /\ w[i] = new[i - m]
      BY <1>7, <1>8, <2>2
    <3> QED BY <1>2, <3>1, <3>2
  <2> QED BY <2>1, <2>2
<1>10. Bodies(w) = v
  BY <1>7, <1>8, <1>9, SameBodies
<1> QED BY <1>3, <1>7, <1>9, <1>10 DEF v, b

LEMMA BodiesTerminated ==
  ASSUME NEW B, NEW t \in Seq(LinesOf(B)), Lines(t)
  PROVE  Bodies(Terminated(t)) = Bodies(t)
<1>1. /\ Terminated(t) \in Seq(LinesOf(B)) /\ Len(Terminated(t)) = Len(t)
      /\ \A i \in 1..Len(t) : Terminated(t)[i].body = t[i].body
  BY Terminates
<1>2. /\ Bodies(t) \in Seq(B) /\ Len(Bodies(t)) = Len(t)
      /\ \A i \in 1..Len(t) : Bodies(t)[i] = t[i].body
  BY BodiesOf
<1> QED BY <1>1, <1>2, SameBodies

-----------------------------------------------------------------------------
(***************************************************************************)
(* Prefixes.                                                                *)
(***************************************************************************)
LEMMA PrefixIs ==
  ASSUME NEW T, NEW s \in Seq(T), NEW u \in Seq(T)
  PROVE  IsPrefix(s, u) <=> Len(s) <= Len(u) /\ \A i \in 1..Len(s) : s[i] = u[i]
<1>1. Len(s) \in Nat /\ Len(u) \in Nat
  OBVIOUS
<1>2. SubSeq(s, 1, Len(s)) = s
  OBVIOUS
<1>3. ASSUME Len(s) <= Len(u)
      PROVE  /\ SubSeq(u, 1, Len(s)) \in Seq(T) /\ Len(SubSeq(u, 1, Len(s))) = Len(s)
             /\ \A i \in 1..Len(s) : SubSeq(u, 1, Len(s))[i] = u[i]
  <2>1. \A i \in 1..Len(s) : u[i] \in T
    BY <1>1, <1>3
  <2> QED BY <1>1, <1>3, <2>1
<1>4. ASSUME Len(s) <= Len(u), \A i \in 1..Len(s) : s[i] = u[i]
      PROVE  SubSeq(u, 1, Len(s)) = s
  BY <1>3, <1>4, SeqEqual
<1>5. ASSUME Len(s) <= Len(u), SubSeq(u, 1, Len(s)) = s
      PROVE  \A i \in 1..Len(s) : s[i] = u[i]
  BY <1>3, <1>5
<1> QED BY <1>2, <1>4, <1>5 DEF IsPrefix

LEMMA PrefixGrows ==
  ASSUME NEW T, NEW s \in Seq(T), NEW u \in Seq(T), IsPrefix(s, u), NEW x \in T
  PROVE  IsPrefix(s, Append(u, x))
<1>1. Len(s) <= Len(u) /\ \A i \in 1..Len(s) : s[i] = u[i]
  BY PrefixIs
<1>2. /\ Append(u, x) \in Seq(T) /\ Len(Append(u, x)) = Len(u) + 1
      /\ \A i \in 1..Len(u) : Append(u, x)[i] = u[i]
  OBVIOUS
<1>3. Len(s) \in Nat /\ Len(u) \in Nat /\ \A i \in 1..Len(s) : i \in 1..Len(u)
  BY <1>1
<1>4. Len(s) <= Len(Append(u, x)) /\ \A i \in 1..Len(s) : s[i] = Append(u, x)[i]
  BY <1>1, <1>2, <1>3
<1> QED BY <1>2, <1>4, PrefixIs

LEMMA OwnPrefix ==
  ASSUME NEW T, NEW s \in Seq(T)
  PROVE  IsPrefix(s, s)
<1>1. Len(s) <= Len(s)
  OBVIOUS
<1> QED BY <1>1, PrefixIs

LEMMA ConcatGrows ==
  ASSUME NEW T, NEW s \in Seq(T), NEW u \in Seq(T), NEW x \in T
  PROVE  s \o <<>> = s /\ s \o Append(u, x) = Append(s \o u, x) /\ s \o u \in Seq(T)
<1> DEFINE e == Append(u, x)
           p == s \o u
           a == s \o e
           c == Append(p, x)
           m == Len(s)
           n == Len(s) + Len(u)
           k == Len(s) + Len(e)
<1>1. /\ e \in Seq(T) /\ Len(e) = Len(u) + 1 /\ Len(u) \in Nat
      /\ \A i \in 1..Len(u) : e[i] = u[i]
      /\ e[Len(u) + 1] = x
  OBVIOUS
<1> HIDE DEF e
<1>2. m = Len(s) /\ n = Len(s) + Len(u) /\ k = Len(s) + Len(e) /\ k = n + 1 /\ k - m = Len(u) + 1
      /\ ~(k <= m)
  BY <1>1
<1> HIDE DEF m, n, k
<1>3. /\ p \in Seq(T) /\ Len(p) = n /\ n \in Nat /\ m \in Nat
      /\ \A i \in 1..m : p[i] = s[i]
      /\ \A i \in 1..n : ~(i <= m) => p[i] = u[i - m]
      /\ \A i \in 1..n : IF i <= m THEN i \in 1..m ELSE i - m \in 1..Len(u)
  BY <1>2, Joined
<1>4. /\ a \in Seq(T) /\ Len(a) = k
      /\ \A i \in 1..m : a[i] = s[i]
      /\ \A i \in 1..k : ~(i <= m) => a[i] = e[i - m]
  BY <1>1, <1>2, Joined
<1> HIDE DEF a, p
<1>5. /\ c \in Seq(T) /\ Len(c) = k
      /\ \A i \in 1..n : c[i] = p[i]
      /\ c[k] = x
  BY <1>2, <1>3
<1> HIDE DEF c
<1>6. ASSUME NEW i \in 1..k
      PROVE  a[i] = c[i]
  <2>1. i = k \/ i \in 1..n
    BY <1>2, <1>3
  <2>2. CASE i = k
    BY <1>1, <1>2, <1>4, <1>5, <2>2
  <2>3. CASE i \in 1..n /\ i <= m
    BY <1>3, <1>4, <1>5, <2>3
  <2>4. CASE i \in 1..n /\ ~(i <= m)
    <3>1. i - m \in 1..Len(u)
      BY <1>3, <2>4
    <3>2. a[i] = e[i - m] /\ c[i] = u[i - m]
      BY <1>3, <1>4, <1>5, <2>4
    <3> QED BY <1>1, <3>1, <3>2
  <2> QED BY <2>1, <2>2, <2>3, <2>4
<1>7. a = c
  BY <1>4, <1>5, <1>6, SeqEqual
<1>8. s \o <<>> = s
  OBVIOUS
<1> QED BY <1>3, <1>7, <1>8 DEF a, c, p, e

-----------------------------------------------------------------------------
\* The first place of a set of places, or 0.
First(I) == IF I # {} THEN Min(I) ELSE 0

LEMMA FirstIs ==
  ASSUME NEW n \in Nat, NEW I, I \subseteq 1..n
  PROVE  /\ I = {} => First(I) = 0
         /\ I # {} => First(I) \in I /\ \A j \in I : First(I) <= j
<1>1. CASE I = {}
  BY <1>1 DEF First
<1>2. CASE I # {}
  <2>1. I \in SUBSET Nat
    OBVIOUS
  <2>2. \E m \in I : \A j \in I : m <= j
    BY <1>2, <2>1, NumbersHaveLeast
  <2>3. Min(I) \in I /\ \A j \in I : Min(I) <= j
    BY <2>2 DEF Min
  <2> QED BY <1>2, <2>3 DEF First
<1> QED BY <1>1, <1>2

LEMMA FirstOnly ==
  ASSUME NEW n \in Nat, NEW I, I \subseteq 1..n, NEW m \in I, \A j \in I : m <= j
  PROVE  First(I) = m
<1>1. First(I) \in I /\ \A j \in I : First(I) <= j
  BY FirstIs
<1>2. First(I) <= m /\ m <= First(I)
  BY <1>1
<1>3. First(I) \in Nat /\ m \in Nat
  <2>1. 1..n \subseteq Nat
    OBVIOUS
  <2> QED BY <1>1, <2>1
<1> QED BY <1>2, <1>3

\* What stands in S from place m on: where, the first, all of it, and the
\* sequence without the first.
PlacesIn(s, m, S) == {i \in m..Len(s) : s[i] \in S}
FirstIn(s, m, S) == First(PlacesIn(s, m, S))
AllIn(s, m, S) == Picked(s, PlacesIn(s, m, S))
LessFirst(s, m, S) == Without(s, FirstIn(s, m, S))

LEMMA PlacesInGrow ==
  ASSUME NEW T, NEW s \in Seq(T), NEW x \in T, NEW m \in Nat \ {0}, NEW S
  PROVE  PlacesIn(Append(s, x), m, S) =
           PlacesIn(s, m, S) \cup (IF m <= Len(s) + 1 /\ x \in S THEN {Len(s) + 1} ELSE {})
<1> DEFINE u == Append(s, x)
           n == Len(s) + 1
<1>1. /\ Len(u) = n /\ u[n] = x /\ Len(s) \in Nat
      /\ \A i \in 1..Len(s) : u[i] = s[i]
  OBVIOUS
<1> HIDE DEF u
<1>2. \A i \in m..n : i = n \/ i \in m..Len(s)
  BY <1>1
<1>3. \A i \in m..Len(s) : i \in m..n /\ u[i] = s[i]
  BY <1>1
<1>4. n \in m..n <=> m <= n
  BY <1>1
<1> HIDE DEF n
<1>5. PlacesIn(u, m, S) = PlacesIn(s, m, S) \cup (IF m <= n /\ x \in S THEN {n} ELSE {})
  BY <1>1, <1>2, <1>3, <1>4 DEF PlacesIn
<1> QED BY <1>5 DEF u, n

LEMMA FirstInIs ==
  ASSUME NEW T, NEW s \in Seq(T), NEW m \in Nat \ {0}, NEW S
  PROVE  /\ PlacesIn(s, m, S) \subseteq 1..Len(s)
         /\ PlacesIn(s, m, S) = {} => FirstIn(s, m, S) = 0
         /\ PlacesIn(s, m, S) # {} =>
              /\ FirstIn(s, m, S) \in PlacesIn(s, m, S)
              /\ FirstIn(s, m, S) \in 1..Len(s) /\ FirstIn(s, m, S) # 0 /\ m <= Len(s)
              /\ \A j \in PlacesIn(s, m, S) : FirstIn(s, m, S) <= j
<1> DEFINE I == PlacesIn(s, m, S)
<1>1. Len(s) \in Nat /\ I \subseteq 1..Len(s) /\ (I # {} => m <= Len(s))
  BY DEF PlacesIn
<1> HIDE DEF I
<1>2. /\ I = {} => First(I) = 0
      /\ I # {} => First(I) \in I /\ \A j \in I : First(I) <= j
  BY <1>1, FirstIs
<1>3. I # {} => First(I) \in 1..Len(s) /\ First(I) # 0
  <2>1. 0 \notin 1..Len(s)
    BY <1>1
  <2> QED BY <1>1, <1>2, <2>1
<1> QED BY <1>1, <1>2, <1>3 DEF FirstIn, I

\* Removing what is not last leaves the last.
LEMMA RemovedGrows ==
  ASSUME NEW T, NEW s \in Seq(T), NEW x \in T, NEW i \in 1..Len(s)
  PROVE  RemoveAt(Append(s, x), i) = Append(RemoveAt(s, i), x)
<1> DEFINE u == Append(s, x)
           r == RemoveAt(s, i)
           a == RemoveAt(u, i)
           b == Append(r, x)
           n == Len(s)
<1>1. /\ u \in Seq(T) /\ Len(u) = n + 1 /\ u[n + 1] = x /\ n \in Nat /\ i \in 1..Len(u)
      /\ \A j \in 1..n : u[j] = s[j]
  OBVIOUS
<1> HIDE DEF u
<1>2. /\ r \in Seq(T) /\ Len(r) = n - 1
      /\ \A j \in 1..(n - 1) : r[j] = IF j < i THEN s[j] ELSE s[j + 1]
  BY ElementRemoved
<1>3. /\ a \in Seq(T) /\ Len(a) = n
      /\ \A j \in 1..n : a[j] = IF j < i THEN u[j] ELSE u[j + 1]
  <2>1. /\ a \in Seq(T) /\ Len(a) = Len(u) - 1
        /\ \A j \in 1..(Len(u) - 1) : a[j] = IF j < i THEN u[j] ELSE u[j + 1]
    BY <1>1, ElementRemoved
  <2>2. Len(u) - 1 = n
    BY <1>1
  <2> HIDE DEF a, n
  <2> QED BY <2>1, <2>2
<1> HIDE DEF r
<1>4. /\ b \in Seq(T) /\ Len(b) = n /\ b[n] = x
      /\ \A j \in 1..(n - 1) : b[j] = r[j]
  BY <1>1, <1>2
<1>5. i \in 1..n
  OBVIOUS
<1> HIDE DEF a, b, n
<1>6. ASSUME NEW j \in 1..n
      PROVE  a[j] = b[j]
  <2>1. CASE j = n
    <3>1. ~(j < i)
      BY <1>1, <1>5, <2>1
    <3> QED BY <1>1, <1>3, <1>4, <2>1, <3>1
  <2>2. CASE j # n
    <3>1. j \in 1..(n - 1) /\ j + 1 \in 1..n
      BY <1>1, <2>2
    <3> QED BY <1>1, <1>2, <1>3, <1>4, <3>1
  <2> QED BY <2>1, <2>2
<1>7. a = b
  BY <1>3, <1>4, <1>6, SeqEqual
<1> QED BY <1>7 DEF a, b, u, r

LEMMA LastRemoved ==
  ASSUME NEW T, NEW s \in Seq(T), NEW x \in T
  PROVE  RemoveAt(Append(s, x), Len(s) + 1) = s
<1> DEFINE u == Append(s, x)
           n == Len(s)
           a == RemoveAt(u, n + 1)
<1>1. /\ u \in Seq(T) /\ Len(u) = n + 1 /\ n \in Nat /\ n + 1 \in 1..Len(u)
      /\ \A j \in 1..n : u[j] = s[j]
  OBVIOUS
<1> HIDE DEF u
<1>2. /\ a \in Seq(T) /\ Len(a) = n
      /\ \A j \in 1..n : a[j] = IF j < n + 1 THEN u[j] ELSE u[j + 1]
  <2>1. /\ a \in Seq(T) /\ Len(a) = Len(u) - 1
        /\ \A j \in 1..(Len(u) - 1) : a[j] = IF j < n + 1 THEN u[j] ELSE u[j + 1]
    BY <1>1, ElementRemoved
  <2>2. Len(u) - 1 = n
    BY <1>1
  <2> HIDE DEF a, n
  <2> QED BY <2>1, <2>2
<1> HIDE DEF a
<1>3. \A j \in 1..n : a[j] = s[j]
  BY <1>1, <1>2
<1>4. a = s
  BY <1>2, <1>3, SeqEqual
<1> QED BY <1>4 DEF a, u

LEMMA FirstInGrows ==
  ASSUME NEW T, NEW s \in Seq(T), NEW x \in T, NEW m \in Nat \ {0}, NEW S
  PROVE  FirstIn(Append(s, x), m, S) =
           IF FirstIn(s, m, S) # 0 THEN FirstIn(s, m, S)
           ELSE IF m <= Len(s) + 1 /\ x \in S THEN Len(s) + 1 ELSE 0
<1> DEFINE u == Append(s, x)
           n == Len(s) + 1
           I == PlacesIn(s, m, S)
           J == PlacesIn(u, m, S)
           New == IF m <= n /\ x \in S THEN {n} ELSE {}
<1>1. u \in Seq(T) /\ Len(u) = n /\ Len(s) \in Nat
  OBVIOUS
<1>2. J = I \cup New
  BY PlacesInGrow
<1> HIDE DEF u
<1>3. /\ I = {} => FirstIn(s, m, S) = 0
      /\ I # {} => /\ FirstIn(s, m, S) \in I /\ FirstIn(s, m, S) # 0
                   /\ FirstIn(s, m, S) \in 1..Len(s)
                   /\ \A j \in I : FirstIn(s, m, S) <= j
  BY FirstInIs
<1>4. J \subseteq 1..n /\ n \in Nat /\ (J = {} => FirstIn(u, m, S) = 0)
  BY <1>1, FirstInIs
<1>5. FirstIn(u, m, S) = First(J)
  BY DEF FirstIn
<1> HIDE DEF I, J
<1>6. CASE I # {}
  <2> DEFINE f == FirstIn(s, m, S)
  <2>1. f \in I /\ f # 0 /\ f \in 1..Len(s) /\ \A j \in I : f <= j
    BY <1>3, <1>6
  <2> HIDE DEF f
  <2>2. f \in J /\ f <= n
    BY <1>1, <1>2, <2>1
  <2>3. \A j \in J : f <= j
    BY <1>2, <2>1, <2>2
  <2>4. First(J) = f
    BY <1>4, <2>2, <2>3, FirstOnly
  <2> QED BY <1>5, <2>1, <2>4 DEF f, u
<1>7. CASE I = {} /\ m <= n /\ x \in S
  <2>1. J = {n}
    BY <1>2, <1>7
  <2>2. First(J) = n
    BY <1>4, <2>1, FirstOnly
  <2> QED BY <1>3, <1>5, <1>7, <2>2 DEF u
<1>8. CASE I = {} /\ ~(m <= n /\ x \in S)
  BY <1>2, <1>3, <1>4, <1>8 DEF u
<1> QED BY <1>6, <1>7, <1>8 DEF u

LEMMA AllInGrows ==
  ASSUME NEW T, NEW s \in Seq(T), NEW x \in T, NEW m \in Nat \ {0}, NEW S
  PROVE  AllIn(Append(s, x), m, S) =
           IF m <= Len(s) + 1 /\ x \in S THEN Append(AllIn(s, m, S), x) ELSE AllIn(s, m, S)
<1> DEFINE n == Len(s) + 1
           I == PlacesIn(Append(s, x), m, S)
           J == PlacesIn(s, m, S)
<1>1. I = J \cup (IF m <= n /\ x \in S THEN {n} ELSE {})
  BY PlacesInGrow
<1>2. J \subseteq 1..Len(s)
  BY FirstInIs
<1>3. n \notin 1..Len(s)
  OBVIOUS
<1> HIDE DEF I, J, n
<1>4. (n \in I <=> m <= n /\ x \in S) /\ \A i \in 1..Len(s) : i \in I <=> i \in J
  BY <1>1, <1>2, <1>3
<1>5. Picked(Append(s, x), I) = IF n \in I THEN Append(Picked(s, J), x) ELSE Picked(s, J)
  BY <1>4, PickedGrowsTo DEF n
<1> QED BY <1>4, <1>5 DEF AllIn, I, J, n

LEMMA LessFirstIs ==
  ASSUME NEW T, NEW s \in Seq(T), NEW m \in Nat \ {0}, NEW S
  PROVE  /\ LessFirst(s, m, S) \in Seq(T)
         /\ FirstIn(s, m, S) = 0 => LessFirst(s, m, S) = s
         /\ FirstIn(s, m, S) # 0 =>
              /\ Len(LessFirst(s, m, S)) = Len(s) - 1 /\ FirstIn(s, m, S) \in 1..Len(s)
              /\ LessFirst(s, m, S) = RemoveAt(s, FirstIn(s, m, S)) /\ m <= Len(s)
<1> DEFINE f == FirstIn(s, m, S)
<1>1. f # 0 => f \in 1..Len(s) /\ m <= Len(s)
  BY FirstInIs
<1>2. LessFirst(s, m, S) = IF f = 0 THEN s ELSE RemoveAt(s, f)
  BY DEF LessFirst, Without
<1> HIDE DEF f
<1>3. f # 0 => RemoveAt(s, f) \in Seq(T) /\ Len(RemoveAt(s, f)) = Len(s) - 1
  BY <1>1, ElementRemoved
<1> QED BY <1>1, <1>2, <1>3 DEF f

LEMMA LessFirstGrows ==
  ASSUME NEW T, NEW s \in Seq(T), NEW x \in T, NEW m \in Nat \ {0}, NEW S
  PROVE  LessFirst(Append(s, x), m, S) =
           IF FirstIn(s, m, S) # 0 THEN Append(LessFirst(s, m, S), x)
           ELSE IF m <= Len(s) + 1 /\ x \in S THEN s ELSE Append(s, x)
<1> DEFINE f == FirstIn(s, m, S)
           h == FirstIn(Append(s, x), m, S)
<1>1. h = IF f # 0 THEN f ELSE IF m <= Len(s) + 1 /\ x \in S THEN Len(s) + 1 ELSE 0
  BY FirstInGrows
<1>2. LessFirst(Append(s, x), m, S) = IF h = 0 THEN Append(s, x) ELSE RemoveAt(Append(s, x), h)
  BY DEF LessFirst, Without
<1>3. f # 0 => f \in 1..Len(s) /\ LessFirst(s, m, S) = RemoveAt(s, f)
  BY LessFirstIs
<1>4. Len(s) + 1 # 0
  OBVIOUS
<1> HIDE DEF f, h
<1>5. f # 0 => RemoveAt(Append(s, x), f) = Append(RemoveAt(s, f), x)
  BY <1>3, RemovedGrows
<1>6. RemoveAt(Append(s, x), Len(s) + 1) = s
  BY LastRemoved
<1> QED BY <1>1, <1>2, <1>3, <1>4, <1>5, <1>6 DEF f

\* Of all that is in S, the first in R goes with the first of all in R.
LEMMA FirstOfAllGoes ==
  ASSUME NEW T, NEW m \in Nat \ {0}, NEW S, NEW R, R \subseteq S
  PROVE  \A s \in Seq(T) :
           /\ AllIn(LessFirst(s, m, R), m, S) = LessFirst(AllIn(s, m, S), 1, R)
           /\ FirstIn(s, m, R) # 0 <=> FirstIn(AllIn(s, m, S), 1, R) # 0
           /\ AllIn(s, m, S) \in Seq(T)
<1> DEFINE Goes(s) == /\ AllIn(LessFirst(s, m, R), m, S) = LessFirst(AllIn(s, m, S), 1, R)
                      /\ FirstIn(s, m, R) # 0 <=> FirstIn(AllIn(s, m, S), 1, R) # 0
                      /\ AllIn(s, m, S) \in Seq(T)
           A == {s \in Seq(T) : Goes(s)}
<1>1. <<>> \in A
  <2> DEFINE e == <<>>
  <2>1. e \in Seq(T) /\ Len(e) = 0 /\ \A I : Picked(e, I) = e
    BY PickedNothing
  <2> HIDE DEF e
  <2>2. \A Q : \A k \in Nat \ {0} : FirstIn(e, k, Q) = 0
    <3> SUFFICES ASSUME NEW Q, NEW k \in Nat \ {0}
                 PROVE  FirstIn(e, k, Q) = 0
      OBVIOUS
    <3>1. PlacesIn(e, k, Q) \subseteq 1..0
      BY <2>1, FirstInIs
    <3>2. PlacesIn(e, k, Q) = {}
      BY <3>1
    <3> QED BY <2>1, <3>2, FirstInIs
  <2>3. /\ LessFirst(e, m, R) = e /\ LessFirst(e, 1, R) = e
        /\ FirstIn(e, m, R) = 0 /\ FirstIn(e, 1, R) = 0
    BY <2>2 DEF LessFirst, Without
  <2>4. AllIn(e, m, S) = e
    BY <2>1 DEF AllIn
  <2>5. Goes(e)
    BY <2>1, <2>3, <2>4
  <2> HIDE DEF Goes
  <2>6. e \in A
    BY <2>1, <2>5
  <2> QED BY <2>6 DEF e
<1>2. ASSUME NEW s \in Seq(T), NEW x \in T, Goes(s)
      PROVE  Goes(Append(s, x))
  <2> DEFINE u == Append(s, x)
             o == AllIn(s, m, S)
             d == LessFirst(s, m, R)
             f == FirstIn(s, m, R)
             h == FirstIn(o, 1, R)
             p == LessFirst(o, 1, R)
             reached == m <= Len(s) + 1
  <2>1. /\ AllIn(d, m, S) = p /\ (f # 0 <=> h # 0) /\ o \in Seq(T)
    BY <1>2
  <2>2. AllIn(u, m, S) = IF reached /\ x \in S THEN Append(o, x) ELSE o
    BY AllInGrows
  <2>3. LessFirst(u, m, R) =
          IF f # 0 THEN Append(d, x) ELSE IF reached /\ x \in R THEN s ELSE u
    BY LessFirstGrows
  <2>4. FirstIn(u, m, R) = IF f # 0 THEN f ELSE IF reached /\ x \in R THEN Len(s) + 1 ELSE 0
    BY FirstInGrows
  <2>5. /\ d \in Seq(T) /\ (f # 0 => Len(d) = Len(s) - 1 /\ m <= Len(s)) /\ (f = 0 => d = s)
    BY LessFirstIs
  <2>6. h = 0 => p = o
    <3>1. o \in Seq(T) /\ 1 \in Nat \ {0}
      BY <2>1
    <3> HIDE DEF o
    <3> QED BY <3>1, LessFirstIs
  <2>7. /\ LessFirst(Append(o, x), 1, R) =
             IF h # 0 THEN Append(p, x) ELSE IF 1 <= Len(o) + 1 /\ x \in R THEN o ELSE Append(o, x)
        /\ FirstIn(Append(o, x), 1, R) = IF h # 0 THEN h ELSE IF 1 <= Len(o) + 1 /\ x \in R
                                                              THEN Len(o) + 1 ELSE 0
        /\ 1 <= Len(o) + 1 /\ Len(o) + 1 # 0 /\ Len(s) + 1 # 0 /\ Append(o, x) \in Seq(T)
    <3>1. o \in Seq(T) /\ 1 \in Nat \ {0}
      BY <2>1
    <3> HIDE DEF o
    <3>2. Len(o) \in Nat /\ Len(s) \in Nat /\ Append(o, x) \in Seq(T)
      BY <3>1
    <3>3. 1 <= Len(o) + 1 /\ Len(o) + 1 # 0 /\ Len(s) + 1 # 0
      BY <3>2
    <3> QED BY <3>1, <3>2, <3>3, LessFirstGrows, FirstInGrows
  <2>8. AllIn(Append(d, x), m, S) =
          IF m <= Len(d) + 1 /\ x \in S THEN Append(AllIn(d, m, S), x) ELSE AllIn(d, m, S)
    <3>1. d \in Seq(T)
      BY <2>5
    <3> HIDE DEF d
    <3> QED BY <3>1, AllInGrows
  <2>9. f # 0 => reached /\ m <= Len(d) + 1
    <3>1. Len(s) \in Nat
      OBVIOUS
    <3> HIDE DEF d, f
    <3> QED BY <2>5, <3>1
  <2>10. AllIn(u, m, S) \in Seq(T)
    BY <2>1, <2>2, <2>7
  <2> HIDE DEF u, o, d, f, h, p, reached
  <2>11. FirstIn(u, m, R) # 0 <=> FirstIn(AllIn(u, m, S), 1, R) # 0
    <3>1. CASE reached /\ x \in S
      BY <2>1, <2>2, <2>4, <2>7, <3>1
    <3>2. CASE ~(reached /\ x \in S)
      BY <2>1, <2>2, <2>4, <2>7, <3>2 DEF h
    <3> QED BY <3>1, <3>2
  <2>12. AllIn(LessFirst(u, m, R), m, S) = LessFirst(AllIn(u, m, S), 1, R)
    <3>1. CASE f # 0
      <4>1. AllIn(LessFirst(u, m, R), m, S) = IF x \in S THEN Append(p, x) ELSE p
        BY <2>1, <2>3, <2>8, <2>9, <3>1
      <4>2. AllIn(u, m, S) = IF x \in S THEN Append(o, x) ELSE o
        BY <2>2, <2>9, <3>1
      <4> QED BY <2>1, <2>7, <3>1, <4>1, <4>2 DEF p
    <3>2. CASE f = 0 /\ reached /\ x \in R
      <4>1. AllIn(LessFirst(u, m, R), m, S) = o
        BY <2>3, <3>2 DEF o
      <4>2. AllIn(u, m, S) = Append(o, x)
        BY <2>2, <3>2
      <4> QED BY <2>1, <2>7, <3>2, <4>1, <4>2
    <3>3. CASE f = 0 /\ ~(reached /\ x \in R)
      <4>1. LessFirst(u, m, R) = u
        BY <2>3, <3>3
      <4>2. CASE reached /\ x \in S
        <5>1. x \notin R
          BY <3>3, <4>2
        <5> QED BY <2>1, <2>2, <2>7, <3>3, <4>1, <4>2, <5>1
      <4>3. CASE ~(reached /\ x \in S)
        <5>1. LessFirst(o, 1, R) = o
          BY <2>1, <2>6, <3>3 DEF p
        <5> QED BY <2>2, <4>1, <4>3, <5>1
      <4> QED BY <4>2, <4>3
    <3> QED BY <3>1, <3>2, <3>3
  <2> QED BY <2>10, <2>11, <2>12 DEF u
<1>3. ASSUME NEW s \in Seq(T), NEW x \in T, s \in A
      PROVE  Append(s, x) \in A
  <2>1. Append(s, x) \in Seq(T)
    OBVIOUS
  <2>2. Goes(s)
    BY <1>3
  <2> HIDE DEF Goes
  <2> QED BY <1>2, <2>1, <2>2
<1>4. Seq(T) \subseteq A
  <2> HIDE DEF A
  <2> QED BY <1>1, <1>3, SequencesGrow
<1> QED BY <1>4

\* The first in S, replaced by another in S, is the first.
LEMMA FirstReplaced ==
  ASSUME NEW T, NEW s \in Seq(T), NEW m \in Nat \ {0}, NEW S, NEW y \in T, y \in S,
         NEW n, n = FirstIn(s, m, S), n # 0, NEW u, u = [s EXCEPT ![n] = y]
  PROVE  FirstIn(u, m, S) = n /\ u[n] = y /\ n \in 1..Len(s) /\ u \in Seq(T)
<1>1. n \in 1..Len(s) /\ n \in PlacesIn(s, m, S) /\ n \in m..Len(s)
  BY FirstInIs DEF PlacesIn
<1>2. u \in Seq(T) /\ Len(u) = Len(s) /\ \A j \in 1..Len(s) : u[j] = IF j = n THEN y ELSE s[j]
  BY <1>1, ExceptSeq
<1>3. \A j \in m..Len(s) : j \in 1..Len(s)
  OBVIOUS
<1>4. \A j \in m..Len(s) : u[j] \in S <=> s[j] \in S
  <2>1. s[n] \in S
    BY <1>1 DEF PlacesIn
  <2> QED BY <1>2, <1>3, <2>1
<1>5. PlacesIn(u, m, S) = PlacesIn(s, m, S)
  BY <1>2, <1>4 DEF PlacesIn
<1> QED BY <1>1, <1>2, <1>5 DEF FirstIn

=============================================================================

-------------------------- MODULE SecondFactors_proofs --------------------------
(***************************************************************************)
(* Theorems about SecondFactors for every value of its constants: its       *)
(* types, that what was told outside is saved, that no code is shown twice  *)
(* and that a site accepts every sign-in with what it registered.           *)
(***************************************************************************)
EXTENDS SecondFactors, LineText_proofs

(***************************************************************************)
(* The URI of an entry.                                                    *)
(***************************************************************************)
\* Line n is the first with a URI, or there is none and n is 0.
FirstUri(t, n) ==
  IF n = 0 THEN \A j \in 1..Len(t) : t[j].body.key # UriKey
  ELSE /\ n \in 1..Len(t) /\ t[n].body.key = UriKey
       /\ \A j \in 1..Len(t) : j < n => t[j].body.key # UriKey

LEMMA UriFirst ==
  ASSUME NEW B, NEW t \in Seq(LinesOf(B))
  PROVE  \A n : FirstUri(t, n) <=> n = UriAt(t)
<1> DEFINE I == {i \in 1..Len(t) : t[i].body.key = UriKey}
           m == UriAt(t)
<1>1. m = IF I # {} THEN Min(I) ELSE 0
  BY DEF UriAt, SelectInSeq
<1>2. Len(t) \in Nat /\ I \in SUBSET Nat
  OBVIOUS
<1>3. I # {} => m \in I /\ \A j \in I : m <= j
  <2> HIDE DEF I
  <2> QED BY <1>1, <1>2, NumbersHaveLeast DEF Min
<1> HIDE DEF m
<1>4. FirstUri(t, m)
  <2>1. CASE I = {}
    BY <1>1, <2>1 DEF FirstUri
  <2>2. CASE I # {}
    <3>1. m \in 1..Len(t) /\ t[m].body.key = UriKey /\ m # 0
      BY <1>2, <1>3, <2>2
    <3>2. ASSUME NEW j \in 1..Len(t), j < m
          PROVE  t[j].body.key # UriKey
      BY <1>2, <1>3, <2>2, <3>1, <3>2
    <3> QED BY <3>1, <3>2 DEF FirstUri
  <2> QED BY <2>1, <2>2
<1>5. ASSUME NEW n, FirstUri(t, n)
      PROVE  n = m
  <2> HIDE DEF I
  <2>1. CASE n = 0
    BY <1>4, <1>5, <2>1 DEF FirstUri
  <2>2. CASE n # 0 /\ m # 0
    <3>1. n \in 1..Len(t) /\ m \in 1..Len(t) /\ ~(n < m) /\ ~(m < n)
      BY <1>4, <1>5, <2>2 DEF FirstUri
    <3> QED BY <1>2, <3>1
  <2>3. CASE n # 0 /\ m = 0
    BY <1>4, <1>5, <2>3 DEF FirstUri
  <2> QED BY <2>1, <2>2, <2>3
<1> QED BY <1>4, <1>5 DEF m

(***************************************************************************)
(* The passkeys of an entry.                                               *)
(***************************************************************************)
HeldIn(t) == {t[i].body.value : i \in PasskeysAt(t)}

\* No credential id stands twice.
Unique(t) ==
  \A i, j \in PasskeysAt(t) : Credential[t[i].body.value] = Credential[t[j].body.value] => i = j

LEMMA PasskeysRead ==
  ASSUME NEW B, NEW t \in Seq(LinesOf(B)), NEW u, u = EntryPasskeys(t)
  PROVE  /\ Range(u) = HeldIn(t)
         /\ Unique(t) => \A i, j \in DOMAIN u : Credential[u[i]] = Credential[u[j]] => i = j
<1> DEFINE held == Picked(t, PasskeysAt(t))
<1>1. u = [i \in DOMAIN held |-> held[i].body.value]
  BY DEF EntryPasskeys
<1>2. PICK f : Places(held, t, PasskeysAt(t), Len(t), f)
  BY PickedPlaces
<1>3. held \in Seq(LinesOf(B))
  BY PickedYields
<1>4. ASSUME NEW i \in PasskeysAt(t)
      PROVE  \E k \in DOMAIN held : held[k] = t[i]
  <2>1. i \in 1..Len(t)
    BY DEF PasskeysAt
  <2> QED BY <2>1, PickedKeeps DEF ToSet
<1> HIDE DEF held
<1>5. DOMAIN held = 1..Len(held) /\ Len(held) \in Nat /\ DOMAIN u = 1..Len(held)
  BY <1>1, <1>3
<1>6. \A k \in 1..Len(held) : f[k] \in PasskeysAt(t) /\ u[k] = t[f[k]].body.value
  BY <1>1, <1>2, <1>5 DEF Places
<1>7. Range(u) = HeldIn(t)
  <2>1. ASSUME NEW x \in HeldIn(t)
        PROVE  x \in Range(u)
    BY <1>1, <1>4, <1>5 DEF HeldIn, Range
  <2>2. ASSUME NEW x \in Range(u)
        PROVE  x \in HeldIn(t)
    BY <1>5, <1>6 DEF HeldIn, Range
  <2> QED BY <2>1, <2>2
<1>8. ASSUME Unique(t), NEW i \in DOMAIN u, NEW j \in DOMAIN u, Credential[u[i]] = Credential[u[j]]
      PROVE  i = j
  <2>1. f[i] = f[j]
    BY <1>5, <1>6, <1>8 DEF Unique
  <2>2. ~(i < j) /\ ~(j < i)
    <3>1. f[i] \in Nat
      BY <1>2, <1>5 DEF Places
    <3> QED BY <1>2, <1>5, <2>1, <3>1 DEF Places
  <2> QED BY <1>5, <2>2
<1> QED BY <1>7, <1>8

LEMMA StoredAreHeld ==
  ASSUME NEW B, NEW t \in Seq(LinesOf(B))
  PROVE  StoredPasskeys(t) = {FromValue(v)[2] : v \in HeldIn(t)}
<1>1. Range(EntryPasskeys(t)) = HeldIn(t)
  BY PasskeysRead
<1> QED BY <1>1 DEF StoredPasskeys

\* A text of which lines are rewritten that are no passkeys, and stay none.
LEMMA RewritingKeepsPasskeys ==
  ASSUME NEW B, NEW t \in Seq(LinesOf(B)), NEW u \in Seq(LinesOf(B)), NEW n \in 1..Len(t),
         Replaced(t, u, n), n \notin PasskeysAt(t), n \notin PasskeysAt(u)
  PROVE  HeldIn(u) = HeldIn(t) /\ (Unique(t) => Unique(u))
<1>1. Len(u) = Len(t) /\ \A j \in 1..Len(t) : j # n => u[j] = t[j]
  BY DEF Replaced
<1>2. \A j \in 2..Len(t) : j \in 1..Len(t)
  OBVIOUS
<1>3. PasskeysAt(u) = PasskeysAt(t) /\ \A i \in PasskeysAt(t) : u[i] = t[i]
  BY <1>1, <1>2 DEF PasskeysAt
<1> QED BY <1>3 DEF HeldIn, Unique

\* A passkey line is appended.
LEMMA AppendingAddsPasskey ==
  ASSUME NEW B, NEW t \in Seq(LinesOf(B)), NEW u \in Seq(LinesOf(B)), t # <<>>, Extended(t, u),
         NEW v \in DOMAIN Credential, u[Len(u)].body = FieldLine(PasskeyKey, v)
  PROVE  /\ HeldIn(u) = HeldIn(t) \cup {v}
         /\ Unique(t) /\ (\A w \in HeldIn(t) : Credential[w] # Credential[v]) => Unique(u)
<1> DEFINE n == Len(t) + 1
<1>1. /\ n \in 2..Len(u) /\ Len(u) = n /\ Len(t) \in Nat
      /\ \A i \in 2..Len(u) : i = n \/ i \in 2..Len(t)
      /\ \A i \in 2..Len(t) : i \in 2..Len(u) /\ i # n /\ i \in 1..Len(t)
  BY DEF Extended
<1>2. \A i \in 2..Len(t) : u[i].body = t[i].body
  BY <1>1 DEF Extended
<1>3. u[n].body.key = PasskeyKey /\ u[n].body.value = v
  BY <1>1 DEF FieldLine
<1> HIDE DEF n
<1>4. \A i \in 2..Len(t) : IsPasskey(u[i]) <=> IsPasskey(t[i])
  BY <1>2 DEF IsPasskey
<1>5. PasskeysAt(u) = PasskeysAt(t) \cup {n} /\ n \notin PasskeysAt(t)
  BY <1>1, <1>3, <1>4 DEF PasskeysAt, IsPasskey
<1>6. \A i \in PasskeysAt(t) : u[i].body = t[i].body
  BY <1>2 DEF PasskeysAt
<1>7. HeldIn(u) = HeldIn(t) \cup {v}
  <2>1. ASSUME NEW x \in HeldIn(u)
        PROVE  x \in HeldIn(t) \cup {v}
    BY <1>3, <1>5, <1>6 DEF HeldIn
  <2>2. ASSUME NEW x \in HeldIn(t) \cup {v}
        PROVE  x \in HeldIn(u)
    BY <1>3, <1>5, <1>6 DEF HeldIn
  <2> QED BY <2>1, <2>2
<1>8. ASSUME Unique(t), \A w \in HeldIn(t) : Credential[w] # Credential[v]
      PROVE  Unique(u)
  <2>1. \A i \in PasskeysAt(t) : Credential[u[i].body.value] # Credential[u[n].body.value]
    BY <1>3, <1>6, <1>8 DEF HeldIn
  <2> QED BY <1>5, <1>6, <1>8, <2>1 DEF Unique
<1> QED BY <1>7, <1>8

\* A passkey line is removed.
LEMMA RemovingDropsPasskey ==
  ASSUME NEW B, NEW t \in Seq(LinesOf(B)), NEW n \in PasskeysAt(t), NEW u, u = RemoveAt(t, n)
  PROVE  /\ HeldIn(u) \subseteq HeldIn(t) /\ HeldIn(t) \subseteq HeldIn(u) \cup {t[n].body.value}
         /\ Unique(t) => Unique(u)
<1> DEFINE From(i) == IF i < n THEN i ELSE i + 1
<1>1. n \in 2..Len(t) /\ n \in 1..Len(t) /\ Len(t) \in Nat
  BY DEF PasskeysAt
<1>2. /\ u \in Seq(LinesOf(B)) /\ Len(u) = Len(t) - 1
      /\ \A i \in 1..(Len(t) - 1) : u[i] = IF i < n THEN t[i] ELSE t[i + 1]
  BY <1>1, ElementRemoved
<1>3. \A i \in 2..Len(u) : From(i) \in 2..Len(t) /\ u[i] = t[From(i)]
  BY <1>1, <1>2
<1>4. ASSUME NEW i \in 2..Len(t), i # n
      PROVE  \E j \in 2..Len(u) : From(j) = i
  <2>1. CASE i < n
    BY <1>1, <1>2, <2>1
  <2>2. CASE ~(i < n)
    <3>1. i - 1 \in 2..Len(u) /\ From(i - 1) = i
      BY <1>1, <1>2, <1>4, <2>2
    <3> QED BY <3>1
  <2> QED BY <2>1, <2>2
<1>5. \A i, j \in 2..Len(u) : From(i) = From(j) => i = j
  BY <1>1, <1>2
<1> HIDE DEF From
<1>6. \A i \in PasskeysAt(u) : From(i) \in PasskeysAt(t) /\ u[i] = t[From(i)] /\ i \in 2..Len(u)
  BY <1>3 DEF PasskeysAt
<1>7. \A i \in PasskeysAt(t) : i # n => \E j \in PasskeysAt(u) : From(j) = i
  BY <1>3, <1>4 DEF PasskeysAt
<1>8. HeldIn(u) \subseteq HeldIn(t)
  BY <1>6 DEF HeldIn
<1>9. HeldIn(t) \subseteq HeldIn(u) \cup {t[n].body.value}
  BY <1>6, <1>7 DEF HeldIn
<1>10. Unique(t) => Unique(u)
  BY <1>5, <1>6 DEF Unique
<1> QED BY <1>8, <1>9, <1>10

-----------------------------------------------------------------------------
\* u has the URI of t, and no more than t on line 1.
SameUri(t, u) ==
  /\ (UriAt(u) = 0) = (UriAt(t) = 0)
  /\ UriAt(u) # 1
  /\ UriAt(t) # 0 => Otpauth(u) = Otpauth(t)

LEMMA RewritingKeepsUri ==
  ASSUME NEW B, NEW t \in Seq(LinesOf(B)), NEW u \in Seq(LinesOf(B)), NEW n \in 1..Len(t),
         Replaced(t, u, n), t[n].body.key # UriKey, u[n].body.key # UriKey, UriAt(t) # 1
  PROVE  SameUri(t, u)
<1> DEFINE m == UriAt(t)
<1>1. FirstUri(t, m)
  BY UriFirst
<1>2. Len(u) = Len(t) /\ \A j \in 1..Len(t) : j # n => u[j] = t[j]
  BY DEF Replaced
<1> HIDE DEF m
<1>3. m # 0 => m # n /\ m \in 1..Len(t)
  BY <1>1 DEF FirstUri
<1>4. FirstUri(u, m)
  BY <1>1, <1>2, <1>3 DEF FirstUri
<1>5. UriAt(u) = m
  BY <1>4, UriFirst
<1>6. m # 0 => u[m] = t[m]
  BY <1>2, <1>3
<1> QED BY <1>5, <1>6 DEF SameUri, Otpauth, m

LEMMA AppendingKeepsUri ==
  ASSUME NEW B, NEW t \in Seq(LinesOf(B)), NEW u \in Seq(LinesOf(B)), Extended(t, u),
         u[Len(u)].body.key # UriKey, UriAt(t) # 1
  PROVE  SameUri(t, u)
<1> DEFINE m == UriAt(t)
<1>1. FirstUri(t, m)
  BY UriFirst
<1>2. /\ Len(u) = Len(t) + 1 /\ \A j \in 1..Len(t) : u[j].body = t[j].body
      /\ Len(t) \in Nat
      /\ \A j \in 1..Len(u) : j = Len(u) \/ j \in 1..Len(t)
      /\ \A j \in 1..Len(t) : j \in 1..Len(u) /\ j < Len(u)
  BY DEF Extended
<1> HIDE DEF m
<1>3. FirstUri(u, m)
  <2>1. CASE m = 0
    BY <1>1, <1>2, <2>1 DEF FirstUri
  <2>2. CASE m # 0
    <3>1. m \in 1..Len(t) /\ u[m].body.key = UriKey /\ m \in 1..Len(u) /\ m < Len(u)
      BY <1>1, <1>2, <2>2 DEF FirstUri
    <3>2. ASSUME NEW j \in 1..Len(u), j < m
          PROVE  u[j].body.key # UriKey
      <4>1. j \in 1..Len(t)
        BY <1>2, <3>1, <3>2
      <4> QED BY <1>1, <1>2, <2>2, <3>2, <4>1 DEF FirstUri
    <3> QED BY <2>2, <3>1, <3>2 DEF FirstUri
  <2> QED BY <2>1, <2>2
<1>4. UriAt(u) = m
  BY <1>3, UriFirst
<1>5. m # 0 => u[m].body = t[m].body
  BY <1>1, <1>2 DEF FirstUri
<1> QED BY <1>4, <1>5 DEF SameUri, Otpauth, m

LEMMA RemovingKeepsUri ==
  ASSUME NEW B, NEW t \in Seq(LinesOf(B)), NEW n \in 2..Len(t), t[n].body.key # UriKey,
         NEW u, u = RemoveAt(t, n), UriAt(t) # 1
  PROVE  SameUri(t, u)
<1> DEFINE m == UriAt(t)
           k == IF m < n THEN m ELSE m - 1
<1>1. FirstUri(t, m)
  BY UriFirst
<1>2. n \in 1..Len(t) /\ Len(t) \in Nat /\ n \in Nat /\ 2 <= n
  OBVIOUS
<1>3. /\ u \in Seq(LinesOf(B)) /\ Len(u) = Len(t) - 1
      /\ \A i \in 1..(Len(t) - 1) : u[i] = IF i < n THEN t[i] ELSE t[i + 1]
  BY <1>2, ElementRemoved
<1>4. m = 0 \/ (m \in 2..Len(t) /\ m # n)
  BY <1>1, <1>2 DEF FirstUri
<1>5. /\ (k = 0) = (m = 0) /\ k # 1
      /\ m # 0 => k \in 1..Len(u) /\ u[k] = t[m]
  <2>1. CASE m = 0
    BY <1>2, <2>1
  <2>2. CASE m # 0 /\ m < n
    <3>1. k = m /\ m \in 1..(Len(t) - 1) /\ m \in 2..Len(t)
      BY <1>2, <1>4, <2>2
    <3> QED BY <1>3, <2>2, <3>1
  <2>3. CASE m # 0 /\ ~(m < n)
    <3>1. /\ k = m - 1 /\ m \in Nat /\ n < m
          /\ k \in 1..(Len(t) - 1) /\ ~(k < n) /\ k + 1 = m /\ k # 1 /\ k # 0
      BY <1>2, <1>4, <2>3
    <3> HIDE DEF k, m
    <3>2. u[k] = t[k + 1]
      BY <1>3, <3>1
    <3> QED BY <1>3, <2>3, <3>1, <3>2
  <2> QED BY <2>1, <2>2, <2>3
<1>6. ASSUME NEW j \in 1..Len(u), m # 0 => j < k
      PROVE  u[j].body.key # UriKey
  <2>1. \E i \in 1..Len(t) : u[j] = t[i] /\ (m # 0 => i < m)
    <3>1. CASE j < n
      <4>1. j \in 1..Len(t) /\ j \in 1..(Len(t) - 1)
        BY <1>2, <1>3
      <4>2. u[j] = t[j]
        BY <1>3, <3>1, <4>1
      <4>3. m # 0 => j < m
        BY <1>4, <1>6, <4>1
      <4> QED BY <4>1, <4>2, <4>3
    <3>2. CASE ~(j < n)
      <4>1. j + 1 \in 1..Len(t) /\ j \in 1..(Len(t) - 1)
        BY <1>2, <1>3
      <4>2. u[j] = t[j + 1]
        BY <1>3, <3>2, <4>1
      <4>3. m # 0 => j + 1 < m
        BY <1>2, <1>4, <1>6, <3>2, <4>1
      <4> QED BY <4>1, <4>2, <4>3
    <3> QED BY <3>1, <3>2
  <2> HIDE DEF m, k
  <2> QED BY <1>1, <2>1 DEF FirstUri
<1> HIDE DEF m, k
<1>7. m # 0 => u[k].body.key = UriKey
  BY <1>1, <1>5 DEF FirstUri
<1>8. FirstUri(u, k)
  BY <1>5, <1>6, <1>7 DEF FirstUri
<1>9. UriAt(u) = k
  BY <1>3, <1>8, UriFirst
<1> QED BY <1>5, <1>9 DEF SameUri, Otpauth, m

-----------------------------------------------------------------------------
(***************************************************************************)
(* What the app's edits make of an entry.                                  *)
(***************************************************************************)
GoodUri(t) ==
  UriAt(t) # 0 => Otpauth(t) = <<"otp", Otpauth(t)[2]>> /\ OneCounter(Otpauth(t)[2])

Entry(t) == /\ \E B : TextOf(t, B)
            /\ UriAt(t) # 1 /\ GoodUri(t) /\ Unique(t)

LEMMA SameUriIsGood ==
  ASSUME NEW t, NEW u, SameUri(t, u), GoodUri(t)
  PROVE  GoodUri(u)
BY DEF SameUri, GoodUri

\* The text t may be replaced by u as far as its lines and its URI go.
Follows(t, u) == (\E B : TextOf(u, B)) /\ SameUri(t, u)

LEMMA FollowsIsEntry ==
  ASSUME NEW t, NEW u, Entry(t), Follows(t, u), Unique(u)
  PROVE  Entry(u)
BY SameUriIsGood DEF Entry, Follows, SameUri

LEMMA FirstLineIsNoUri ==
  ASSUME NEW B, NEW t \in Seq(LinesOf(B)), t # <<>>, UriAt(t) # 1
  PROVE  1 \in 1..Len(t) /\ t[1].body.key # UriKey
<1>1. 1 \in 1..Len(t) /\ \A j \in 1..Len(t) : ~(j < 1)
  OBVIOUS
<1>2. ~FirstUri(t, 1)
  BY UriFirst
<1> QED BY <1>1, <1>2 DEF FirstUri

LEMMA ShortTexts ==
  ASSUME NEW B, NEW t \in Seq(LinesOf(B)), Len(t) <= 1, \A i \in 1..Len(t) : t[i].body.key # UriKey
  PROVE  UriAt(t) = 0 /\ PasskeysAt(t) = {} /\ HeldIn(t) = {} /\ Unique(t) /\ GoodUri(t)
<1>1. FirstUri(t, 0)
  BY DEF FirstUri
<1>2. UriAt(t) = 0
  BY <1>1, UriFirst
<1>3. PasskeysAt(t) = {}
  BY DEF PasskeysAt
<1> QED BY <1>2, <1>3 DEF HeldIn, Unique, GoodUri

\* set_password.
LEMMA PasswordChanged ==
  ASSUME NEW t, Entry(t), NEW u, u = SetPassword(t, ChosenPassword)
  PROVE  Follows(t, u) /\ HeldIn(u) = HeldIn(t) /\ Unique(u)
<1>1. PICK B0 : TextOf(t, B0)
  BY DEF Entry
<1> DEFINE B == B0 \cup {ChosenPassword}
<1>2. t \in Seq(LinesOf(B)) /\ Lines(t)
  BY <1>1, TextsGrow DEF TextOf
<1>3. ChosenPassword \in B /\ ChosenPassword.key # UriKey /\ ChosenPassword # Blank
  BY DEF ChosenPassword, Plain, UriKey, Blank
<1> HIDE DEF B
<1>4. /\ TextOf(u, B) /\ u \in Seq(LinesOf(B))
      /\ t # <<>> => (Replaced(t, u, 1) \/ (Len(t) = 1 /\ u = <<>>))
  BY <1>2, <1>3, PasswordSet DEF TextOf
<1>5. u # <<>> /\ u[1].body = ChosenPassword /\ (t = <<>> => Len(u) = 1)
  <2>1. CASE t = <<>> \/ t[1].end = "none"
    <3>1. u = <<Line(ChosenPassword, "none")>>
      BY <1>3, <2>1 DEF SetPassword
    <3>2. Line(ChosenPassword, "none").body = ChosenPassword
      BY DEF Line
    <3> DEFINE l == Line(ChosenPassword, "none")
    <3> HIDE DEF l
    <3>3. u = <<l>> /\ l.body = ChosenPassword
      BY <3>1, <3>2 DEF l
    <3> QED BY <3>3
  <2>2. CASE t # <<>> /\ t[1].end # "none"
    <3> DEFINE l == Line(ChosenPassword, "lf")
    <3>1. u = [t EXCEPT ![1] = l] /\ l.body = ChosenPassword
      BY <2>2 DEF SetPassword, Line
    <3> HIDE DEF l
    <3>2. 1 \in DOMAIN t
      BY <1>2, <2>2
    <3>3. u[1] = l /\ DOMAIN u = DOMAIN t
      BY <3>1, <3>2
    <3> QED BY <2>2, <3>1, <3>2, <3>3
  <2> QED BY <2>1, <2>2
<1>6. CASE t = <<>>
  <2>1. UriAt(t) = 0 /\ HeldIn(t) = {}
    <3>1. Len(t) <= 1 /\ \A i \in 1..Len(t) : t[i].body.key # UriKey
      BY <1>6
    <3> QED BY <1>2, <3>1, ShortTexts
  <2>2. Len(u) <= 1 /\ \A i \in 1..Len(u) : u[i].body.key # UriKey
    <3>1. Len(u) = 1 /\ u[1].body.key # UriKey /\ \A i \in 1..1 : i = 1
      BY <1>3, <1>5, <1>6
    <3> QED BY <3>1
  <2>3. UriAt(u) = 0 /\ HeldIn(u) = {} /\ Unique(u)
    BY <1>4, <2>2, ShortTexts
  <2> QED BY <1>4, <2>1, <2>3 DEF Follows, SameUri
<1>7. CASE t # <<>>
  <2>1. Replaced(t, u, 1)
    BY <1>4, <1>5, <1>7
  <2>2. 1 \in 1..Len(t) /\ t[1].body.key # UriKey /\ UriAt(t) # 1
    BY <1>2, <1>7, FirstLineIsNoUri DEF Entry
  <2>3. SameUri(t, u)
    BY <1>2, <1>3, <1>4, <1>5, <2>1, <2>2, RewritingKeepsUri
  <2>4. 1 \notin PasskeysAt(t) /\ 1 \notin PasskeysAt(u)
    BY DEF PasskeysAt
  <2>5. HeldIn(u) = HeldIn(t) /\ (Unique(t) => Unique(u))
    BY <1>2, <1>4, <2>1, <2>2, <2>4, RewritingKeepsPasskeys
  <2> QED BY <1>4, <2>3, <2>5 DEF Follows, Entry
<1> QED BY <1>6, <1>7

\* entry_add_passkey.
LEMMA PasskeyMade ==
  ASSUME NEW t, Entry(t), NEW v \in DOMAIN Credential, NEW u, u = EntryAddPasskey(t, v)
  PROVE  /\ Follows(t, u) /\ HeldIn(u) = HeldIn(t) \cup {v}
         /\ (\A w \in HeldIn(t) : Credential[w] # Credential[v]) => Unique(u)
<1>1. PICK B0 : TextOf(t, B0)
  BY DEF Entry
<1> DEFINE line == FieldLine(PasskeyKey, v)
           B == B0 \cup {Blank, line}
           first == <<Line(Blank, "lf")>>
           base == IF t = <<>> THEN first ELSE t
<1>2. t \in Seq(LinesOf(B)) /\ Lines(t)
  BY <1>1, TextsGrow DEF TextOf
<1>3. line \in B /\ Blank \in B /\ line.key = PasskeyKey /\ Blank.key = "" /\ UriKey # PasskeyKey
  BY DEF FieldLine, Blank, UriKey, PasskeyKey
<1>4. u = WithLine(base, line)
  BY DEF EntryAddPasskey, AppendField
<1> HIDE DEF B
<1>5. /\ first \in Seq(LinesOf(B)) /\ Lines(first) /\ first # <<>>
      /\ UriAt(first) = 0 /\ HeldIn(first) = {} /\ Unique(first)
  <2> DEFINE l == Line(Blank, "lf")
  <2>1. l \in LinesOf(B) /\ l.end # "none" /\ l.body.key # UriKey
    BY <1>3, NewLine DEF Ends, UriKey
  <2> HIDE DEF l
  <2>2. <<l>> \in Seq(LinesOf(B)) /\ Lines(<<l>>)
    BY <2>1 DEF Lines
  <2>3. Len(<<l>>) <= 1 /\ \A i \in 1..Len(<<l>>) : <<l>>[i].body.key # UriKey
    BY <2>1
  <2>4. UriAt(<<l>>) = 0 /\ HeldIn(<<l>>) = {} /\ Unique(<<l>>)
    BY <2>2, <2>3, ShortTexts
  <2> QED BY <2>2, <2>4 DEF l
<1>6. t = <<>> => UriAt(t) = 0 /\ HeldIn(t) = {}
  <2>1. t = <<>> => Len(t) <= 1 /\ \A i \in 1..Len(t) : t[i].body.key # UriKey
    OBVIOUS
  <2> QED BY <1>2, <2>1, ShortTexts
<1> HIDE DEF first
<1>7. /\ base \in Seq(LinesOf(B)) /\ Lines(base) /\ base # <<>>
      /\ SameUri(t, base) /\ UriAt(base) # 1 /\ HeldIn(base) = HeldIn(t) /\ Unique(base)
  BY <1>2, <1>5, <1>6 DEF SameUri, Entry
<1> HIDE DEF base, line
<1>8. /\ TextOf(u, B) /\ u \in Seq(LinesOf(B)) /\ Len(u) = Len(base) + 1
      /\ Extended(base, u) /\ u[Len(u)].body = line
  <2>1. /\ TextOf(u, B) /\ Len(u) = Len(base) + 1
        /\ \A i \in 1..Len(base) : u[i].body = base[i].body
        /\ u[Len(base) + 1].body = line
    <3>1. \A w : w = WithLine(base, line) =>
            /\ TextOf(w, B) /\ Len(w) = Len(base) + 1
            /\ \A i \in 1..Len(base) : w[i].body = base[i].body
            /\ w[Len(base) + 1].body = line
      <4>1. base \in Seq(LinesOf(B)) /\ Lines(base) /\ line \in B
        BY <1>3, <1>7
      <4> QED BY <4>1, LineAdded
    <3> QED BY <1>4, <3>1
  <2> QED BY <2>1 DEF TextOf, Extended
<1>9. SameUri(base, u)
  BY <1>3, <1>7, <1>8, AppendingKeepsUri
<1>10. /\ HeldIn(u) = HeldIn(base) \cup {v}
       /\ Unique(base) /\ (\A w \in HeldIn(base) : Credential[w] # Credential[v]) => Unique(u)
  BY <1>7, <1>8, AppendingAddsPasskey DEF line
<1>11. SameUri(t, u)
  BY <1>7, <1>9 DEF SameUri
<1> QED BY <1>7, <1>8, <1>10, <1>11 DEF Follows

\* entry_remove_passkey: the line the search finds, or nothing.
CredentialAt(t, id) == FieldAt(t, PasskeyKey, {v \in DOMAIN Credential : Credential[v] = id})

LEMMA PasskeyFound ==
  ASSUME NEW B, NEW t \in Seq(LinesOf(B)), NEW id,
         NEW n, n = CredentialAt(t, id), n # 0
  PROVE  n \in PasskeysAt(t) /\ Credential[t[n].body.value] = id
<1> DEFINE values == {v \in DOMAIN Credential : Credential[v] = id}
           I == {i \in 2..Len(t) : /\ IsField(t[i]) /\ t[i].body.key = PasskeyKey
                                   /\ t[i].body.value \in values}
<1>1. n = IF I # {} THEN Min(I) ELSE 0
  BY DEF CredentialAt, FieldAt, SelectInSubSeq
<1>2. I \in SUBSET Nat
  OBVIOUS
<1>3. n \in I
  <2> HIDE DEF I
  <2> QED BY <1>1, <1>2, NumbersHaveLeast DEF Min
<1> QED BY <1>3 DEF PasskeysAt, IsPasskey

LEMMA PasskeyDeleted ==
  ASSUME NEW t, Entry(t), NEW id, NEW u, u = EntryRemovePasskey(t, id)
  PROVE  /\ Follows(t, u) /\ Unique(u) /\ HeldIn(u) \subseteq HeldIn(t)
         /\ \A v \in HeldIn(t) : Credential[v] # id => v \in HeldIn(u)
<1>1. PICK B : TextOf(t, B)
  BY DEF Entry
<1> DEFINE n == CredentialAt(t, id)
<1>2. u = Without(t, n) /\ TextOf(u, B)
  BY <1>1, PasskeyRemoved DEF EntryRemovePasskey, RemoveFieldWhere, CredentialAt, TextOf
<1>3. n # 0 => n \in PasskeysAt(t) /\ Credential[t[n].body.value] = id
  <2>1. t \in Seq(LinesOf(B))
    BY <1>1 DEF TextOf
  <2>2. n = CredentialAt(t, id)
    OBVIOUS
  <2> HIDE DEF n
  <2> SUFFICES ASSUME n # 0
               PROVE  n \in PasskeysAt(t) /\ Credential[t[n].body.value] = id
    OBVIOUS
  <2> QED BY <2>1, <2>2, PasskeyFound
<1> HIDE DEF n
<1>4. CASE n = 0
  BY <1>2, <1>4 DEF Without, Follows, SameUri, Entry
<1>5. CASE n # 0
  <2>1. u = RemoveAt(t, n) /\ n \in PasskeysAt(t) /\ Credential[t[n].body.value] = id
    BY <1>2, <1>3, <1>5 DEF Without
  <2>2. n \in 2..Len(t) /\ t[n].body.key # UriKey
    BY <2>1 DEF PasskeysAt, IsPasskey, PasskeyKey, UriKey
  <2>3. SameUri(t, u)
    BY <1>1, <2>1, <2>2, RemovingKeepsUri DEF Entry, TextOf
  <2>4. /\ HeldIn(u) \subseteq HeldIn(t) /\ HeldIn(t) \subseteq HeldIn(u) \cup {t[n].body.value}
        /\ Unique(t) => Unique(u)
    BY <1>1, <2>1, RemovingDropsPasskey DEF TextOf
  <2> QED BY <1>2, <2>1, <2>3, <2>4 DEF Follows, Entry
<1> QED BY <1>4, <1>5

-----------------------------------------------------------------------------
(***************************************************************************)
(* The counter of an entry.                                                *)
(***************************************************************************)
\* set_otpauth, where there is a URI.
LEMMA UriReplaced ==
  ASSUME NEW t, Entry(t), UriAt(t) # 0, NEW uri, OneCounter(uri),
         NEW u, u = SetOtpauth(t, <<"otp", uri>>)
  PROVE  Entry(u) /\ UriAt(u) # 0 /\ Otpauth(u) = <<"otp", uri>> /\ HeldIn(u) = HeldIn(t)
<1> DEFINE x == <<"otp", uri>>
           b == FieldLine(UriKey, x)
           m == UriAt(t)
<1>1. PICK B0 : TextOf(t, B0)
  BY DEF Entry
<1> DEFINE B == B0 \cup {b}
<1>2. t \in Seq(LinesOf(B)) /\ Lines(t) /\ b \in B
  BY <1>1, TextsGrow DEF TextOf
<1>3. u = WithBody(t, m, b)
  BY DEF SetOtpauth
<1>4. b.key = UriKey /\ b.value = x /\ UriKey # PasskeyKey
  BY DEF FieldLine, UriKey, PasskeyKey
<1> HIDE DEF B, b, m
<1>5. FirstUri(t, m) /\ m # 0 /\ m # 1
  BY <1>2, UriFirst DEF m, Entry
<1>6. m \in 1..Len(t) /\ t[m].body.key = UriKey
  BY <1>5 DEF FirstUri
<1>7. TextOf(u, B) /\ Replaced(t, u, m) /\ u[m].body = b
  <2> DEFINE l == [t[m] EXCEPT !.body = b]
  <2>1. u = [t EXCEPT ![m] = l]
    BY <1>3 DEF WithBody
  <2>2. t[m] \in LinesOf(B)
    BY <1>2, <1>6
  <2>3. l \in LinesOf(B) /\ l.end = t[m].end /\ l.body = b
    BY <1>2, <2>2, LineIsRecord
  <2> HIDE DEF l
  <2>4. u[m] = l
    BY <1>2, <1>6, <2>1
  <2> QED BY <1>2, <1>6, <2>1, <2>3, <2>4, LineReplaced
<1>8. u \in Seq(LinesOf(B)) /\ Len(u) = Len(t) /\ \A j \in 1..Len(t) : j # m => u[j] = t[j]
  BY <1>7 DEF TextOf, Replaced
<1>9. FirstUri(u, m)
  <2>1. \A j \in 1..Len(t) : j < m => j # m
    BY <1>6
  <2> QED BY <1>4, <1>5, <1>7, <1>8, <2>1 DEF FirstUri
<1>10. UriAt(u) = m
  BY <1>8, <1>9, UriFirst
<1>11. Otpauth(u) = x
  BY <1>4, <1>7, <1>10 DEF Otpauth
<1>12. m \notin PasskeysAt(t) /\ m \notin PasskeysAt(u)
  BY <1>4, <1>6, <1>7 DEF PasskeysAt, IsPasskey
<1>13. HeldIn(u) = HeldIn(t) /\ Unique(u)
  BY <1>2, <1>6, <1>7, <1>8, <1>12, RewritingKeepsPasskeys DEF Entry
<1>14. GoodUri(u)
  BY <1>11 DEF GoodUri
<1> QED BY <1>5, <1>7, <1>10, <1>11, <1>13, <1>14 DEF Entry

\* What HotpFromUri reads, and where the last value of a key stands.
HotpKeys == {"secret", "issuer", "algorithm", "digits", "counter"}

PlaceOf(s, key) ==
  LET I == {i \in 1..Len(s) : Lower(s[i][1]) = key} IN IF I # {} THEN Max(I) ELSE 0

ReadAs(key, value) == CASE key = "secret" -> DecodeBase32(value)
                        [] key = "issuer" -> PercentDecode(value)
                        [] OTHER -> value

IsBad(key, value) == /\ key \in HotpKeys \ {"issuer"}
                     /\ \/ key = "secret" /\ value = BadChars
                        \/ key # "secret" /\ value = Bad

ReadAt(s, key) ==
  IF PlaceOf(s, key) = 0 THEN None
  ELSE Some(ReadAs(Lower(s[PlaceOf(s, key)][1]), s[PlaceOf(s, key)][2]))

LEMMA ParametersRead ==
  ASSUME NEW s
  PROVE  Parameters(s, HotpKeys) =
           IF \E i \in DOMAIN s : IsBad(Lower(s[i][1]), s[i][2]) THEN None
           ELSE Some([k \in HotpKeys |-> ReadAt(s, k)])
BY DEF Parameters, SelectLastInSeq, PlaceOf, ReadAs, IsBad, ReadAt

LEMMA LastPlace ==
  ASSUME NEW T, NEW s \in Seq(T), NEW key
  PROVE  /\ PlaceOf(s, key) = 0 => \A i \in 1..Len(s) : Lower(s[i][1]) # key
         /\ PlaceOf(s, key) # 0 => /\ PlaceOf(s, key) \in 1..Len(s)
                                   /\ Lower(s[PlaceOf(s, key)][1]) = key
<1> DEFINE I == {i \in 1..Len(s) : Lower(s[i][1]) = key}
<1>1. PlaceOf(s, key) = IF I # {} THEN Max(I) ELSE 0
  BY DEF PlaceOf
<1>2. Len(s) \in Nat /\ I \subseteq 0..Len(s) /\ \A i \in I : i # 0
  OBVIOUS
<1>3. I # {} => Max(I) \in I
  <2> HIDE DEF I
  <2> QED BY <1>2, LastOfNumbers
<1> QED BY <1>1, <1>2, <1>3

\* A configuration that is read.
LEMMA HotpRead ==
  ASSUME NEW uri
  PROVE  LET s == uri.params
             c == HotpFromUri(uri)
         IN  /\ c = None \/ c = Some(c[1])
             /\ c # None <=> /\ uri.kind = "hotp"
                             /\ \A i \in DOMAIN s : ~IsBad(Lower(s[i][1]), s[i][2])
                             /\ ReadAt(s, "secret") \notin {None, Some(<<>>)}
                             /\ ReadAt(s, "counter") # None
                             /\ Default(ReadAt(s, "digits"), DefaultDigits) \in 1..MaxUriDigits
             /\ c # None => c[1].moving = ReadAt(s, "counter")[1]
<1> DEFINE s == uri.params
           read == Parameters(s, HotpKeys)
           p == [k \in HotpKeys |-> ReadAt(s, k)]
           bad == \E i \in DOMAIN s : IsBad(Lower(s[i][1]), s[i][2])
<1>1. read = IF bad THEN None ELSE Some(p)
  BY ParametersRead
<1>2. /\ p["secret"] = ReadAt(s, "secret") /\ p["counter"] = ReadAt(s, "counter")
      /\ p["digits"] = ReadAt(s, "digits")
  BY DEF HotpKeys
<1>3. Some(p)[1] = p /\ Some(p) # None
  BY DEF Some, None
<1> HIDE DEF p, bad
<1>4. HotpFromUri(uri) =
        IF uri.kind # "hotp" \/ read = None THEN None
        ELSE IF \/ read[1]["secret"] \in {None, Some(<<>>)}
                \/ read[1]["counter"] = None
                \/ Default(read[1]["digits"], DefaultDigits) \notin 1..MaxUriDigits
             THEN None
             ELSE Some(Config("hotp", read[1]["secret"][1], Default(read[1]["algorithm"], Sha1),
                       Default(read[1]["digits"], DefaultDigits), read[1]["counter"][1],
                       PercentDecode(uri.label), read[1]["issuer"]))
  BY DEF HotpFromUri, HotpKeys
<1> HIDE DEF read
<1>5. \A c : Some(c) # None /\ Some(c)[1] = c
  BY DEF Some, None
<1>6. \A a, b, c, d, e, f, g : Config(a, b, c, d, e, f, g).moving = e
  BY DEF Config
<1>7. CASE bad \/ uri.kind # "hotp"
  BY <1>1, <1>4, <1>7 DEF bad
<1>8. CASE ~bad /\ uri.kind = "hotp"
  <2>1. read[1] = p /\ read # None
    BY <1>1, <1>3, <1>8
  <2> QED BY <1>2, <1>4, <1>5, <1>6, <1>8, <2>1 DEF bad
<1> QED BY <1>7, <1>8

\* A sequence of pairs, and one whose value at i is replaced.
PairsIn(s) == {<<p[1], p[2]>> : p \in Range(s)}
PairSet(s, i, n) == [s EXCEPT ![i][2] = n]

LEMMA PairReplaced ==
  ASSUME NEW s, s \in Seq(PairsIn(s)), NEW i \in 1..Len(s), NEW n, NEW u, u = PairSet(s, i, n)
  PROVE  /\ u \in Seq(PairsIn(u)) /\ Len(u) = Len(s)
         /\ \A j \in 1..Len(s) : u[j][1] = s[j][1]
         /\ \A j \in 1..Len(s) : j # i => u[j] = s[j]
         /\ u[i][2] = n
<1>1. Len(s) \in Nat /\ DOMAIN s = 1..Len(s)
  OBVIOUS
<1>2. \A j \in 1..Len(s) : s[j] = <<s[j][1], s[j][2]>>
  BY DEF PairsIn
<1> DEFINE e == [s[i] EXCEPT ![2] = n]
<1>3. e = <<s[i][1], n>>
  BY <1>2
<1>4. u = [s EXCEPT ![i] = e]
  BY DEF PairSet
<1>5. e[1] = s[i][1] /\ e[2] = n /\ e = <<e[1], e[2]>>
  BY <1>3
<1> HIDE DEF e
<1>6. /\ DOMAIN u = 1..Len(s) /\ u[i] = e /\ \A j \in 1..Len(s) : j # i => u[j] = s[j]
      /\ u = [j \in 1..Len(s) |-> u[j]]
  BY <1>1, <1>4
<1>7. \A j \in 1..Len(s) : u[j] \in PairsIn(u)
  <2>1. \A j \in 1..Len(s) : u[j] \in Range(u) /\ u[j] = <<u[j][1], u[j][2]>>
    BY <1>2, <1>5, <1>6 DEF Range
  <2> QED BY <2>1 DEF PairsIn
<1>8. u \in [1..Len(s) -> PairsIn(u)]
  BY <1>6, <1>7
<1>9. u \in Seq(PairsIn(u)) /\ Len(u) = Len(s)
  <2>1. u \in Seq(PairsIn(u))
    <3>1. \A T : [1..Len(s) -> T] \subseteq Seq(T)
      BY <1>1
    <3> QED BY <1>8, <3>1
  <2>2. Len(u) \in Nat /\ 1..Len(u) = 1..Len(s)
    BY <1>6, <2>1
  <2> QED BY <1>1, <2>1, <2>2
<1> QED BY <1>5, <1>6, <1>9

LEMMA CounterRead ==
  ASSUME NEW uri, OneCounter(uri), HotpFromUri(uri) # None, NEW s, s = uri.params
  PROVE  /\ HotpFromUri(uri)[1].moving \in Nat
         /\ \E i \in 1..Len(s) :
              /\ SelectInSeq(s, IsCounter) = i /\ PlaceOf(s, "counter") = i
              /\ Lower(s[i][1]) = "counter"
              /\ \A j \in 1..Len(s) : Lower(s[j][1]) = "counter" => j = i
<1> DEFINE i == PlaceOf(s, "counter")
<1>1. /\ s \in Seq(PairsIn(s)) /\ DOMAIN s = 1..Len(s)
      /\ \A k, l \in DOMAIN s : Lower(s[k][1]) = "counter" /\ Lower(s[l][1]) = "counter" =>
           k = l /\ s[k][2] \in Nat \cup {Bad}
  BY DEF OneCounter, IsCounter, PairsIn
<1>2. /\ ReadAt(s, "counter") # None
      /\ \A k \in DOMAIN s : ~IsBad(Lower(s[k][1]), s[k][2])
      /\ HotpFromUri(uri)[1].moving = ReadAt(s, "counter")[1]
  BY HotpRead
<1>3. i # 0 /\ i \in 1..Len(s) /\ Lower(s[i][1]) = "counter"
  BY <1>1, <1>2, LastPlace DEF ReadAt
<1> HIDE DEF i
<1>4. ReadAt(s, "counter")[1] = s[i][2]
  BY <1>3 DEF ReadAt, ReadAs, Some, i
<1>5. s[i][2] # Bad
  BY <1>1, <1>2, <1>3 DEF IsBad, HotpKeys
<1>6. SelectInSeq(s, IsCounter) = i
  <2> DEFINE I == {k \in 1..Len(s) : IsCounter(s[k])}
  <2>1. I = {i}
    BY <1>1, <1>3 DEF IsCounter
  <2>2. SelectInSeq(s, IsCounter) = IF I # {} THEN Min(I) ELSE 0
    BY DEF SelectInSeq
  <2> HIDE DEF I
  <2>3. I \in SUBSET Nat /\ I # {}
    BY <1>3, <2>1
  <2>4. Min(I) \in I
    BY <2>3, NumbersHaveLeast DEF Min
  <2> QED BY <2>1, <2>2, <2>3, <2>4
<1> QED BY <1>1, <1>2, <1>3, <1>4, <1>5, <1>6 DEF i

\* uri_with_counter: the new counter is what is read next.
LEMMA CounterWritten ==
  ASSUME NEW uri, OneCounter(uri), HotpFromUri(uri) # None, NEW n \in Nat,
         NEW new, new = UriWithCounter(uri, n)
  PROVE  OneCounter(new) /\ HotpFromUri(new) # None /\ HotpFromUri(new)[1].moving = n
<1> DEFINE s == uri.params
           u == new.params
<1>1. PICK i \in 1..Len(s) :
        /\ SelectInSeq(s, IsCounter) = i /\ PlaceOf(s, "counter") = i
        /\ Lower(s[i][1]) = "counter"
        /\ \A j \in 1..Len(s) : Lower(s[j][1]) = "counter" => j = i
  BY CounterRead
<1>2. uri = OtpUri(uri.kind, uri.label, s) /\ s \in Seq(PairsIn(s)) /\ DOMAIN s = 1..Len(s)
  BY DEF OneCounter, PairsIn
<1>3. /\ uri.kind = "hotp"
      /\ \A k \in DOMAIN s : ~IsBad(Lower(s[k][1]), s[k][2])
      /\ ReadAt(s, "secret") \notin {None, Some(<<>>)}
      /\ Default(ReadAt(s, "digits"), DefaultDigits) \in 1..MaxUriDigits
  BY HotpRead
<1> DEFINE w == PairSet(s, i, n)
<1>4. new = OtpUri(uri.kind, uri.label, w)
  <2>1. i # 0
    BY <1>1
  <2>2. new = [uri EXCEPT !.params[i][2] = n]
    BY <1>1, <2>1 DEF UriWithCounter
  <2>3. new = [uri EXCEPT !.params = w]
    BY <2>2 DEF PairSet
  <2> HIDE DEF w, s
  <2> QED BY <1>2, <2>3 DEF OtpUri
<1>5. new = OtpUri(new.kind, new.label, u) /\ u = w /\ new.kind = uri.kind
  BY <1>4 DEF OtpUri
<1> HIDE DEF s, u
<1>6. /\ u \in Seq(PairsIn(u)) /\ Len(u) = Len(s)
      /\ \A j \in 1..Len(s) : u[j][1] = s[j][1]
      /\ \A j \in 1..Len(s) : j # i => u[j] = s[j]
      /\ u[i][2] = n
  <2>1. u = PairSet(s, i, n)
    BY <1>5
  <2>2. s \in Seq(PairsIn(s)) /\ i \in 1..Len(s)
    BY <1>2
  <2> HIDE DEF w
  <2> QED BY <2>1, <2>2, PairReplaced
<1> HIDE DEF w
<1>7. DOMAIN u = 1..Len(s)
  BY <1>6
<1>8. OneCounter(new)
  BY <1>1, <1>5, <1>6, <1>7 DEF OneCounter, IsCounter, PairsIn, u
<1>9. \A key : PlaceOf(u, key) = PlaceOf(s, key)
  BY <1>6 DEF PlaceOf
<1>10. \A key : key # "counter" => ReadAt(u, key) = ReadAt(s, key)
  <2> TAKE key
  <2>1. CASE PlaceOf(s, key) = 0
    BY <1>9, <2>1 DEF ReadAt
  <2>2. CASE PlaceOf(s, key) # 0 /\ key # "counter"
    <3>1. PlaceOf(s, key) \in 1..Len(s) /\ PlaceOf(s, key) # i
      BY <1>1, <1>2, <2>2, LastPlace
    <3> QED BY <1>6, <1>9, <3>1 DEF ReadAt
  <2> QED BY <2>1, <2>2
<1>11. ReadAt(u, "counter") = Some(n)
  BY <1>1, <1>6, <1>9 DEF ReadAt, ReadAs
<1>12. ASSUME NEW k \in DOMAIN u
       PROVE  ~IsBad(Lower(u[k][1]), u[k][2])
  <2>1. CASE k = i
    BY <1>1, <1>6, <2>1 DEF IsBad, Bad
  <2>2. CASE k # i
    BY <1>2, <1>3, <1>6, <1>7, <2>2
  <2> QED BY <2>1, <2>2
<1>13. Some(n) # None /\ Some(n)[1] = n
  BY DEF Some, None
<1>14. HotpFromUri(new) # None
  BY <1>3, <1>5, <1>10, <1>11, <1>12, <1>13, HotpRead DEF u
<1>15. HotpFromUri(new)[1].moving = ReadAt(u, "counter")[1]
  BY <1>14, HotpRead DEF u
<1> QED BY <1>8, <1>11, <1>13, <1>14, <1>15

-----------------------------------------------------------------------------
(***************************************************************************)
(* What a text keeps of what was told.                                     *)
(***************************************************************************)
HasCounter(t) == UriAt(t) # 0 /\ HotpFromUri(Otpauth(t)[2]) # None
Counter(t) == HotpFromUri(Otpauth(t)[2])[1].moving

Keeps(t, fact) ==
  IF fact[1] = "code" THEN HasCounter(t) /\ Counter(t) >= fact[2][2]
  ELSE \E v \in HeldIn(t) : Credential[v] = fact[2]

Fact(f) == \/ f = <<"code", f[2]>> /\ f[2][2] \in Nat
           \/ f = <<"credential", f[2]>>

LEMMA CounterIsNumber ==
  ASSUME NEW t, Entry(t), HasCounter(t)
  PROVE  Counter(t) \in Nat /\ OneCounter(Otpauth(t)[2])
<1>1. OneCounter(Otpauth(t)[2])
  BY DEF Entry, GoodUri, HasCounter
<1>2. HotpFromUri(Otpauth(t)[2])[1].moving \in Nat
  BY <1>1, CounterRead DEF HasCounter
<1> QED BY <1>1, <1>2 DEF Counter

LEMMA KeptAlong ==
  ASSUME NEW t, NEW u, SameUri(t, u), HeldIn(t) \subseteq HeldIn(u), NEW fact, Keeps(t, fact)
  PROVE  Keeps(u, fact)
BY DEF SameUri, Keeps, HasCounter, Counter

\* next_code, and the entry that is to be saved before the code is shown.
LEMMA CodeAsked ==
  ASSUME NEW t, Entry(t), NEW s \in Range(AdvanceEntry(t))
  PROVE  /\ HasCounter(t) /\ Counter(t) \in Nat /\ s.code[2] = Counter(t) + 1
         /\ Entry(s.text) /\ HeldIn(s.text) = HeldIn(t)
         /\ HasCounter(s.text) /\ Counter(s.text) = Counter(t) + 1
<1> DEFINE uri == Otpauth(t)[2]
           config == IF UriAt(t) = 0 THEN None ELSE HotpFromUri(uri)
           step == IF config = None THEN None ELSE NextStep(config[1])
<1>1. PICK i \in DOMAIN step :
        s = [code |-> step[i].code,
             text |-> SetOtpauth(t, <<"otp", UriWithCounter(uri, step[i].counter)>>)]
  BY DEF AdvanceEntry, Range
<1>2. DOMAIN None = {} /\ \A x : DOMAIN Some(x) = {1} /\ Some(x)[1] = x
  BY DEF None, Some
<1>3. step # None /\ config # None /\ config = HotpFromUri(uri) /\ UriAt(t) # 0
  BY <1>2
<1>4. HasCounter(t)
  BY <1>3 DEF HasCounter
<1> DEFINE n == Counter(t) + 1
<1>5. Counter(t) \in Nat /\ OneCounter(uri) /\ n \in Nat
  BY <1>4, CounterIsNumber
<1>6. step = Some([code |-> CodeAtCounter(config[1], n), counter |-> n])
  BY <1>3 DEF NextStep, Counter
<1>7. i = 1 /\ step[1] = [code |-> CodeAtCounter(config[1], n), counter |-> n]
  <2> HIDE DEF step
  <2> QED BY <1>1, <1>2, <1>6
<1>8. step[i].counter = n /\ step[i].code = CodeAtCounter(config[1], n)
  <2> HIDE DEF step, config, n
  <2> QED BY <1>7
<1> HIDE DEF step, config, n, uri
<1>9. CodeAtCounter(config[1], n)[2] = n
  BY DEF CodeAtCounter, HotpCode
<1> DEFINE new == UriWithCounter(uri, n)
<1>10. s.code = CodeAtCounter(config[1], n) /\ s.text = SetOtpauth(t, <<"otp", new>>)
  BY <1>1, <1>8
<1>11. OneCounter(new) /\ HotpFromUri(new) # None /\ HotpFromUri(new)[1].moving = n
  BY <1>3, <1>5, CounterWritten
<1> HIDE DEF new
<1>12. /\ Entry(s.text) /\ UriAt(s.text) # 0 /\ Otpauth(s.text) = <<"otp", new>>
       /\ HeldIn(s.text) = HeldIn(t)
  BY <1>3, <1>10, <1>11, UriReplaced
<1>13. Otpauth(s.text)[2] = new
  BY <1>12
<1> QED BY <1>4, <1>5, <1>9, <1>10, <1>11, <1>12, <1>13 DEF HasCounter, Counter, n

\* A passkey that is read is the one its value says.
LEMMA StoredAreRead ==
  ASSUME NEW t, Entry(t)
  PROVE  /\ HeldIn(t) \subseteq DOMAIN Credential
         /\ \A v \in HeldIn(t) : FromValue(v)[2].id = Credential[v]
         /\ StoredPasskeys(t) = {FromValue(v)[2] : v \in HeldIn(t)}
<1>1. PICK B : TextOf(t, B)
  BY DEF Entry
<1>2. StoredPasskeys(t) = {FromValue(v)[2] : v \in HeldIn(t)}
  BY <1>1, StoredAreHeld DEF TextOf
<1>3. HeldIn(t) \subseteq DOMAIN Credential
  BY DEF HeldIn, PasskeysAt, IsPasskey
<1> QED BY <1>2, <1>3, FactorsAssumption

-----------------------------------------------------------------------------
(***************************************************************************)
(* The ids drawn, and the passkey made with each: what the texts hold and   *)
(* what the sites keep agrees on it.                                       *)
(***************************************************************************)
Drawn(reg) ==
  \A id \in DOMAIN reg : /\ id \in Ids /\ id # BadText /\ reg[id].id = id
                         /\ reg[id].rp \notin {Empty, "elsewhere"}

Widens(reg, r) == /\ DOMAIN reg \subseteq DOMAIN r
                  /\ \A id \in DOMAIN reg : r[id] = reg[id]

TextFits(t, reg) ==
  /\ Entry(t)
  /\ \A v \in HeldIn(t) : Credential[v] \in Ids =>
       Credential[v] \in DOMAIN reg /\ FromValue(v)[2] = reg[Credential[v]]

AccountFits(a, reg) ==
  /\ a.id \in DOMAIN reg
  /\ a.rp = reg[a.id].rp /\ a.handle = reg[a.id].handle
  /\ a.public = CoseKey(PublicOf(reg[a.id].key)) /\ a.eligible = TRUE

\* A text with the history K.
Holds(t, K, reg) == TextFits(t, reg) /\ \A f \in K : Fact(f) /\ Keeps(t, f)

\* What is to be told once the text is committed.
Told(w, t, K, reg) ==
  \/ w = Nobody
  \/ /\ w = <<"code", w[2]>> /\ w[2][2] \in Nat /\ Keeps(t, w)
     /\ \A f \in K : f[1] = "code" => f[2][2] < w[2][2]
  \/ /\ w = <<"credential", w[2], w[3], w[4]>> /\ Keeps(t, <<"credential", w[4].id>>)
     /\ AccountFits(Account(w[2], w[3], w[4]), reg)

LEMMA WidenedFits ==
  ASSUME NEW reg, NEW r, Widens(reg, r)
  PROVE  /\ \A t, K : Holds(t, K, reg) => Holds(t, K, r)
         /\ \A a : AccountFits(a, reg) => AccountFits(a, r)
         /\ \A w, t, K : Told(w, t, K, reg) => Told(w, t, K, r)
<1>1. \A t : TextFits(t, reg) => TextFits(t, r)
  BY DEF TextFits, Widens
<1>2. \A a : AccountFits(a, reg) => AccountFits(a, r)
  BY DEF AccountFits, Widens
<1>3. \A t, K : Holds(t, K, reg) => Holds(t, K, r)
  BY <1>1 DEF Holds
<1>4. \A w, t, K : Told(w, t, K, reg) => Told(w, t, K, r)
  BY <1>2 DEF Told
<1> QED BY <1>2, <1>3, <1>4

\* next_code.
LEMMA CodeBegins ==
  ASSUME NEW t, NEW K, NEW reg, Holds(t, K, reg), NEW s \in Range(AdvanceEntry(t))
  PROVE  Holds(s.text, K, reg) /\ Told(<<"code", s.code>>, s.text, K, reg)
<1> DEFINE u == s.text
           w == <<"code", s.code>>
<1>1. /\ HasCounter(t) /\ Counter(t) \in Nat /\ s.code[2] = Counter(t) + 1
      /\ Entry(u) /\ HeldIn(u) = HeldIn(t)
      /\ HasCounter(u) /\ Counter(u) = Counter(t) + 1
  BY CodeAsked DEF Holds, TextFits
<1>2. w[1] = "code" /\ w[2] = s.code /\ w = <<"code", w[2]>>
  OBVIOUS
<1> HIDE DEF u, w
<1>3. TextFits(u, reg)
  BY <1>1 DEF Holds, TextFits
<1>4. ASSUME NEW f \in K
      PROVE  Fact(f) /\ Keeps(u, f) /\ (f[1] = "code" => f[2][2] < w[2][2])
  <2>1. Fact(f) /\ Keeps(t, f)
    BY DEF Holds
  <2>2. CASE f[1] = "code"
    <3>1. f[2][2] \in Nat /\ Counter(t) >= f[2][2]
      BY <2>1, <2>2 DEF Fact, Keeps
    <3>2. Counter(u) >= f[2][2] /\ f[2][2] < w[2][2]
      BY <1>1, <1>2, <3>1
    <3> QED BY <1>1, <2>1, <2>2, <3>2 DEF Keeps
  <2>3. CASE f[1] # "code"
    BY <1>1, <2>1, <2>3 DEF Keeps
  <2> QED BY <2>2, <2>3
<1>5. Keeps(u, w) /\ w[2][2] \in Nat
  BY <1>1, <1>2 DEF Keeps
<1> QED BY <1>2, <1>3, <1>4, <1>5 DEF Holds, Told, u, w

\* set_password.
LEMMA PasswordBegins ==
  ASSUME NEW t, NEW K, NEW reg, Holds(t, K, reg), NEW u, u = SetPassword(t, ChosenPassword)
  PROVE  Holds(u, K, reg) /\ Told(Nobody, u, K, reg)
<1>1. Entry(t)
  BY DEF Holds, TextFits
<1>2. Follows(t, u) /\ HeldIn(u) = HeldIn(t) /\ Unique(u)
  BY <1>1, PasswordChanged
<1>3. Entry(u) /\ SameUri(t, u)
  BY <1>1, <1>2, FollowsIsEntry DEF Follows
<1>4. TextFits(u, reg)
  BY <1>2, <1>3 DEF Holds, TextFits
<1>5. \A f \in K : Fact(f) /\ Keeps(u, f)
  BY <1>2, <1>3, KeptAlong DEF Holds
<1> QED BY <1>4, <1>5 DEF Holds, Told

\* passkey_delete.
LEMMA DeleteBegins ==
  ASSUME NEW t, NEW K, NEW reg, Holds(t, K, reg), NEW id,
         NEW u, u = EntryRemovePasskey(t, id), NEW L, L = K \ {<<"credential", id>>}
  PROVE  Holds(u, L, reg) /\ Told(Nobody, u, L, reg)
<1>1. Entry(t)
  BY DEF Holds, TextFits
<1>2. /\ Follows(t, u) /\ Unique(u) /\ HeldIn(u) \subseteq HeldIn(t)
      /\ \A v \in HeldIn(t) : Credential[v] # id => v \in HeldIn(u)
  BY <1>1, PasskeyDeleted
<1>3. Entry(u) /\ SameUri(t, u)
  BY <1>1, <1>2, FollowsIsEntry DEF Follows
<1>4. TextFits(u, reg)
  BY <1>2, <1>3 DEF Holds, TextFits
<1>5. ASSUME NEW f \in L
      PROVE  Fact(f) /\ Keeps(u, f)
  <2>1. Fact(f) /\ Keeps(t, f) /\ f # <<"credential", id>>
    BY DEF Holds
  <2>2. CASE f[1] = "code"
    BY <1>3, <2>1, <2>2 DEF Keeps, SameUri, HasCounter, Counter
  <2>3. CASE f[1] # "code"
    <3>1. f[2] # id
      BY <2>1, <2>3 DEF Fact
    <3> QED BY <1>2, <2>1, <2>3, <3>1 DEF Keeps
  <2> QED BY <2>2, <2>3
<1> QED BY <1>4, <1>5 DEF Holds, Told

\* register, and what the site is told.
Registration(made, p) ==
  LET response == RegistrationResponse(made[2])
      a == Account(p.rp, p.handle, response)
  IN  /\ made[2].value = ToValue(p) /\ FromValue(ToValue(p)) = <<"ok", p>>
      /\ p.id # BadText /\ p.rp # Empty /\ response.id = p.id
      /\ a.rp = p.rp /\ a.handle = p.handle /\ a.id = p.id
      /\ a.public = CoseKey(PublicOf(p.key)) /\ a.eligible = TRUE

LEMMA Registered ==
  ASSUME NEW id, NEW rp, NEW handle, NEW verified, NEW key,
         NEW made, made = Register(id, rp, handle, key, verified), made[1] = "ok"
  PROVE  Registration(made, Passkey(id, rp, handle, key))
<1> DEFINE p == Passkey(id, rp, handle, key)
           response == RegistrationResponse(made[2])
           a == Account(rp, handle, response)
           data == AuthenticatorData(rp, verified, << <<id, CoseKey(PublicOf(key))>> >>)
<1>1. /\ FromValue(ToValue(p))[1] = "ok"
      /\ made[2] = [value |-> ToValue(p), id |-> id, data |-> data,
                    attestation |-> AttestationNone(data)]
  BY DEF Register
<1>2. FromValue(ToValue(p)) = FromCxf(ToCxf(p))
  BY DEF FromValue, ToValue
<1>3. /\ p = [id |-> id, rp |-> rp, handle |-> handle, key |-> key]
      /\ ToCxf(p) = [type |-> "passkey", id |-> id, rp |-> rp, handle |-> handle, key |-> key]
  BY DEF ToCxf, Passkey
<1>4. FromCxf(ToCxf(p)) = <<"ok", p>> /\ id # BadText /\ rp # Empty
  <2> DEFINE j == ToCxf(p)
  <2>1. /\ j.type = "passkey" /\ Passkey(j.id, j.rp, j.handle, j.key) = p
        /\ j.id = id /\ j.rp = rp
    BY <1>3 DEF Passkey
  <2> HIDE DEF j
  <2>2. CASE /\ BadText \notin {j.id, j.handle, j.key} /\ Empty \notin {j.id, j.rp, j.handle}
             /\ j.handle # Long /\ j.key \notin {Empty, "not der"}
    BY <2>1, <2>2 DEF FromCxf, j
  <2>3. CASE ~(/\ BadText \notin {j.id, j.handle, j.key} /\ Empty \notin {j.id, j.rp, j.handle}
               /\ j.handle # Long /\ j.key \notin {Empty, "not der"})
    <3>1. FromCxf(j) \in {<<"wrong type">>, <<"bad base64">>, <<"missing">>,
                          <<"user handle too long">>, <<"bad key">>}
      BY <2>1, <2>3 DEF FromCxf
    <3>2. /\ <<"wrong type">>[1] # "ok" /\ <<"bad base64">>[1] # "ok"
          /\ <<"missing">>[1] # "ok" /\ <<"user handle too long">>[1] # "ok"
          /\ <<"bad key">>[1] # "ok"
      OBVIOUS
    <3>3. \A x : x \in {<<"wrong type">>, <<"bad base64">>, <<"missing">>,
                       <<"user handle too long">>, <<"bad key">>} => x[1] # "ok"
      BY <3>2, Zenon
    <3>4. FromCxf(j)[1] # "ok"
      BY <3>1, <3>3
    <3> QED BY <1>1, <1>2, <3>4 DEF j
  <2> QED BY <2>2, <2>3
<1>5. /\ data.attested[1][1] = id /\ data.attested[1][2] = CoseKey(PublicOf(key))
      /\ "BE" \in data.flags
  BY DEF AuthenticatorData, Flags
<1> HIDE DEF data
<1>6. response = [id |-> id, attestation |-> AttestationNone(data)]
  BY <1>1 DEF RegistrationResponse
<1>7. response.attestation.authData = data /\ response.id = id
  BY <1>6 DEF AttestationNone
<1>8. a = [rp |-> rp, handle |-> handle, id |-> data.attested[1][1],
           public |-> data.attested[1][2], eligible |-> "BE" \in data.flags]
  BY <1>7 DEF Account
<1>9. a.rp = rp /\ a.handle = handle /\ a.id = id /\ a.public = CoseKey(PublicOf(key))
  BY <1>5, <1>8
<1>10. a.eligible = TRUE
  <2>1. a.eligible = ("BE" \in data.flags)
    BY <1>8
  <2> QED BY <1>5, <2>1
<1>11. made[2].value = ToValue(p)
  BY <1>1
<1>12. p.id = id /\ p.rp = rp /\ p.handle = handle /\ p.key = key
  BY <1>3
<1> HIDE DEF p
<1> SUFFICES Registration(made, p)
  BY DEF p
<1> QED BY <1>2, <1>4, <1>7, <1>9, <1>10, <1>11, <1>12 DEF Registration

\* passkey_create.
LEMMA PasskeyBegins ==
  ASSUME NEW t, NEW K, NEW reg, Holds(t, K, reg), Drawn(reg),
         NEW request \in Requests,
         NEW id \in Ids, id \notin DOMAIN reg,
         NEW options, options = CreationOptions(request), options[1] = "ok",
         NEW made, made = Register(id, options[2].rp, options[2].handle, PrivateKey(id), request.verified),
         made[1] = "ok",
         NEW u, u = EntryAddPasskey(t, made[2].value),
         NEW w, w = <<"credential", options[2].rp, options[2].handle, RegistrationResponse(made[2])>>
  PROVE  \E r : /\ Widens(reg, r) /\ Drawn(r) /\ DOMAIN r = DOMAIN reg \cup {id}
                /\ Holds(u, K, r) /\ Told(w, u, K, r)
<1> DEFINE rp == options[2].rp
           handle == options[2].handle
           key == PrivateKey(id)
           p == Passkey(id, rp, handle, key)
           response == RegistrationResponse(made[2])
           a == Account(rp, handle, response)
           v == made[2].value
           r == [x \in DOMAIN reg \cup {id} |-> IF x = id THEN p ELSE reg[x]]
<1>1. /\ v = ToValue(p) /\ FromValue(ToValue(p)) = <<"ok", p>>
      /\ id # BadText /\ rp # Empty /\ response.id = id
      /\ a.rp = rp /\ a.handle = handle /\ a.id = id
      /\ a.public = CoseKey(PublicOf(key)) /\ a.eligible = TRUE
  <2>1. made = Register(id, rp, handle, key, request.verified)
    OBVIOUS
  <2>2. p.id = id /\ p.rp = rp /\ p.handle = handle /\ p.key = key
    BY DEF Passkey
  <2> HIDE DEF rp, handle, key
  <2>3. Registration(made, p)
    BY <2>1, Registered
  <2> HIDE DEF p
  <2> QED BY <2>2, <2>3 DEF Registration
<1>2. p.id = id /\ p.rp = rp /\ p.handle = handle /\ p.key = key
  BY DEF Passkey
<1>3. v \in DOMAIN Credential /\ rp # "elsewhere"
  <2>1. /\ options[2].rp # "elsewhere"
        /\ FromValue(ToValue(Passkey(id, options[2].rp, options[2].handle, PrivateKey(id))))[1] = "ok"
             => ToValue(Passkey(id, options[2].rp, options[2].handle, PrivateKey(id)))
                  \in DOMAIN Credential
    BY FactorsAssumption, Zenon
  <2>2. FromValue(ToValue(p))[1] = "ok" => ToValue(p) \in DOMAIN Credential
    BY <2>1
  <2>3. v = ToValue(p) /\ FromValue(ToValue(p))[1] = "ok"
    BY <1>1
  <2> HIDE DEF p, v
  <2> QED BY <2>1, <2>2, <2>3
<1>4. FromValue(v)[2] = p
  BY <1>1
<1>5. Credential[v] = id
  BY <1>2, <1>3, <1>4, FactorsAssumption
<1>6. w = <<"credential", rp, handle, response>>
  OBVIOUS
<1>7. w[2] = rp /\ w[3] = handle /\ w[4] = response /\ w[1] = "credential"
  BY <1>6
<1> HIDE DEF rp, handle, key, p, response, v
<1>8. /\ DOMAIN r = DOMAIN reg \cup {id} /\ r[id] = p
      /\ \A x \in DOMAIN reg : r[x] = reg[x]
  OBVIOUS
<1> HIDE DEF r
<1>9. Widens(reg, r) /\ Drawn(r)
  BY <1>1, <1>2, <1>3, <1>8 DEF Widens, Drawn
<1>10. Holds(t, K, r)
  BY <1>9, WidenedFits
<1>11. Entry(t)
  BY DEF Holds, TextFits
<1>12. \A x \in HeldIn(t) : Credential[x] # id
  BY DEF Holds, TextFits
<1>13. /\ Follows(t, u) /\ HeldIn(u) = HeldIn(t) \cup {v} /\ Unique(u)
  <2>1. u = EntryAddPasskey(t, v)
    BY DEF v
  <2> QED BY <1>3, <1>5, <1>11, <1>12, <2>1, PasskeyMade
<1>14. Entry(u) /\ SameUri(t, u)
  BY <1>11, <1>13, FollowsIsEntry DEF Follows
<1>15. TextFits(u, r)
  BY <1>4, <1>5, <1>8, <1>10, <1>13, <1>14 DEF Holds, TextFits
<1>16. \A f \in K : Fact(f) /\ Keeps(u, f)
  BY <1>10, <1>13, <1>14, KeptAlong DEF Holds
<1>17. Keeps(u, <<"credential", response.id>>)
  <2> DEFINE f == <<"credential", id>>
  <2>1. f[1] # "code" /\ f[2] = id
    OBVIOUS
  <2> HIDE DEF f
  <2>2. Keeps(u, f)
    BY <1>5, <1>13, <2>1 DEF Keeps
  <2> QED BY <1>1, <2>2 DEF f
<1>18. AccountFits(a, r)
  <2> HIDE DEF a
  <2> QED BY <1>1, <1>2, <1>8 DEF AccountFits
<1>19. Told(w, u, K, r)
  BY <1>6, <1>7, <1>17, <1>18 DEF Told
<1> QED BY <1>8, <1>9, <1>15, <1>16, <1>19 DEF Holds

-----------------------------------------------------------------------------
(***************************************************************************)
(* The invariant: for the passkeys drawn so far, every text keeps what was  *)
(* told in its history, and what a task is about to tell is on its way.     *)
(***************************************************************************)
TaskFits(T, D, S, K, reg) ==
  /\ T = Busy(T.stage, T.text, T.tells) /\ T.stage \in {"idle", "write", "commit", "tell"}
  /\ T.stage = "write" => Holds(T.text, K, reg) /\ Told(T.tells, T.text, K, reg)
  /\ T.stage = "commit" => Told(T.tells, D, K, reg)
  /\ T.stage = "tell" => D = S /\ Told(T.tells, D, K, reg)

DeviceFits(D, S, K, T, reg) ==
  Holds(D, K, reg) /\ Holds(S, K, reg) /\ TaskFits(T, D, S, K, reg)

UpToDate(d) == ~ahead[d] /\ ~behind[d] => saved[d] = remote.text

Domains == /\ DOMAIN disk = Devices /\ DOMAIN saved = Devices /\ DOMAIN known = Devices
           /\ DOMAIN task = Devices /\ DOMAIN ahead = Devices /\ DOMAIN behind = Devices

Bounded == tasks \in 0..MaxTasks /\ crashes \in 0..MaxCrashes

Fits(reg) ==
  /\ Drawn(reg) /\ DOMAIN reg = used
  /\ Domains /\ Bounded
  /\ Holds(remote.text, remote.known, reg)
  /\ \A a \in sites : AccountFits(a, reg)
  /\ \A d \in Devices : DeviceFits(disk[d], saved[d], known[d], task[d], reg) /\ UpToDate(d)

Inv == \E reg : Fits(reg)

LEMMA IdleFits ==
  ASSUME NEW D, NEW S, NEW K, NEW reg
  PROVE  TaskFits(Idle, D, S, K, reg) /\ Idle.stage = "idle" /\ Idle.tells = Nobody
<1>1. Idle.stage = "idle" /\ Idle = Busy(Idle.stage, Idle.text, Idle.tells) /\ Idle.tells = Nobody
  BY DEF Idle, Busy
<1> QED BY <1>1 DEF TaskFits

LEMMA BusyIs ==
  ASSUME NEW s, NEW t, NEW w
  PROVE  /\ Busy(s, t, w).stage = s /\ Busy(s, t, w).text = t /\ Busy(s, t, w).tells = w
         /\ \A r : [Busy(s, t, w) EXCEPT !.stage = r] = Busy(r, t, w)
BY DEF Busy

LEMMA InitFits ==
  ASSUME Init
  PROVE  Inv
<1> DEFINE reg == [id \in {} |-> id]
<1>1. PICK t \in Texts :
        /\ disk = [d \in Devices |-> t] /\ saved = [d \in Devices |-> t]
        /\ remote = [text |-> t, known |-> {}]
  BY DEF Init
<1>2. /\ known = [d \in Devices |-> {}] /\ task = [d \in Devices |-> Idle]
      /\ ahead = [d \in Devices |-> FALSE] /\ behind = [d \in Devices |-> FALSE]
      /\ used = {} /\ sites = {} /\ tasks = 0 /\ crashes = 0
  BY DEF Init
<1>3. DOMAIN reg = {}
  OBVIOUS
<1> HIDE DEF reg
<1>4. IsText(t) /\ UriAt(t) # 1 /\ GoodUri(t) /\ Unique(t)
  BY FactorsAssumption DEF GoodUri, Unique
<1>5. Entry(t)
  BY <1>4, Reads DEF Entry
<1>6. \A v \in HeldIn(t) : Credential[v] \notin Ids
  <2>1. \A p \in StoredPasskeys(t) : p.id \notin Ids
    BY FactorsAssumption
  <2> QED BY <1>5, <2>1, StoredAreRead
<1>7. TextFits(t, reg)
  BY <1>5, <1>6 DEF TextFits
<1>8. Holds(t, {}, reg)
  BY <1>7 DEF Holds
<1>9. \A d \in Devices : DeviceFits(disk[d], saved[d], known[d], task[d], reg) /\ UpToDate(d)
  BY <1>1, <1>2, <1>8, IdleFits DEF DeviceFits, UpToDate
<1>10. Domains
  BY <1>1, <1>2 DEF Domains
<1>11. Bounded
  BY <1>2, FactorsAssumption DEF Bounded
<1> QED BY <1>1, <1>2, <1>3, <1>8, <1>9, <1>10, <1>11 DEF Inv, Fits, Drawn

\* A step of one device that leaves the server and the other devices alone.
Elsewhere(d) ==
  /\ DOMAIN disk' = DOMAIN disk /\ DOMAIN saved' = DOMAIN saved /\ DOMAIN known' = DOMAIN known
  /\ DOMAIN task' = DOMAIN task /\ DOMAIN ahead' = DOMAIN ahead /\ DOMAIN behind' = DOMAIN behind
  /\ remote' = remote
  /\ \A e \in Devices : e # d =>
       /\ disk'[e] = disk[e] /\ saved'[e] = saved[e] /\ known'[e] = known[e]
       /\ task'[e] = task[e] /\ ahead'[e] = ahead[e] /\ behind'[e] = behind[e]

LEMMA DeviceMoves ==
  ASSUME NEW reg, Fits(reg), NEW d \in Devices, Elsewhere(d), Bounded',
         NEW r, Widens(reg, r), Drawn(r), DOMAIN r = used',
         \A a \in sites' : a \in sites \/ AccountFits(a, r),
         DeviceFits(disk'[d], saved'[d], known'[d], task'[d], r), UpToDate(d)'
  PROVE  Inv'
<1>1. /\ \A t, K : Holds(t, K, reg) => Holds(t, K, r)
      /\ \A a : AccountFits(a, reg) => AccountFits(a, r)
      /\ \A w, t, K : Told(w, t, K, reg) => Told(w, t, K, r)
  BY WidenedFits
<1>2. \A T, D, S, K : DeviceFits(D, S, K, T, reg) => DeviceFits(D, S, K, T, r)
  BY <1>1 DEF DeviceFits, TaskFits
<1>3. \A e \in Devices : DeviceFits(disk'[e], saved'[e], known'[e], task'[e], r)
  BY <1>2 DEF Fits, Elsewhere
<1>4. \A e \in Devices : UpToDate(e)'
  BY DEF Fits, Elsewhere, UpToDate
<1>5. Domains'
  BY DEF Fits, Elsewhere, Domains
<1>6. Holds(remote.text, remote.known, r)' /\ \A a \in sites' : AccountFits(a, r)
  BY <1>1 DEF Fits, Elsewhere
<1> QED BY <1>3, <1>4, <1>5, <1>6 DEF Inv, Fits

\* The history of d is left with L.
Forgets(d, L) == /\ DOMAIN known' = DOMAIN known /\ known'[d] = L
                 /\ \A e \in Devices : e # d => known'[e] = known[e]

\* A task begins with a text that keeps what the device's history is left with.
LEMMA Begins ==
  ASSUME NEW reg, Fits(reg), NEW d \in Devices, NEW u, NEW w, Begin(d, u, w),
         NEW L, L \subseteq known[d], Forgets(d, L),
         NEW r, Widens(reg, r), Drawn(r), DOMAIN r = used', Holds(u, L, r), Told(w, u, L, r)
  PROVE  Inv'
<1>1. /\ tasks < MaxTasks /\ tasks' = tasks + 1
      /\ task' = [task EXCEPT ![d] = Busy("write", u, w)]
      /\ disk' = disk /\ saved' = saved /\ ahead' = ahead /\ behind' = behind
      /\ remote' = remote /\ sites' = sites /\ crashes' = crashes
  BY DEF Begin
<1>2. Bounded'
  BY <1>1, FactorsAssumption DEF Fits, Bounded
<1>3. Domains
  BY DEF Fits
<1>4. Elsewhere(d) /\ known'[d] = L /\ task'[d] = Busy("write", u, w)
  BY <1>1, <1>3 DEF Elsewhere, Domains, Forgets
<1>5. TaskFits(task'[d], disk'[d], saved'[d], L, r)
  BY <1>4, BusyIs DEF TaskFits
<1>6. Holds(disk[d], known[d], r) /\ Holds(saved[d], known[d], r)
  BY WidenedFits DEF Fits, DeviceFits
<1>7. DeviceFits(disk'[d], saved'[d], known'[d], task'[d], r)
  BY <1>1, <1>4, <1>5, <1>6 DEF DeviceFits, Holds
<1>8. UpToDate(d)'
  BY <1>1 DEF Fits, UpToDate
<1> QED BY <1>1, <1>2, <1>4, <1>7, <1>8, DeviceMoves

LEMMA SameRegistry ==
  ASSUME NEW reg
  PROVE  Widens(reg, reg)
BY DEF Widens

LEMMA AskingFits ==
  ASSUME NEW reg, Fits(reg), NEW d \in Devices, AskForCode(d)
  PROVE  Inv'
<1>1. PICK s \in Range(AdvanceEntry(disk[d])) :
        Begin(d, s.text, <<"code", s.code>>) /\ known' = known /\ used' = used
  BY DEF AskForCode
<1>2. Holds(disk[d], known[d], reg) /\ Drawn(reg) /\ DOMAIN reg = used'
  BY <1>1 DEF Fits, DeviceFits
<1>3. Holds(s.text, known[d], reg) /\ Told(<<"code", s.code>>, s.text, known[d], reg)
  BY <1>2, CodeBegins
<1>4. Forgets(d, known[d])
  BY <1>1 DEF Forgets
<1> QED BY <1>1, <1>2, <1>3, <1>4, SameRegistry, Begins

LEMMA ChangingFits ==
  ASSUME NEW reg, Fits(reg), NEW d \in Devices, ChangePassword(d)
  PROVE  Inv'
<1> DEFINE u == SetPassword(disk[d], ChosenPassword)
<1>1. Begin(d, u, Nobody) /\ known' = known /\ used' = used
  BY DEF ChangePassword
<1>2. Holds(disk[d], known[d], reg) /\ Drawn(reg) /\ DOMAIN reg = used'
  BY <1>1 DEF Fits, DeviceFits
<1>3. Holds(u, known[d], reg) /\ Told(Nobody, u, known[d], reg)
  BY <1>2, PasswordBegins
<1>4. Forgets(d, known[d])
  BY <1>1 DEF Forgets
<1> HIDE DEF u
<1> QED BY <1>1, <1>2, <1>3, <1>4, SameRegistry, Begins

LEMMA DeletingFits ==
  ASSUME NEW reg, Fits(reg), NEW d \in Devices, DeletePasskey(d)
  PROVE  Inv'
<1>1. PICK p \in StoredPasskeys(disk[d]) :
        /\ Begin(d, EntryRemovePasskey(disk[d], p.id), Nobody)
        /\ known' = [known EXCEPT ![d] = known[d] \ {<<"credential", p.id>>}]
        /\ used' = used
  BY DEF DeletePasskey
<1>2. Holds(disk[d], known[d], reg) /\ Drawn(reg) /\ DOMAIN reg = used'
  BY <1>1 DEF Fits, DeviceFits
<1> DEFINE u == EntryRemovePasskey(disk[d], p.id)
           L == known[d] \ {<<"credential", p.id>>}
<1>3. L \subseteq known[d] /\ Begin(d, u, Nobody) /\ Forgets(d, L)
  BY <1>1 DEF Fits, Domains, Forgets
<1>4. Holds(u, L, reg) /\ Told(Nobody, u, L, reg)
  BY <1>2, DeleteBegins
<1> HIDE DEF u, L
<1> QED BY <1>2, <1>3, <1>4, SameRegistry, Begins

LEMMA CreatingFits ==
  ASSUME NEW reg, Fits(reg), NEW d \in Devices, CreatePasskey(d)
  PROVE  Inv'
<1>1. PICK request \in Requests, id \in Ids \ used :
        LET options == CreationOptions(request)
            made == Register(id, options[2].rp, options[2].handle, PrivateKey(id), request.verified)
        IN  /\ options[1] = "ok" /\ made[1] = "ok"
            /\ Begin(d, EntryAddPasskey(disk[d], made[2].value),
                     <<"credential", options[2].rp, options[2].handle, RegistrationResponse(made[2])>>)
            /\ used' = used \cup {id} /\ known' = known
  BY DEF CreatePasskey
<1> DEFINE options == CreationOptions(request)
           made == Register(id, options[2].rp, options[2].handle, PrivateKey(id), request.verified)
           u == EntryAddPasskey(disk[d], made[2].value)
           w == <<"credential", options[2].rp, options[2].handle, RegistrationResponse(made[2])>>
<1>2. /\ options[1] = "ok" /\ made[1] = "ok" /\ Begin(d, u, w)
      /\ used' = used \cup {id} /\ known' = known
  BY <1>1
<1>3. /\ Holds(disk[d], known[d], reg) /\ Drawn(reg) /\ DOMAIN reg = used
      /\ id \in Ids /\ id \notin DOMAIN reg
  BY DEF Fits, DeviceFits
<1>4. PICK r : /\ Widens(reg, r) /\ Drawn(r) /\ DOMAIN r = DOMAIN reg \cup {id}
               /\ Holds(u, known[d], r) /\ Told(w, u, known[d], r)
  BY <1>2, <1>3, PasskeyBegins
<1>5. Forgets(d, known[d])
  BY <1>2 DEF Forgets
<1> HIDE DEF u, w, made, options
<1>6. DOMAIN r = used'
  BY <1>2, <1>3, <1>4
<1> QED BY <1>2, <1>4, <1>5, <1>6, Begins

\* What of device d a step may read.
LEMMA DeviceIs ==
  ASSUME NEW reg, Fits(reg), NEW d \in Devices
  PROVE  /\ Drawn(reg) /\ DOMAIN reg = used /\ Domains /\ Bounded /\ UpToDate(d)
         /\ Holds(disk[d], known[d], reg) /\ Holds(saved[d], known[d], reg)
         /\ TaskFits(task[d], disk[d], saved[d], known[d], reg)
BY DEF Fits, DeviceFits

LEMMA WritingFits ==
  ASSUME NEW reg, Fits(reg), NEW d \in Devices, Write(d)
  PROVE  Inv'
<1> DEFINE T == task[d]
           done == Busy("commit", T.text, T.tells)
<1>1. /\ Drawn(reg) /\ DOMAIN reg = used /\ Domains /\ Bounded /\ UpToDate(d)
      /\ Holds(saved[d], known[d], reg)
      /\ TaskFits(T, disk[d], saved[d], known[d], reg)
  BY DeviceIs
<1>2. /\ T.stage = "write"
      /\ disk' = [disk EXCEPT ![d] = T.text]
      /\ task' = [task EXCEPT ![d].stage = "commit"]
      /\ saved' = saved /\ ahead' = ahead /\ behind' = behind /\ known' = known
      /\ remote' = remote /\ used' = used /\ sites' = sites /\ tasks' = tasks /\ crashes' = crashes
  BY DEF Write
<1>3. T = Busy("write", T.text, T.tells) /\ Holds(T.text, known[d], reg)
      /\ Told(T.tells, T.text, known[d], reg)
  BY <1>1, <1>2 DEF TaskFits
<1>4. [T EXCEPT !.stage = "commit"] = done
  <2> DEFINE x == T.text
             w == T.tells
  <2>1. T = Busy("write", x, w)
    BY <1>3
  <2> HIDE DEF x, w, T
  <2>2. [T EXCEPT !.stage = "commit"] = Busy("commit", x, w)
    BY <2>1, BusyIs
  <2> QED BY <2>2 DEF x, w
<1>5. task' = [task EXCEPT ![d] = done]
  BY <1>2, <1>4
<1>6. done = Busy(done.stage, done.text, done.tells) /\ done.stage = "commit" /\ done.tells = T.tells
  BY BusyIs
<1> HIDE DEF done
<1>7. Elsewhere(d) /\ disk'[d] = T.text /\ task'[d] = done /\ saved'[d] = saved[d] /\ known'[d] = known[d]
  BY <1>1, <1>2, <1>5 DEF Elsewhere, Domains
<1> HIDE DEF T
<1>8. TaskFits(done, T.text, saved[d], known[d], reg)
  BY <1>3, <1>6 DEF TaskFits
<1>9. DeviceFits(disk'[d], saved'[d], known'[d], task'[d], reg)
  BY <1>1, <1>3, <1>7, <1>8 DEF DeviceFits
<1>10. UpToDate(d)' /\ Bounded'
  BY <1>1, <1>2 DEF UpToDate, Bounded
<1> QED BY <1>1, <1>2, <1>7, <1>9, <1>10, SameRegistry, DeviceMoves

LEMMA CommittingFits ==
  ASSUME NEW reg, Fits(reg), NEW d \in Devices, Commit(d)
  PROVE  Inv'
<1> DEFINE T == task[d]
           next == IF T.tells = Nobody THEN Idle ELSE Busy("tell", <<>>, T.tells)
<1>1. /\ Drawn(reg) /\ DOMAIN reg = used /\ Domains /\ Bounded /\ UpToDate(d)
      /\ Holds(disk[d], known[d], reg)
      /\ TaskFits(T, disk[d], saved[d], known[d], reg)
  BY DeviceIs
<1>2. /\ T.stage = "commit" \/ (T = Idle /\ disk[d] # saved[d])
      /\ saved' = [saved EXCEPT ![d] = disk[d]]
      /\ ahead' = [ahead EXCEPT ![d] = TRUE]
      /\ task' = [task EXCEPT ![d] = next]
      /\ disk' = disk /\ behind' = behind /\ known' = known
      /\ remote' = remote /\ used' = used /\ sites' = sites /\ tasks' = tasks /\ crashes' = crashes
  BY DEF Commit
<1> DEFINE tell == Busy("tell", <<>>, T.tells)
<1>3. tell = Busy(tell.stage, tell.text, tell.tells) /\ tell.stage = "tell" /\ tell.tells = T.tells
  BY BusyIs
<1> HIDE DEF tell
<1>4. TaskFits(next, disk[d], disk[d], known[d], reg)
  <2>1. CASE T.tells = Nobody
    BY <2>1, IdleFits
  <2>2. CASE T.tells # Nobody
    <3>1. T.stage = "commit"
      BY <1>2, <2>2, IdleFits
    <3>2. Told(T.tells, disk[d], known[d], reg)
      BY <1>1, <3>1 DEF TaskFits
    <3>3. next = tell
      BY <2>2 DEF tell
    <3> HIDE DEF next, T
    <3> QED BY <1>3, <3>2, <3>3 DEF TaskFits
  <2> QED BY <2>1, <2>2
<1> HIDE DEF next
<1>5. /\ Elsewhere(d) /\ disk'[d] = disk[d] /\ task'[d] = next /\ saved'[d] = disk[d]
      /\ known'[d] = known[d] /\ ahead'[d]
  BY <1>1, <1>2 DEF Elsewhere, Domains
<1>6. DeviceFits(disk'[d], saved'[d], known'[d], task'[d], reg)
  BY <1>1, <1>4, <1>5 DEF DeviceFits
<1>7. UpToDate(d)' /\ Bounded'
  BY <1>1, <1>2, <1>5 DEF UpToDate, Bounded
<1> QED BY <1>1, <1>2, <1>5, <1>6, <1>7, SameRegistry, DeviceMoves

LEMMA CrashFits ==
  ASSUME NEW reg, Fits(reg), NEW d \in Devices, Crash(d)
  PROVE  Inv'
<1>1. /\ Drawn(reg) /\ DOMAIN reg = used /\ Domains /\ Bounded /\ UpToDate(d)
      /\ Holds(disk[d], known[d], reg) /\ Holds(saved[d], known[d], reg)
  BY DeviceIs
<1>2. /\ crashes < MaxCrashes /\ crashes' = crashes + 1
      /\ task' = [task EXCEPT ![d] = Idle]
      /\ disk' = disk /\ saved' = saved /\ ahead' = ahead /\ behind' = behind /\ known' = known
      /\ remote' = remote /\ used' = used /\ sites' = sites /\ tasks' = tasks
  BY DEF Crash
<1>3. Elsewhere(d) /\ task'[d] = Idle
  BY <1>1, <1>2 DEF Elsewhere, Domains
<1>4. DeviceFits(disk'[d], saved'[d], known'[d], task'[d], reg)
  BY <1>1, <1>2, <1>3, IdleFits DEF DeviceFits
<1>5. UpToDate(d)' /\ Bounded'
  BY <1>1, <1>2, FactorsAssumption DEF UpToDate, Bounded
<1> QED BY <1>1, <1>2, <1>3, <1>4, <1>5, SameRegistry, DeviceMoves

LEMMA ShowingFits ==
  ASSUME NEW reg, Fits(reg), NEW d \in Devices, ShowCode(d)
  PROVE  Inv'
<1> DEFINE w == task[d].tells
           L == known[d] \cup {w}
<1>1. /\ Drawn(reg) /\ DOMAIN reg = used /\ Domains /\ Bounded /\ UpToDate(d)
      /\ Holds(disk[d], known[d], reg)
      /\ TaskFits(task[d], disk[d], saved[d], known[d], reg)
  BY DeviceIs
<1>2. /\ task[d].stage = "tell" /\ w[1] = "code"
      /\ known' = [known EXCEPT ![d] = L]
      /\ task' = [task EXCEPT ![d] = Idle]
      /\ disk' = disk /\ saved' = saved /\ ahead' = ahead /\ behind' = behind
      /\ remote' = remote /\ used' = used /\ sites' = sites /\ tasks' = tasks /\ crashes' = crashes
  BY DEF ShowCode
<1>3. disk[d] = saved[d] /\ Told(w, disk[d], known[d], reg)
  BY <1>1, <1>2 DEF TaskFits
<1>4. Elsewhere(d) /\ task'[d] = Idle /\ known'[d] = L
  BY <1>1, <1>2 DEF Elsewhere, Domains
<1> HIDE DEF w
<1>5. Fact(w) /\ Keeps(disk[d], w)
  BY <1>2, <1>3 DEF Told, Nobody, Fact
<1>6. Holds(disk[d], L, reg)
  BY <1>1, <1>5 DEF Holds
<1>7. DeviceFits(disk'[d], saved'[d], known'[d], task'[d], reg)
  BY <1>2, <1>3, <1>4, <1>6, IdleFits DEF DeviceFits
<1>8. UpToDate(d)' /\ Bounded'
  BY <1>1, <1>2 DEF UpToDate, Bounded
<1> QED BY <1>1, <1>2, <1>4, <1>7, <1>8, SameRegistry, DeviceMoves

LEMMA AnsweringFits ==
  ASSUME NEW reg, Fits(reg), NEW d \in Devices, AnswerSite(d)
  PROVE  Inv'
<1> DEFINE w == task[d].tells
           f == <<"credential", w[4].id>>
           a == Account(w[2], w[3], w[4])
           L == known[d] \cup {f}
<1>1. /\ Drawn(reg) /\ DOMAIN reg = used /\ Domains /\ Bounded /\ UpToDate(d)
      /\ Holds(disk[d], known[d], reg)
      /\ TaskFits(task[d], disk[d], saved[d], known[d], reg)
  BY DeviceIs
<1>2. /\ task[d].stage = "tell" /\ w[1] = "credential"
      /\ known' = [known EXCEPT ![d] = L]
      /\ sites' = sites \cup {a}
      /\ task' = [task EXCEPT ![d] = Idle]
      /\ disk' = disk /\ saved' = saved /\ ahead' = ahead /\ behind' = behind
      /\ remote' = remote /\ used' = used /\ tasks' = tasks /\ crashes' = crashes
  BY DEF AnswerSite
<1>3. disk[d] = saved[d] /\ Told(w, disk[d], known[d], reg)
  BY <1>1, <1>2 DEF TaskFits
<1>4. Elsewhere(d) /\ task'[d] = Idle /\ known'[d] = L
  BY <1>1, <1>2 DEF Elsewhere, Domains
<1>5. f = <<"credential", f[2]>>
  OBVIOUS
<1>6. Keeps(disk[d], f) /\ AccountFits(a, reg)
  <2> HIDE DEF w
  <2> QED BY <1>2, <1>3 DEF Told, Nobody
<1> HIDE DEF w, f, a
<1>7. Holds(disk[d], L, reg)
  BY <1>1, <1>5, <1>6 DEF Holds, Fact
<1>8. DeviceFits(disk'[d], saved'[d], known'[d], task'[d], reg)
  BY <1>2, <1>3, <1>4, <1>7, IdleFits DEF DeviceFits
<1>9. UpToDate(d)' /\ Bounded'
  BY <1>1, <1>2 DEF UpToDate, Bounded
<1>10. \A b \in sites' : b \in sites \/ AccountFits(b, reg)
  BY <1>2, <1>6
<1> QED BY <1>1, <1>2, <1>4, <1>8, <1>9, <1>10, SameRegistry, DeviceMoves

LEMMA TakingFits ==
  ASSUME NEW reg, Fits(reg), NEW d \in Devices, Take(d)
  PROVE  Inv'
<1>1. Drawn(reg) /\ DOMAIN reg = used /\ Domains /\ Bounded
  BY DeviceIs
<1>2. Holds(remote.text, remote.known, reg)
  BY DEF Fits
<1>3. /\ disk' = [disk EXCEPT ![d] = remote.text] /\ saved' = [saved EXCEPT ![d] = remote.text]
      /\ known' = [known EXCEPT ![d] = remote.known]
      /\ ahead' = [ahead EXCEPT ![d] = FALSE] /\ behind' = [behind EXCEPT ![d] = FALSE]
      /\ task[d] = Idle /\ task' = task /\ remote' = remote
      /\ used' = used /\ sites' = sites /\ tasks' = tasks /\ crashes' = crashes
  BY DEF Take, Clean
<1>4. /\ Elsewhere(d) /\ disk'[d] = remote.text /\ saved'[d] = remote.text
      /\ known'[d] = remote.known /\ task'[d] = Idle
  BY <1>1, <1>3 DEF Elsewhere, Domains
<1>5. DeviceFits(disk'[d], saved'[d], known'[d], task'[d], reg)
  BY <1>2, <1>4, IdleFits DEF DeviceFits
<1>6. UpToDate(d)' /\ Bounded'
  BY <1>1, <1>3, <1>4 DEF UpToDate, Bounded
<1> QED BY <1>1, <1>3, <1>4, <1>5, <1>6, SameRegistry, DeviceMoves

LEMMA PushingFits ==
  ASSUME NEW reg, Fits(reg), NEW d \in Devices, Push(d)
  PROVE  Inv'
<1>1. /\ remote' = [text |-> saved[d], known |-> known[d]]
      /\ ahead' = [ahead EXCEPT ![d] = FALSE] /\ behind' = [e \in Devices |-> e # d]
      /\ disk' = disk /\ saved' = saved /\ known' = known /\ task' = task
      /\ used' = used /\ sites' = sites /\ tasks' = tasks /\ crashes' = crashes
  BY DEF Push
<1>2. Drawn(reg) /\ DOMAIN reg = used' /\ Domains' /\ Bounded'
  BY <1>1 DEF Fits, Domains, Bounded
<1>3. Holds(remote.text, remote.known, reg)'
  <2>1. Holds(saved[d], known[d], reg)
    BY DeviceIs
  <2>2. remote'.text = saved[d] /\ remote'.known = known[d]
    BY <1>1
  <2> QED BY <2>1, <2>2
<1>4. \A e \in Devices : UpToDate(e)'
  <2> TAKE e \in Devices
  <2>1. CASE e = d
    BY <1>1, <2>1 DEF UpToDate
  <2>2. CASE e # d
    <3>1. behind'[e] = TRUE
      BY <1>1, <2>2
    <3> QED BY <3>1 DEF UpToDate
  <2> QED BY <2>1, <2>2
<1>5. \A e \in Devices : DeviceFits(disk[e], saved[e], known[e], task[e], reg)'
  BY <1>1 DEF Fits
<1>6. \A a \in sites' : AccountFits(a, reg)
  BY <1>1 DEF Fits
<1> QED BY <1>2, <1>3, <1>4, <1>5, <1>6 DEF Inv, Fits

LEMMA InvIsKept ==
  ASSUME Inv, [Next]_factors
  PROVE  Inv'
<1>1. PICK reg : Fits(reg)
  BY DEF Inv
<1>2. CASE UNCHANGED factors
  <2>1. /\ disk' = disk /\ saved' = saved /\ ahead' = ahead /\ behind' = behind /\ known' = known
        /\ task' = task /\ remote' = remote /\ used' = used /\ sites' = sites
        /\ tasks' = tasks /\ crashes' = crashes
    BY <1>2 DEF factors
  <2>2. Fits(reg)'
    BY <1>1, <2>1 DEF Fits, Domains, Bounded, UpToDate
  <2> QED BY <2>2 DEF Inv
<1>3. CASE Next
  <2>1. PICK d \in Devices :
          \/ AskForCode(d) \/ CreatePasskey(d) \/ DeletePasskey(d) \/ ChangePassword(d)
          \/ Write(d) \/ Commit(d) \/ ShowCode(d) \/ AnswerSite(d) \/ Crash(d)
          \/ Push(d) \/ Take(d)
    BY <1>3 DEF Next
  <2>2. CASE AskForCode(d)
    BY <1>1, <2>2, AskingFits
  <2>3. CASE CreatePasskey(d)
    BY <1>1, <2>3, CreatingFits
  <2>4. CASE DeletePasskey(d)
    BY <1>1, <2>4, DeletingFits
  <2>5. CASE ChangePassword(d)
    BY <1>1, <2>5, ChangingFits
  <2>6. CASE Write(d)
    BY <1>1, <2>6, WritingFits
  <2>7. CASE Commit(d)
    BY <1>1, <2>7, CommittingFits
  <2>8. CASE ShowCode(d)
    BY <1>1, <2>8, ShowingFits
  <2>9. CASE AnswerSite(d)
    BY <1>1, <2>9, AnsweringFits
  <2>10. CASE Crash(d)
    BY <1>1, <2>10, CrashFits
  <2>11. CASE Push(d)
    BY <1>1, <2>11, PushingFits
  <2>12. CASE Take(d)
    BY <1>1, <2>12, TakingFits
  <2> QED BY <2>1, <2>2, <2>3, <2>4, <2>5, <2>6, <2>7, <2>8, <2>9, <2>10, <2>11, <2>12
<1> QED BY <1>2, <1>3

LEMMA InvHolds == Spec => []Inv
<1>1. Init => Inv
  BY InitFits
<1>2. Inv /\ [Next]_factors => Inv'
  BY InvIsKept
<1> QED BY <1>1, <1>2, PTL DEF Spec

-----------------------------------------------------------------------------
\* Every variable keeps its type through crashes and syncs: each device's
\* text is of whole lines with no credential id twice, whatever set_otpauth,
\* set_password, entry_add_passkey and entry_remove_passkey made of it, and a
\* device with nothing to push or take holds what the server has.
THEOREM TypeCorrect == Spec => []TypeOK
<1>1. ASSUME Inv
      PROVE  TypeOK
  <2>1. PICK reg : Fits(reg)
    BY <1>1 DEF Inv
  <2>2. ASSUME NEW d \in Devices
        PROVE  /\ Lines(disk[d]) /\ Lines(saved[d])
               /\ task[d].stage \in {"idle", "write", "commit", "tell"}
               /\ ~ahead[d] /\ ~behind[d] => saved[d] = remote.text
    <3>1. /\ UpToDate(d) /\ Entry(disk[d]) /\ Entry(saved[d])
          /\ TaskFits(task[d], disk[d], saved[d], known[d], reg)
      BY <2>1, DeviceIs DEF Holds, TextFits
    <3> QED BY <3>1 DEF UpToDate, TaskFits, Entry, TextOf
  <2>3. ASSUME NEW d \in Devices, NEW held, held = EntryPasskeys(disk[d])
        PROVE  \A i, j \in DOMAIN held : Credential[held[i]] = Credential[held[j]] => i = j
    <3>1. Entry(disk[d])
      BY <2>1, DeviceIs DEF Holds, TextFits
    <3> QED BY <2>3, <3>1, PasskeysRead DEF Entry, TextOf
  <2>4. tasks \in 0..MaxTasks /\ crashes \in 0..MaxCrashes
    BY <2>1 DEF Fits, Bounded
  <2> QED BY <2>2, <2>3, <2>4 DEF TypeOK
<1> QED BY <1>1, InvHolds, PTL

\* The app tells only what it has saved (keys_otp_api.rs, passkey_api.rs):
\* whatever crashes and however devices sync, a device that has the history
\* in which a code was shown or a site was answered has the counter behind
\* that code and the passkey of that credential.
THEOREM ToldThingsAreSaved == Spec => []ToldIsSaved
<1>1. ASSUME Inv
      PROVE  ToldIsSaved
  <2>1. PICK reg : Fits(reg)
    BY <1>1 DEF Inv
  <2> SUFFICES ASSUME NEW d \in Devices, NEW fact \in known[d]
               PROVE  IF fact[1] = "code"
                      THEN /\ UriAt(disk[d]) # 0
                           /\ HotpFromUri(Otpauth(disk[d])[2])[1].moving >= fact[2][2]
                      ELSE \E p \in StoredPasskeys(disk[d]) : p.id = fact[2]
    BY DEF ToldIsSaved
  <2>2. Keeps(disk[d], fact) /\ Entry(disk[d])
    BY <2>1, DeviceIs DEF Holds, TextFits
  <2>3. CASE fact[1] = "code"
    BY <2>2, <2>3 DEF Keeps, HasCounter, Counter
  <2>4. CASE fact[1] # "code"
    <3>1. PICK v \in HeldIn(disk[d]) : Credential[v] = fact[2]
      BY <2>2, <2>4 DEF Keeps
    <3>2. FromValue(v)[2] \in StoredPasskeys(disk[d]) /\ FromValue(v)[2].id = fact[2]
      BY <2>2, <3>1, StoredAreRead
    <3> QED BY <2>4, <3>2
  <2> QED BY <2>3, <2>4
<1> QED BY <1>1, InvHolds, PTL

\* next_code counts on from what the entry stores: no code that the app is
\* about to show was shown before in the history it counted from.
THEOREM NoCodeIsShownTwice == Spec => CodesShownOnce
<1>1. ASSUME Inv, NEW d \in Devices, task[d].stage = "tell"
      PROVE  task[d].tells \notin known[d]
  <2>1. PICK reg : Fits(reg)
    BY <1>1 DEF Inv
  <2> DEFINE w == task[d].tells
             D == disk[d]
             K == known[d]
  <2>2. Told(w, D, K, reg) /\ \A f \in K : Fact(f)
    BY <1>1, <2>1, DeviceIs DEF TaskFits, Holds
  <2> HIDE DEF w, D, K
  <2> SUFFICES ASSUME w \in K
               PROVE  FALSE
    BY DEF w, K
  <2>3. (w = <<"code", w[2]>> /\ w[2][2] \in Nat) \/ w = <<"credential", w[2]>>
    BY <2>2 DEF Fact
  <2>4. w[1] # "nobody" /\ Len(w) = 2
    BY <2>3
  <2>5. w # Nobody
    BY <2>4 DEF Nobody
  <2>6. ~(w = <<"code", w[2]>> /\ w[2][2] \in Nat /\ \A f \in K : f[1] = "code" => f[2][2] < w[2][2])
    <3>1. w = <<"code", w[2]>> => w[1] = "code"
      OBVIOUS
    <3>2. w[2][2] \in Nat => ~(w[2][2] < w[2][2])
      OBVIOUS
    <3> QED BY <3>1, <3>2
  <2>7. w # <<"credential", w[2], w[3], w[4]>>
    BY <2>4
  <2> QED BY <2>2, <2>5, <2>6, <2>7 DEF Told
<1>2. Inv /\ [Next]_factors =>
        [\A d \in Devices :
           task[d].stage = "tell" /\ task'[d] = Idle /\ crashes' = crashes
             => task[d].tells \notin known[d]]_factors
  BY <1>1
<1> QED BY <1>2, InvHolds, PTL DEF Spec, CodesShownOnce

\* What a device signs with a passkey it made is what the site kept of it.
LEMMA AnswerIsAccepted ==
  ASSUME NEW a, NEW p, p.id = a.id, p.rp = a.rp, p.handle = a.handle,
         a.public = CoseKey(PublicOf(p.key)), a.eligible = TRUE,
         NEW verified \in BOOLEAN, NEW hash
  PROVE  SiteAccepts(a, verified, hash, SignIn(p, verified, hash))
<1> DEFINE data == AuthenticatorData(p.rp, verified, <<>>)
           signature == <<p.key, <<data, hash>> >>
           response == [id |-> p.id, data |-> data, signature |-> signature, handle |-> p.handle]
<1>1. SignIn(p, verified, hash) = response
  BY DEF SignIn, AssertPasskey, AssertionResponse, SignedMessage
<1>2. /\ data.rpHash = <<"hash", a.rp>> /\ data.counter = 0
      /\ data.flags = {"UP", "BE", "BS"} \cup (IF verified THEN {"UV"} ELSE {})
                                         \cup (IF <<>> # <<>> THEN {"AT"} ELSE {})
  BY DEF AuthenticatorData, Flags
<1>3. /\ "UP" \in data.flags /\ "BE" \in data.flags /\ (verified => "UV" \in data.flags)
  BY <1>2
<1>4. <<"cose", <<"public", p.key>> >> = a.public
  BY DEF CoseKey, PublicOf
<1> HIDE DEF data
<1>5. /\ response.id = a.id /\ response.handle = a.handle /\ response.data = data
      /\ response.signature[1] = p.key /\ response.signature[2] = <<data, hash>>
  OBVIOUS
<1> HIDE DEF response
<1>6. a.eligible = ("BE" \in response.data.flags)
  BY <1>3, <1>5
<1> SUFFICES SiteAccepts(a, verified, hash, response)
  BY <1>1
<1> QED BY <1>2, <1>3, <1>4, <1>5, <1>6 DEF SiteAccepts

\* What is offered of an account's passkeys, to its site and elsewhere.
LEMMA OfferedAre ==
  ASSUME NEW t, NEW a, a.id # BadText, a.rp \notin {Empty, "elsewhere"},
         NEW p \in StoredPasskeys(t), p.id = a.id, p.rp = a.rp,
         NEW rp \in {<<>>, <<a.rp>>}, NEW allow \in {<<>>, <<a.id>>},
         NEW ask, ask = [rp |-> rp, allow |-> allow]
  PROVE  p \in Offered(t, ask, a.rp) /\ p \notin Offered(t, [ask EXCEPT !.rp = <<>>], "elsewhere")
<1>1. CredentialIds(allow) = <<"ok", allow>>
  <2>1. \A i \in DOMAIN allow : allow[i] = a.id
    OBVIOUS
  <2> QED BY <2>1 DEF CredentialIds
<1> DEFINE named == IF rp = <<>> THEN Empty ELSE rp[1]
           other == [rp |-> <<>>, allow |-> allow]
<1>2. [ask EXCEPT !.rp = <<>>] = other
  OBVIOUS
<1>3. ParseGetOptions(ask) = <<"ok", [rp |-> named, allow |-> allow]>>
  BY <1>1 DEF ParseGetOptions
<1>4. ParseGetOptions(other) = <<"ok", [rp |-> Empty, allow |-> allow]>>
  BY <1>1 DEF ParseGetOptions
<1>5. named = Empty \/ named = a.rp
  OBVIOUS
<1>6. allow = <<>> \/ Contains(allow, p.id)
  BY DEF Contains
<1> HIDE DEF named, other
<1>7. p \in Offered(t, ask, a.rp)
  BY <1>3, <1>5, <1>6 DEF Offered
<1>8. p \notin Offered(t, other, "elsewhere")
  BY <1>4 DEF Offered
<1> QED BY <1>2, <1>7, <1>8

\* Registration and assertion agree on every field (webauthn.rs): a site that
\* holds a credential accepts each sign-in from a device that has it in its
\* history, whatever the site names in its request, and no passkey of it is
\* offered to another site.
THEOREM SignInsAreAccepted == Spec => []SignInAccepted
<1>1. ASSUME Inv
      PROVE  SignInAccepted
  <2>1. PICK reg : Fits(reg)
    BY <1>1 DEF Inv
  <2> SUFFICES
        ASSUME NEW d \in Devices, NEW a \in sites, <<"credential", a.id>> \in known[d],
               NEW rp \in {<<>>, <<a.rp>>}, NEW allow \in {<<>>, <<a.id>>},
               NEW ask, ask = [rp |-> rp, allow |-> allow], NEW verified \in BOOLEAN
        PROVE  /\ {p \in Offered(disk[d], ask, a.rp) : p.id = a.id} # {}
               /\ \A p \in {q \in Offered(disk[d], ask, a.rp) : q.id = a.id} :
                    SiteAccepts(a, verified, "asked", SignIn(p, verified, "asked"))
               /\ {p \in Offered(disk[d], [ask EXCEPT !.rp = <<>>], "elsewhere") : p.id = a.id} = {}
    BY DEF SignInAccepted
  <2> DEFINE t == disk[d]
  <2>2. AccountFits(a, reg) /\ Drawn(reg) /\ Holds(t, known[d], reg)
    BY <2>1, DeviceIs DEF Fits
  <2>3. Entry(t) /\ Keeps(t, <<"credential", a.id>>)
    BY <2>2 DEF Holds, TextFits
  <2> HIDE DEF t
  <2>4. /\ a.id \in DOMAIN reg /\ a.id \in Ids /\ a.id # BadText
        /\ a.rp \notin {Empty, "elsewhere"} /\ a.eligible = TRUE
    BY <2>2 DEF AccountFits, Drawn
  <2>5. ASSUME NEW p \in StoredPasskeys(t), p.id = a.id
        PROVE  p.rp = a.rp /\ p.handle = a.handle /\ a.public = CoseKey(PublicOf(p.key))
    <3>1. PICK v \in HeldIn(t) : p = FromValue(v)[2] /\ Credential[v] = a.id
      BY <2>3, <2>5, StoredAreRead
    <3>2. p = reg[a.id]
      BY <2>2, <2>4, <3>1 DEF Holds, TextFits
    <3> QED BY <2>2, <3>2 DEF AccountFits
  <2>6. PICK p \in StoredPasskeys(t) : p.id = a.id
    <3> DEFINE f == <<"credential", a.id>>
    <3>1. f[1] # "code" /\ f[2] = a.id
      OBVIOUS
    <3>2. Keeps(t, f)
      BY <2>3
    <3> HIDE DEF f
    <3>3. PICK v \in HeldIn(t) : Credential[v] = a.id
      BY <3>1, <3>2 DEF Keeps
    <3> QED BY <2>3, <3>3, StoredAreRead
  <2>7. \A q \in StoredPasskeys(t) : q.id = a.id =>
          q \in Offered(t, ask, a.rp) /\ q \notin Offered(t, [ask EXCEPT !.rp = <<>>], "elsewhere")
    <3> TAKE q \in StoredPasskeys(t)
    <3> HAVE q.id = a.id
    <3> QED BY <2>4, <2>5, OfferedAre
  <2>8. \A r, host : Offered(t, r, host) \subseteq StoredPasskeys(t)
    BY DEF Offered
  <2>9. ASSUME NEW q \in StoredPasskeys(t), q.id = a.id
        PROVE  SiteAccepts(a, verified, "asked", SignIn(q, verified, "asked"))
    BY <2>4, <2>5, <2>9, AnswerIsAccepted
  <2> QED BY <2>6, <2>7, <2>8, <2>9 DEF t
<1> QED BY <1>1, InvHolds, PTL
=============================================================================

------------------------- MODULE PrefixSearchProofs -------------------------
(***************************************************************************)
(* What a search finds, for every collection, every query, every size of   *)
(* the buckets, every k and every threshold of the scan of a level: the    *)
(* words it looks up, the range of terms, the range of completions, and    *)
(* the strings it returns.  The parts of the module, each on those before: *)
(*                                                                         *)
(*   - strings and their order, and sequences of numbers;                  *)
(*   - the two front-coded dictionaries, as functions of the sorted        *)
(*     strings they were built from (TermsLocated, ListsLocated);          *)
(*   - the trie: what its builder makes of the completions, and what a     *)
(*     search of it finds (TrieGrown, TrieLocated);                        *)
(*   - the steps of a query and their inductive invariant, SearchInv.      *)
(***************************************************************************)
EXTENDS PrefixSearch, TLAPS, WellFoundedInduction, FiniteSetTheorems, SequenceTheorems

Texts == Seq(Nat)

(***************************************************************************)
(* Numbers: a set of them has a least one, a bounded one has a greatest,   *)
(* and a set that goes on from each to the next has them all.              *)
(***************************************************************************)
LEMMA LeastExists ==
    ASSUME NEW S \in SUBSET Nat, S # {}
    PROVE  \E x \in S : \A y \in S : x <= y
<1> DEFINE R == {ss \in Nat \X Nat : ss[1] < ss[2]}
<1>1. IsWellFoundedOn(R, Nat)
  BY NatLessThanWellFounded, Zenon DEF OpToRel
<1>2. PICK b \in S : \A c \in S : <<c, b>> \notin R
  <2> HIDE DEF R
  <2> QED  BY <1>1, WFMin, Zenon
<1>3. ASSUME NEW c \in S
      PROVE  b <= c
  <2>1. <<c, b>> \notin R
    BY <1>2, Zenon
  <2> QED  BY <2>1
<1> QED  BY <1>3, Zenon

LEMMA MinIs ==
    ASSUME NEW S \in SUBSET Nat, S # {}
    PROVE  Min(S) \in S /\ \A c \in S : Min(S) <= c
BY LeastExists, Zenon DEF Min

LEMMA MaxIs ==
    ASSUME NEW n \in Nat, NEW S \in SUBSET (0 .. n), S # {}
    PROVE  Max(S) \in S /\ \A c \in S : c <= Max(S)
<1> DEFINE T == {n - b : b \in S}
<1>1. \A b \in S : b \in Nat /\ b <= n /\ n - b \in Nat
  OBVIOUS
<1>2. T \in SUBSET Nat /\ T # {}
  BY <1>1
<1>3. PICK l \in T : \A c \in T : l <= c
  <2> HIDE DEF T
  <2> QED  BY <1>2, LeastExists
<1>4. PICK b \in S : l = n - b
  BY <1>3
<1>5. ASSUME NEW c \in S
      PROVE  b >= c
  <2>1. n - b <= n - c
    BY <1>3, <1>4
  <2> QED  BY <2>1, <1>1
<1>6. Max(S) \in S /\ \A c \in S : Max(S) >= c
  BY <1>5, Zenon DEF Max
<1> QED  BY <1>6, <1>1

LEMMA MaxOfTwo ==
    ASSUME NEW a \in Int, NEW b \in Int
    PROVE  Max({a, b}) = IF a >= b THEN a ELSE b
<1>1. \E x \in {a, b} : \A y \in {a, b} : x >= y
  OBVIOUS
<1>2. Max({a, b}) \in {a, b} /\ \A y \in {a, b} : Max({a, b}) >= y
  BY <1>1, Zenon DEF Max
<1> QED  BY <1>2

LEMMA MinOfTwo ==
    ASSUME NEW a \in Int, NEW b \in Int
    PROVE  Min({a, b}) = IF a <= b THEN a ELSE b
<1>1. \E x \in {a, b} : \A y \in {a, b} : x =< y
  OBVIOUS
<1>2. Min({a, b}) \in {a, b} /\ \A y \in {a, b} : Min({a, b}) =< y
  BY <1>1, Zenon DEF Min
<1> QED  BY <1>2

LEMMA Everywhere ==
    ASSUME NEW S, 0 \in S, \A n \in Nat : n \in S => n + 1 \in S
    PROVE  Nat \subseteq S
<1> DEFINE T == {n \in Nat : n \notin S}
<1> SUFFICES ASSUME T # {} PROVE FALSE
  OBVIOUS
<1>1. PICK l \in T : \A c \in T : l <= c
  <2>1. T \in SUBSET Nat
    OBVIOUS
  <2> HIDE DEF T
  <2> QED  BY <2>1, LeastExists
<1>2. l # 0 /\ l \in Nat /\ l \notin S
  BY <1>1
<1>3. l - 1 \in Nat /\ l - 1 \notin T
  BY <1>1, <1>2
<1>4. l - 1 \in S
  BY <1>3
<1>5. (l - 1) + 1 \in S
  BY <1>3, <1>4
<1> QED  BY <1>2, <1>5

LEMMA UpTo ==
    ASSUME NEW n \in Nat, NEW S, 0 \in S, \A i \in 0 .. n - 1 : i \in S => i + 1 \in S
    PROVE  0 .. n \subseteq S
<1> DEFINE T == {i \in Nat : i <= n => i \in S}
<1>1. 0 \in T
  OBVIOUS
<1>2. ASSUME NEW i \in Nat, i \in T PROVE i + 1 \in T
  <2>1. CASE i + 1 <= n
    BY <1>2, <2>1
  <2>2. CASE ~(i + 1 <= n)
    BY <2>2
  <2> QED  BY <2>1, <2>2
<1>3. Nat \subseteq T
  <2> HIDE DEF T
  <2> QED  BY <1>1, <1>2, Everywhere
<1> QED  BY <1>3

-----------------------------------------------------------------------------
(***************************************************************************)
(* The longest common prefix ends where the strings differ, or one ends.   *)
(***************************************************************************)
LEMMA SameStart ==
    ASSUME NEW s \in Texts, NEW t \in Texts, NEW n \in Nat, n <= Len(s), n <= Len(t)
    PROVE  SubSeq(s, 1, n) = SubSeq(t, 1, n) <=> \A i \in 1 .. n : s[i] = t[i]
<1>1. SubSeq(s, 1, n) \in Texts /\ SubSeq(t, 1, n) \in Texts
  BY DEF Texts
<1>2. Len(SubSeq(s, 1, n)) = n /\ Len(SubSeq(t, 1, n)) = n
  BY DEF Texts
<1>3. \A i \in 1 .. n : SubSeq(s, 1, n)[i] = s[i] /\ SubSeq(t, 1, n)[i] = t[i]
  BY DEF Texts
<1> QED  BY <1>1, <1>2, <1>3 DEF Texts

LEMMA LenText == \A s \in Texts : Len(s) \in Nat /\ DOMAIN s = 1 .. Len(s)
BY DEF Texts

LEMMA LcpIs ==
    ASSUME NEW s \in Texts, NEW t \in Texts
    PROVE  /\ Lcp(s, t) \in Nat /\ Lcp(s, t) <= Len(s) /\ Lcp(s, t) <= Len(t)
           /\ \A i \in 1 .. Lcp(s, t) : s[i] = t[i]
           /\ Lcp(s, t) < Len(s) /\ Lcp(s, t) < Len(t) => s[Lcp(s, t) + 1] # t[Lcp(s, t) + 1]
<1> DEFINE m == Min({Len(s), Len(t)})
           S == {n \in 0 .. m : SubSeq(s, 1, n) = SubSeq(t, 1, n)}
           l == Lcp(s, t)
<1>1. Len(s) \in Nat /\ Len(t) \in Nat
  BY LenText
<1>2. m \in Nat /\ m <= Len(s) /\ m <= Len(t) /\ (m = Len(s) \/ m = Len(t))
  BY <1>1, MinOfTwo
<1> HIDE DEF m
<1>3. \A n \in 0 .. m : SubSeq(s, 1, n) = SubSeq(t, 1, n) <=> \A i \in 1 .. n : s[i] = t[i]
  BY <1>1, <1>2, SameStart
<1>4. 0 \in S
  BY <1>2, <1>3
<1>5. l = Max(S)
  BY DEF Lcp, m
<1>6. l \in S /\ \A c \in S : c <= l
  <2>1. S \in SUBSET (0 .. m)
    OBVIOUS
  <2> HIDE DEF S, l
  <2> QED  BY <2>1, <1>2, <1>4, <1>5, MaxIs
<1> HIDE DEF l
<1>7. l \in Nat /\ l <= m /\ \A i \in 1 .. l : s[i] = t[i]
  BY <1>2, <1>3, <1>6
<1>8. ASSUME l < Len(s), l < Len(t), s[l + 1] = t[l + 1]
      PROVE  FALSE
  <2>1. l + 1 \in 0 .. m
    BY <1>2, <1>7, <1>8, <1>1
  <2>2. \A i \in 1 .. l + 1 : s[i] = t[i]
    BY <1>7, <1>8
  <2>3. l + 1 \in S
    BY <2>1, <2>2, <1>3
  <2> QED  BY <2>3, <1>6, <1>7
<1> QED  BY <1>2, <1>7, <1>8, <1>1 DEF l

-----------------------------------------------------------------------------
(***************************************************************************)
(* One string is before another if it ends, or goes on with less, where    *)
(* the two part.                                                           *)
(***************************************************************************)
Parts(s, t, l) ==
    /\ l <= Len(s) /\ l < Len(t)
    /\ \A i \in 1 .. l : s[i] = t[i]
    /\ l = Len(s) \/ s[l + 1] < t[l + 1]

LEMMA PartsBefore ==
    ASSUME NEW s \in Texts, NEW t \in Texts, NEW l \in Nat, Parts(s, t, l)
    PROVE  Before(s, t)
<1> DEFINE m == Lcp(s, t)
<1>1. Len(s) \in Nat /\ Len(t) \in Nat
  BY LenText
<1>2. /\ m \in Nat /\ m <= Len(s) /\ m <= Len(t)
      /\ \A i \in 1 .. m : s[i] = t[i]
      /\ m < Len(s) /\ m < Len(t) => s[m + 1] # t[m + 1]
  BY LcpIs
<1>3. Before(s, t) <=> m < Len(t) /\ (m = Len(s) \/ (m < Len(s) /\ s[m + 1] < t[m + 1]))
  BY DEF Before
<1> HIDE DEF m
<1>4. \A i \in 1 .. Len(s) : s[i] \in Nat
  BY DEF Texts
<1>5. \A i \in 1 .. Len(t) : t[i] \in Nat
  BY DEF Texts
<1>6. /\ l <= Len(s) /\ l < Len(t) /\ \A i \in 1 .. l : s[i] = t[i]
      /\ l = Len(s) \/ s[l + 1] < t[l + 1]
  BY DEF Parts
<1>7. ASSUME m < l PROVE FALSE
  <2>1. m + 1 \in 1 .. l
    BY <1>2, <1>7
  <2>2. s[m + 1] = t[m + 1]
    BY <2>1, <1>6
  <2>3. m < Len(s) /\ m < Len(t)
    BY <1>1, <1>2, <1>6, <1>7
  <2> QED  BY <2>2, <2>3, <1>2
<1>8. ASSUME l < m PROVE FALSE
  <2>1. l + 1 \in 1 .. m
    BY <1>2, <1>8
  <2>2. s[l + 1] = t[l + 1]
    BY <2>1, <1>2
  <2>3. l + 1 \in 1 .. Len(s)
    BY <1>1, <1>2, <1>8
  <2>4. s[l + 1] \in Nat
    BY <2>3, <1>4
  <2> QED  BY <2>2, <2>3, <2>4, <1>6, <1>1
<1>9. m = l
  BY <1>2, <1>7, <1>8
<1> QED  BY <1>1, <1>3, <1>6, <1>9

LEMMA BeforeParts ==
    ASSUME NEW s \in Texts, NEW t \in Texts, Before(s, t)
    PROVE  Lcp(s, t) \in Nat /\ Parts(s, t, Lcp(s, t))
BY LcpIs DEF Before, Parts

LEMMA NotBeforeItself ==
    ASSUME NEW s \in Texts
    PROVE  ~Before(s, s)
<1> SUFFICES ASSUME Before(s, s) PROVE FALSE
  OBVIOUS
<1>1. PICK l \in Nat : Parts(s, s, l)
  BY BeforeParts
<1>2. Len(s) \in Nat /\ \A i \in 1 .. Len(s) : s[i] \in Nat
  BY DEF Texts
<1>3. l < Len(s) /\ s[l + 1] < s[l + 1]
  BY <1>1, <1>2 DEF Parts
<1>4. l + 1 \in 1 .. Len(s)
  BY <1>2, <1>3
<1>5. s[l + 1] \in Nat
  BY <1>2, <1>4
<1> QED  BY <1>3, <1>5

LEMMA BeforeTransitive ==
    ASSUME NEW s \in Texts, NEW t \in Texts, NEW u \in Texts, Before(s, t), Before(t, u)
    PROVE  Before(s, u)
<1>1. PICK l \in Nat : Parts(s, t, l)
  BY BeforeParts
<1>2. PICK m \in Nat : Parts(t, u, m)
  BY BeforeParts
<1>3. Len(s) \in Nat /\ Len(t) \in Nat /\ Len(u) \in Nat
  BY LenText
<1>4. /\ \A i \in 1 .. Len(s) : s[i] \in Nat
      /\ \A i \in 1 .. Len(t) : t[i] \in Nat
      /\ \A i \in 1 .. Len(u) : u[i] \in Nat
  BY DEF Texts
<1>5. /\ l <= Len(s) /\ l < Len(t) /\ \A i \in 1 .. l : s[i] = t[i]
      /\ l = Len(s) \/ s[l + 1] < t[l + 1]
  BY <1>1 DEF Parts
<1>6. /\ m <= Len(t) /\ m < Len(u) /\ \A i \in 1 .. m : t[i] = u[i]
      /\ m = Len(t) \/ t[m + 1] < u[m + 1]
  BY <1>2 DEF Parts
<1>7. CASE l < m
  <2>1. \A i \in 1 .. l : s[i] = u[i]
    BY <1>5, <1>6, <1>7
  <2>2. t[l + 1] = u[l + 1]
    BY <1>6, <1>7
  <2>3. Parts(s, u, l)
    BY <2>1, <2>2, <1>3, <1>5, <1>6, <1>7 DEF Parts
  <2> QED  BY <2>3, PartsBefore
<1>8. CASE m < l
  <2>1. \A i \in 1 .. m : s[i] = u[i]
    BY <1>5, <1>6, <1>8
  <2>2. s[m + 1] = t[m + 1]
    BY <1>5, <1>8
  <2>3. m # Len(t)
    BY <1>3, <1>5, <1>8
  <2>4. Parts(s, u, m)
    BY <2>1, <2>2, <2>3, <1>3, <1>5, <1>6, <1>8 DEF Parts
  <2> QED  BY <2>4, PartsBefore
<1>9. CASE l = m
  <2>1. \A i \in 1 .. l : s[i] = u[i]
    BY <1>5, <1>6, <1>9
  <2>2. t[l + 1] < u[l + 1]
    BY <1>3, <1>5, <1>6, <1>9
  <2>3. l = Len(s) \/ s[l + 1] < u[l + 1]
    <3>1. CASE l < Len(s)
      <4>1. l + 1 \in 1 .. Len(s) /\ l + 1 \in 1 .. Len(t) /\ l + 1 \in 1 .. Len(u)
        BY <3>1, <1>3, <1>5, <1>6, <1>9
      <4>2. s[l + 1] \in Nat /\ t[l + 1] \in Nat /\ u[l + 1] \in Nat
        BY <4>1, <1>4
      <4>3. s[l + 1] < t[l + 1]
        BY <3>1, <1>3, <1>5
      <4> QED  BY <4>2, <4>3, <2>2
    <3> QED  BY <3>1, <1>3, <1>5
  <2>4. Parts(s, u, l)
    BY <2>1, <2>3, <1>5, <1>6, <1>9 DEF Parts
  <2> QED  BY <2>4, PartsBefore
<1> QED  BY <1>7, <1>8, <1>9

LEMMA OneIsBefore ==
    ASSUME NEW s \in Texts, NEW t \in Texts, s # t
    PROVE  Before(s, t) \/ Before(t, s)
<1> DEFINE l == Lcp(s, t)
<1>1. Len(s) \in Nat /\ Len(t) \in Nat
  BY LenText
<1>2. /\ l \in Nat /\ l <= Len(s) /\ l <= Len(t)
      /\ \A i \in 1 .. l : s[i] = t[i]
      /\ l < Len(s) /\ l < Len(t) => s[l + 1] # t[l + 1]
  BY LcpIs
<1> HIDE DEF l
<1>3. ASSUME l = Len(s), l = Len(t) PROVE FALSE
  <2>1. s = [i \in 1 .. Len(s) |-> s[i]] /\ t = [i \in 1 .. Len(t) |-> t[i]]
    BY DEF Texts
  <2>2. \A i \in 1 .. Len(s) : s[i] = t[i]
    BY <1>2, <1>3
  <2> QED  BY <2>1, <2>2, <1>3
<1>4. CASE l = Len(s) /\ l < Len(t)
  <2>1. Parts(s, t, l)
    BY <1>2, <1>4 DEF Parts
  <2> QED  BY <2>1, <1>2, PartsBefore
<1>5. CASE l = Len(t) /\ l < Len(s)
  <2>1. Parts(t, s, l)
    BY <1>2, <1>5 DEF Parts
  <2> QED  BY <2>1, <1>2, PartsBefore
<1>6. CASE l < Len(s) /\ l < Len(t)
  <2>1. l + 1 \in 1 .. Len(s) /\ l + 1 \in 1 .. Len(t)
    BY <1>6, <1>1, <1>2
  <2>2. s[l + 1] \in Nat /\ t[l + 1] \in Nat
    BY <2>1 DEF Texts
  <2>3. s[l + 1] < t[l + 1] \/ t[l + 1] < s[l + 1]
    BY <2>2, <1>2, <1>6
  <2>4. Parts(s, t, l) \/ Parts(t, s, l)
    BY <2>3, <1>2, <1>6 DEF Parts
  <2> QED  BY <2>4, <1>2, PartsBefore
<1> QED  BY <1>1, <1>2, <1>3, <1>4, <1>5, <1>6

LEMMA NotBoth ==
    ASSUME NEW s \in Texts, NEW t \in Texts, Before(s, t)
    PROVE  ~Before(t, s) /\ s # t
BY NotBeforeItself, BeforeTransitive

(***************************************************************************)
(* What the signs of the comparisons say.                                  *)
(***************************************************************************)
LEMMA CompareIs ==
    ASSUME NEW s \in Texts, NEW t \in Texts
    PROVE  /\ Compare(s, t) \in -1 .. 1
           /\ Compare(s, t) = 0 <=> s = t
           /\ Compare(s, t) < 0 <=> Before(s, t)
           /\ Compare(s, t) <= 0 <=> s = t \/ Before(s, t)
           /\ Compare(s, t) > 0 <=> Before(t, s)
           /\ Compare(s, t) >= 0 <=> s = t \/ Before(t, s)
<1>1. CASE s = t
  BY <1>1, NotBeforeItself DEF Compare
<1>2. CASE s # t /\ Before(s, t)
  <2>1. ~Before(t, s)
    BY <1>2, NotBoth
  <2> QED  BY <1>2, <2>1 DEF Compare
<1>3. CASE s # t /\ ~Before(s, t)
  <2>1. Before(t, s)
    BY <1>3, OneIsBefore
  <2> QED  BY <1>3, <2>1 DEF Compare
<1> QED  BY <1>1, <1>2, <1>3

\* The string begins with p.
Begins(s, p) == Len(p) <= Len(s) /\ \A i \in 1 .. Len(p) : s[i] = p[i]

LEMMA HeadIs ==
    ASSUME NEW s \in Texts, NEW p \in Texts
    PROVE  LET h == SubSeq(s, 1, Min({Len(s), Len(p)}))
           IN  /\ h \in Texts
               /\ Len(h) = IF Len(s) <= Len(p) THEN Len(s) ELSE Len(p)
               /\ \A i \in 1 .. Len(h) : h[i] = s[i]
<1> DEFINE m == Min({Len(s), Len(p)})
<1>1. Len(s) \in Nat /\ Len(p) \in Nat
  BY LenText
<1>2. m = IF Len(s) <= Len(p) THEN Len(s) ELSE Len(p)
  BY <1>1, MinOfTwo
<1> HIDE DEF m
<1>3. SubSeq(s, 1, m) \in Texts
  BY <1>1, <1>2 DEF Texts
<1>4. Len(SubSeq(s, 1, m)) = m /\ \A i \in 1 .. m : SubSeq(s, 1, m)[i] = s[i]
  BY <1>1, <1>2 DEF Texts
<1> QED  BY <1>2, <1>3, <1>4 DEF m

LEMMA TextsEqual ==
    ASSUME NEW s \in Texts, NEW t \in Texts, Len(s) = Len(t), \A i \in 1 .. Len(s) : s[i] = t[i]
    PROVE  s = t
BY DEF Texts

LEMMA CompareHeadIs ==
    ASSUME NEW s \in Texts, NEW p \in Texts
    PROVE  /\ CompareHead(s, p) \in -1 .. 1
           /\ CompareHead(s, p) = 0 <=> Begins(s, p)
           /\ CompareHead(s, p) < 0 <=> Before(s, p)
           /\ Begins(s, p) => ~Before(s, p)
<1> DEFINE h == SubSeq(s, 1, Min({Len(s), Len(p)}))
<1>1. Len(s) \in Nat /\ Len(p) \in Nat
  BY LenText
<1>2. /\ h \in Texts
      /\ Len(h) = IF Len(s) <= Len(p) THEN Len(s) ELSE Len(p)
      /\ \A i \in 1 .. Len(h) : h[i] = s[i]
  BY HeadIs
<1>3. CompareHead(s, p) = Compare(h, p)
  BY DEF CompareHead
<1> HIDE DEF h
<1>4. h = p <=> Begins(s, p)
  <2>1. ASSUME h = p PROVE Begins(s, p)
    BY <2>1, <1>1, <1>2 DEF Begins
  <2>2. ASSUME Begins(s, p) PROVE h = p
    <3>1. Len(h) = Len(p) /\ \A i \in 1 .. Len(h) : h[i] = p[i]
      BY <2>2, <1>1, <1>2 DEF Begins
    <3> QED  BY <3>1, <1>2, TextsEqual
  <2> QED  BY <2>1, <2>2
<1>5. Before(h, p) => Before(s, p)
  <2> SUFFICES ASSUME Before(h, p) PROVE Before(s, p)
    OBVIOUS
  <2>1. PICK l \in Nat : Parts(h, p, l)
    BY <1>2, BeforeParts
  <2>2. /\ l <= Len(h) /\ l < Len(p) /\ \A i \in 1 .. l : h[i] = p[i]
        /\ l = Len(h) \/ h[l + 1] < p[l + 1]
    BY <2>1 DEF Parts
  <2>3. Parts(s, p, l)
    <3>1. CASE l = Len(h)
      BY <3>1, <2>2, <1>1, <1>2 DEF Parts
    <3>2. CASE l # Len(h)
      <4>1. l + 1 \in 1 .. Len(h)
        BY <3>2, <2>2, <1>1, <1>2
      <4>2. h[l + 1] = s[l + 1]
        BY <4>1, <1>2
      <4> QED  BY <4>1, <4>2, <3>2, <2>2, <1>1, <1>2 DEF Parts
    <3> QED  BY <3>1, <3>2
  <2> QED  BY <2>3, PartsBefore
<1>6. Before(s, p) => Before(h, p)
  <2> SUFFICES ASSUME Before(s, p) PROVE Before(h, p)
    OBVIOUS
  <2>1. PICK l \in Nat : Parts(s, p, l)
    BY BeforeParts
  <2>2. /\ l <= Len(s) /\ l < Len(p) /\ \A i \in 1 .. l : s[i] = p[i]
        /\ l = Len(s) \/ s[l + 1] < p[l + 1]
    BY <2>1 DEF Parts
  <2>3. Parts(h, p, l)
    <3>1. CASE l = Len(s)
      BY <3>1, <2>2, <1>1, <1>2 DEF Parts
    <3>2. CASE l # Len(s)
      <4>1. l + 1 \in 1 .. Len(h) /\ l <= Len(h)
        BY <3>2, <2>2, <1>1, <1>2
      <4>2. h[l + 1] = s[l + 1]
        BY <4>1, <1>2
      <4> QED  BY <4>1, <4>2, <3>2, <2>2, <1>1, <1>2 DEF Parts
    <3> QED  BY <3>1, <3>2
  <2> QED  BY <2>3, <1>2, PartsBefore
<1>7. h = p => ~Before(s, p)
  BY <1>6, NotBeforeItself
<1> QED  BY <1>2, <1>3, <1>4, <1>5, <1>6, <1>7, CompareIs

-----------------------------------------------------------------------------
(***************************************************************************)
(* Against the strings with a prefix, sorted strings come in three runs:   *)
(* those before, those that begin with it, and those behind.               *)
(***************************************************************************)
LEMMA Between ==
    ASSUME NEW p \in Texts, NEW s \in Texts, NEW t \in Texts,
           Before(p, s), Before(s, t), Begins(t, p)
    PROVE  Begins(s, p)
<1>1. PICK l \in Nat : Parts(p, s, l)
  BY BeforeParts
<1>2. PICK m \in Nat : Parts(s, t, m)
  BY BeforeParts
<1>3. Len(p) \in Nat /\ Len(s) \in Nat /\ Len(t) \in Nat
  BY LenText
<1>4. \A i \in 1 .. Len(p) : p[i] \in Nat
  BY DEF Texts
<1>5. \A i \in 1 .. Len(s) : s[i] \in Nat
  BY DEF Texts
<1>6. /\ l <= Len(p) /\ l < Len(s) /\ \A i \in 1 .. l : p[i] = s[i]
      /\ l = Len(p) \/ p[l + 1] < s[l + 1]
  BY <1>1 DEF Parts
<1>7. /\ m <= Len(s) /\ m < Len(t) /\ \A i \in 1 .. m : s[i] = t[i]
      /\ m = Len(s) \/ s[m + 1] < t[m + 1]
  BY <1>2 DEF Parts
<1>8. Len(p) <= Len(t) /\ \A i \in 1 .. Len(p) : t[i] = p[i]
  BY DEF Begins
<1>9. CASE l = Len(p)
  BY <1>3, <1>6, <1>9 DEF Begins
<1>10. CASE l < Len(p)
  <2>1. l + 1 \in 1 .. Len(p) /\ l + 1 \in 1 .. Len(s)
    BY <1>3, <1>6, <1>10
  <2>2. p[l + 1] \in Nat /\ s[l + 1] \in Nat /\ t[l + 1] = p[l + 1] /\ p[l + 1] < s[l + 1]
    BY <2>1, <1>4, <1>5, <1>6, <1>8, <1>10
  <2>3. CASE m > l
    <3>1. l + 1 \in 1 .. m
      BY <2>3
    <3>2. s[l + 1] = t[l + 1]
      BY <3>1, <1>7
    <3> QED  BY <3>2, <2>2
  <2>4. CASE m = l
    <3>1. s[l + 1] < t[l + 1]
      BY <2>4, <1>6, <1>7
    <3> QED  BY <3>1, <2>2
  <2>5. CASE m < l
    <3>1. m + 1 \in 1 .. l /\ m + 1 \in 1 .. Len(p)
      BY <2>5, <1>10, <1>3
    <3>2. p[m + 1] = s[m + 1] /\ t[m + 1] = p[m + 1] /\ p[m + 1] \in Nat
      BY <3>1, <1>6, <1>8, <1>4
    <3>3. s[m + 1] < t[m + 1]
      BY <2>5, <1>6, <1>7, <1>3
    <3> QED  BY <3>2, <3>3
  <2> QED  BY <2>3, <2>4, <2>5
<1> QED  BY <1>3, <1>6, <1>9, <1>10

LEMMA ClassesInOrder ==
    ASSUME NEW p \in Texts, NEW s \in Texts, NEW t \in Texts, Before(s, t)
    PROVE  CompareHead(s, p) <= CompareHead(t, p)
<1>1. /\ CompareHead(s, p) \in -1 .. 1
      /\ CompareHead(s, p) = 0 <=> Begins(s, p)
      /\ CompareHead(s, p) < 0 <=> Before(s, p)
  BY CompareHeadIs
<1>2. /\ CompareHead(t, p) \in -1 .. 1
      /\ CompareHead(t, p) = 0 <=> Begins(t, p)
      /\ CompareHead(t, p) < 0 <=> Before(t, p)
  BY CompareHeadIs
<1>3. CASE Before(t, p)
  <2>1. Before(s, p)
    BY <1>3, BeforeTransitive
  <2> QED  BY <2>1, <1>1, <1>2
<1>4. CASE ~Before(t, p) /\ Begins(t, p)
  <2>1. CASE Before(s, p)
    BY <2>1, <1>4, <1>1, <1>2
  <2>2. CASE ~Before(s, p)
    <3>1. Begins(s, p)
      <4>1. CASE s = p
        BY <4>1, LenText DEF Begins
      <4>2. CASE s # p
        <5>1. Before(p, s)
          BY <4>2, <2>2, OneIsBefore
        <5> QED  BY <5>1, <1>4, Between
      <4> QED  BY <4>1, <4>2
    <3> QED  BY <3>1, <2>2, <1>4, <1>1, <1>2
  <2> QED  BY <2>1, <2>2
<1>5. CASE ~Before(t, p) /\ ~Begins(t, p)
  BY <1>5, <1>1, <1>2
<1> QED  BY <1>3, <1>4, <1>5

(***************************************************************************)
(* Where the loop that halves ends.                                        *)
(***************************************************************************)
\* A set of positions goes up to a bound.
UpToBound(lo, hi, right, c) == \A b \in lo .. hi : b \in right <=> b < c

LEMMA HalvingEnds ==
    ASSUME NEW lo \in Nat, NEW hi \in Int, hi >= lo - 1, NEW right, NEW c \in lo .. hi + 1,
           UpToBound(lo, hi, right, c)
    PROVE  Halving(lo, hi, right) = c
<1> DEFINE D == (lo .. hi + 1) \X (lo - 1 .. hi)
           Eq(A) == A = [s \in D |->
                            IF s[1] > s[2] THEN s[1]
                            ELSE IF (s[1] + s[2]) \div 2 \in right
                            THEN A[<<(s[1] + s[2]) \div 2 + 1, s[2]>>]
                            ELSE A[<<s[1], (s[1] + s[2]) \div 2 - 1>>]]
           Clip(l, h) == IF l > h \/ c < l THEN l ELSE IF c > h + 1 THEN h + 1 ELSE c
           W == [s \in D |-> Clip(s[1], s[2])]
           F == CHOOSE A : Eq(A)
<1>1. \A l \in lo .. hi + 1, h \in lo - 1 .. hi :
        ~(l > h) => /\ (l + h) \div 2 \in l .. h
                    /\ (l + h) \div 2 + 1 \in lo .. hi + 1
                    /\ (l + h) \div 2 - 1 \in lo - 1 .. hi
                    /\ (l + h) \div 2 \in right <=> (l + h) \div 2 < c
  <2> SUFFICES ASSUME NEW l \in lo .. hi + 1, NEW h \in lo - 1 .. hi, ~(l > h)
               PROVE  /\ (l + h) \div 2 \in l .. h
                      /\ (l + h) \div 2 + 1 \in lo .. hi + 1
                      /\ (l + h) \div 2 - 1 \in lo - 1 .. hi
                      /\ (l + h) \div 2 \in right <=> (l + h) \div 2 < c
    OBVIOUS
  <2>1. (l + h) \div 2 \in l .. h
    OBVIOUS
  <2> DEFINE m == (l + h) \div 2
  <2> HIDE DEF m
  <2>2. m \in lo .. hi
    BY <2>1 DEF m
  <2>3. m \in right <=> m < c
    BY <2>2 DEF UpToBound
  <2> QED  BY <2>1, <2>2, <2>3 DEF m
<1>2. Eq(W)
  <2>1. ASSUME NEW l \in lo .. hi + 1, NEW h \in lo - 1 .. hi
        PROVE  Clip(l, h) = IF l > h THEN l
                            ELSE IF (l + h) \div 2 \in right THEN W[<<(l + h) \div 2 + 1, h>>]
                            ELSE W[<<l, (l + h) \div 2 - 1>>]
    <3>1. CASE l > h
      BY <3>1
    <3>2. CASE ~(l > h)
      <4> DEFINE m == (l + h) \div 2
      <4>1. m \in l .. h /\ m + 1 \in lo .. hi + 1 /\ m - 1 \in lo - 1 .. hi
            /\ (m \in right <=> m < c)
        BY <3>2, <1>1
      <4> HIDE DEF m
      <4>2. W[<<m + 1, h>>] = Clip(m + 1, h) /\ W[<<l, m - 1>>] = Clip(l, m - 1)
        BY <4>1
      <4>3. CASE m \in right
        <5>1. Clip(l, h) = Clip(m + 1, h)
          BY <4>3, <4>1, <3>2
        <5> QED  BY <5>1, <4>2, <4>3, <3>2 DEF m
      <4>4. CASE m \notin right
        <5>1. Clip(l, h) = Clip(l, m - 1)
          BY <4>4, <4>1, <3>2
        <5> QED  BY <5>1, <4>2, <4>4, <3>2 DEF m
      <4> QED  BY <4>3, <4>4
    <3> QED  BY <3>1, <3>2
  <2> QED  BY <2>1, Zenon
<1>3. Eq(F)
  <2> HIDE DEF Eq, W
  <2> QED  BY <1>2, Zenon
<1>4. Halving(lo, hi, right) = F[<<lo, hi>>]
  BY DEF Halving
<1> HIDE DEF F
<1>5. \A l \in lo .. hi + 1, h \in lo - 1 .. hi :
        F[<<l, h>>] = IF l > h THEN l
                  ELSE IF (l + h) \div 2 \in right THEN F[<<(l + h) \div 2 + 1, h>>]
                  ELSE F[<<l, (l + h) \div 2 - 1>>]
  BY <1>3
<1> DEFINE S == {n \in Nat : \A l \in lo .. hi + 1, h \in lo - 1 .. hi :
                                h + 1 - l <= n => F[<<l, h>>] = Clip(l, h)}
<1>6. 0 \in S
  <2>1. ASSUME NEW l \in lo .. hi + 1, NEW h \in lo - 1 .. hi, h + 1 - l <= 0
        PROVE  F[<<l, h>>] = Clip(l, h)
    <3>1. l > h
      BY <2>1
    <3> QED  BY <3>1, <1>5
  <2> HIDE DEF Clip
  <2> QED  BY <2>1
<1>7. ASSUME NEW n \in Nat, n \in S PROVE n + 1 \in S
  <2> SUFFICES ASSUME NEW l \in lo .. hi + 1, NEW h \in lo - 1 .. hi, h + 1 - l <= n + 1
               PROVE  F[<<l, h>>] = Clip(l, h)
    OBVIOUS
  <2>1. CASE l > h
    BY <2>1, <1>5
  <2>2. CASE ~(l > h)
    <3> DEFINE m == (l + h) \div 2
    <3>1. m \in l .. h /\ m + 1 \in lo .. hi + 1 /\ m - 1 \in lo - 1 .. hi
          /\ (m \in right <=> m < c)
      BY <2>2, <1>1
    <3>2. F[<<l, h>>] = IF m \in right THEN F[<<m + 1, h>>] ELSE F[<<l, m - 1>>]
      BY <2>2, <1>5
    <3> HIDE DEF m
    <3>3. h + 1 - (m + 1) <= n /\ (m - 1) + 1 - l <= n
      BY <3>1
    <3>4. F[<<m + 1, h>>] = Clip(m + 1, h) /\ F[<<l, m - 1>>] = Clip(l, m - 1)
      <4> HIDE DEF Clip
      <4> QED  BY <3>1, <3>3, <1>7
    <3>5. CASE m \in right
      <4>1. Clip(l, h) = Clip(m + 1, h)
        BY <3>5, <3>1, <2>2
      <4> QED  BY <4>1, <3>2, <3>4, <3>5
    <3>6. CASE m \notin right
      <4>1. Clip(l, h) = Clip(l, m - 1)
        BY <3>6, <3>1, <2>2
      <4> QED  BY <4>1, <3>2, <3>4, <3>6
    <3> QED  BY <3>5, <3>6
  <2> QED  BY <2>1, <2>2
<1>8. Nat \subseteq S
  <2> HIDE DEF S
  <2> QED  BY <1>6, <1>7, Everywhere
<1>9. F[<<lo, hi>>] = Clip(lo, hi)
  <2>1. hi + 1 - lo \in Nat /\ lo \in lo .. hi + 1 /\ hi \in lo - 1 .. hi
    OBVIOUS
  <2> HIDE DEF Clip
  <2> QED  BY <2>1, <1>8
<1> QED  BY <1>4, <1>9

-----------------------------------------------------------------------------
(***************************************************************************)
(* The buckets of n strings.  Bucket b begins at At(b), counted from 0; a  *)
(* dictionary holds the first Held(n) strings and has lost those behind.   *)
(***************************************************************************)
At(b) == b * Span
Held(n) == IF n % Span = 0 THEN n - BucketSize ELSE n

LEMMA SpanIs == Span \in Nat \ {0} /\ Span = BucketSize + 1 /\ BucketSize \in Nat \ {0}
BY BucketSizeAssumption DEF Span

LEMMA DivisionBy ==
    ASSUME NEW x \in Nat
    PROVE  /\ x \div Span \in Nat /\ x % Span \in 0 .. Span - 1
           /\ At(x \div Span) + (x % Span) = x
<1>1. x \div Span \in Nat /\ x % Span \in 0 .. Span - 1
  BY SpanIs
<1>2. x = Span * (x \div Span) + (x % Span)
  BY SpanIs
<1> DEFINE q == x \div Span
           r == x % Span
<1> HIDE DEF q, r
<1>3. q \in Nat /\ x = Span * q + r /\ r \in Nat
  BY <1>1, <1>2 DEF q, r
<1>4. Span * q = q * Span /\ q * Span \in Nat
  BY <1>3, SpanIs
<1> QED  BY <1>1, <1>3, <1>4 DEF q, r, At

LEMMA AtIs ==
    ASSUME NEW b \in Nat
    PROVE  At(b) \in Nat /\ At(b + 1) = At(b) + Span /\ At(0) = 0
<1>1. At(b) \in Nat
  BY SpanIs DEF At
<1>2. (b + 1) * Span = b * Span + Span
  BY SpanIs
<1>3. 0 * Span = 0
  BY SpanIs
<1> QED  BY <1>1, <1>2, <1>3 DEF At

LEMMA AtAscends ==
    ASSUME NEW b \in Nat, NEW c \in Nat, b < c
    PROVE  At(b) + Span <= At(c)
<1> DEFINE d == c - (b + 1)
<1>1. d \in Nat /\ c = (b + 1) + d
  OBVIOUS
<1> HIDE DEF d
<1>2. ((b + 1) + d) * Span = (b + 1) * Span + d * Span
  BY <1>1, SpanIs
<1>3. d * Span \in Nat /\ (b + 1) * Span \in Nat
  BY <1>1, SpanIs
<1>4. At(c) = At(b + 1) + d * Span
  BY <1>1, <1>2 DEF At
<1>5. At(b) \in Nat /\ At(b + 1) = At(b) + Span
  BY AtIs
<1> QED  BY <1>3, <1>4, <1>5, SpanIs

LEMMA OneBucket ==
    ASSUME NEW b \in Nat, NEW c \in Nat, NEW x \in Nat,
           At(b) <= x, x < At(b) + Span, At(c) <= x, x < At(c) + Span
    PROVE  b = c
<1>1. At(b) \in Nat /\ At(c) \in Nat
  BY AtIs
<1>2. ~(b < c)
  BY <1>1, AtAscends, SpanIs
<1>3. ~(c < b)
  BY <1>1, AtAscends, SpanIs
<1> QED  BY <1>2, <1>3

LEMMA DividedBy ==
    ASSUME NEW b \in Nat, NEW i \in 0 .. Span - 1
    PROVE  (At(b) + i) \div Span = b /\ (At(b) + i) % Span = i
<1> DEFINE x == At(b) + i
           q == x \div Span
           r == x % Span
<1>1. x \in Nat /\ At(b) \in Nat /\ Span \in Nat \ {0}
  BY AtIs, SpanIs
<1> HIDE DEF x
<1>2. q \in Nat /\ r \in 0 .. Span - 1 /\ At(q) + r = x
  BY <1>1, DivisionBy
<1> HIDE DEF q, r
<1>3. At(q) \in Nat
  BY <1>2, AtIs
<1>4. At(q) <= x /\ x < At(q) + Span /\ At(b) <= x /\ x < At(b) + Span
  BY <1>1, <1>2, <1>3 DEF x
<1>5. q = b
  BY <1>1, <1>2, <1>4, OneBucket
<1>6. r = i
  BY <1>1, <1>2, <1>5 DEF x
<1> QED  BY <1>5, <1>6 DEF q, r, x

LEMMA Buckets ==
    ASSUME NEW n \in Nat \ {0}
    PROVE  LET last == NumBuckets(n) - 1
           IN  /\ last \in Nat
               /\ LastSize(n) \in 0 .. BucketSize
               /\ At(last) + 1 + LastSize(n) = Held(n)
               /\ Held(n) \in 1 .. n
               /\ Lost(n) = Held(n) + 1 .. n
<1> DEFINE q == n \div Span
           r == n % Span
           m == NumBuckets(n)
<1>1. q \in Nat /\ r \in 0 .. Span - 1 /\ At(q) + r = n
  BY DivisionBy
<1>2. Span \in Nat \ {0} /\ Span = BucketSize + 1 /\ BucketSize \in Nat \ {0}
  BY SpanIs
<1>3. m = (n + BucketSize) \div Span
  BY DEF NumBuckets
<1>4. LastSize(n) = IF r = 0 THEN 0 ELSE r - 1
  BY DEF LastSize
<1>5. Held(n) = IF r = 0 THEN n - BucketSize ELSE n
  BY DEF Held
<1>6. Lost(n) = IF r = 0 THEN n - BucketSize + 1 .. n ELSE {}
  BY DEF Lost
<1> HIDE DEF q, r, m
<1>9. At(q) \in Nat /\ At(q) = n - r
  <2>1. At(q) \in Nat
    BY <1>1, AtIs
  <2> QED  BY <2>1, <1>1
<1>7. CASE r = 0
  <2>1. q # 0
    <3>1. At(0) = 0
      BY AtIs
    <3> QED  BY <3>1, <1>1, <1>7
  <2>2. n + BucketSize = At(q) + BucketSize /\ BucketSize \in 0 .. Span - 1
    BY <1>9, <1>1, <1>2, <1>7
  <2>3. m = q
    BY <2>2, <1>1, <1>3, DividedBy
  <2>4. q - 1 \in Nat
    BY <2>1, <1>1
  <2>5. At((q - 1) + 1) = At(q - 1) + Span /\ At(q - 1) \in Nat
    BY <2>4, AtIs
  <2>6. (q - 1) + 1 = q
    BY <1>1
  <2>7. n = At(q - 1) + Span
    BY <2>5, <2>6, <1>9, <1>7, <1>1
  <2> DEFINE a == At(q - 1)
  <2> HIDE DEF a
  <2>8. a \in Nat /\ n = a + Span
    BY <2>5, <2>7 DEF a
  <2>9. a + 1 + 0 = n - BucketSize /\ n - BucketSize \in 1 .. n
    BY <2>8, <1>2
  <2> QED  BY <2>3, <2>4, <2>9, <1>2, <1>4, <1>5, <1>6, <1>7 DEF m, a
<1>8. CASE r # 0
  <2>1. At(q + 1) = At(q) + Span /\ At(q) \in Nat
    BY <1>1, AtIs
  <2> DEFINE a == At(q)
             c == At(q + 1)
  <2> HIDE DEF a, c
  <2>2. a \in Nat /\ c = a + Span /\ n = a + r
    BY <2>1, <1>1 DEF a, c
  <2>3. n + BucketSize = c + (r - 1) /\ r - 1 \in 0 .. Span - 1
    BY <2>2, <1>1, <1>2, <1>8
  <2>4. (At(q + 1) + (r - 1)) \div Span = q + 1
    <3>1. q + 1 \in Nat
      BY <1>1
    <3> QED  BY <3>1, <2>3, DividedBy
  <2>5. m = q + 1
    BY <2>3, <2>4, <1>3 DEF c
  <2>6. m - 1 = q
    BY <2>5, <1>1
  <2>7. a + 1 + (r - 1) = n /\ r - 1 \in 0 .. BucketSize
    BY <2>2, <1>1, <1>2, <1>8
  <2>8. {} = n + 1 .. n
    OBVIOUS
  <2> QED  BY <2>6, <2>7, <2>8, <1>1, <1>4, <1>5, <1>6, <1>8 DEF m, a
<1> QED  BY <1>7, <1>8

\* What the proofs use of the buckets of n strings.
LEMMA BucketsOf ==
    ASSUME NEW n \in Nat \ {0}, NEW b \in 0 .. NumBuckets(n) - 1
    PROVE  /\ NumBuckets(n) \in Nat
           /\ At(b) \in Nat /\ SizeOf(n, b) \in 0 .. BucketSize
           /\ At(b) + 1 + SizeOf(n, b) <= Held(n)
           /\ b < NumBuckets(n) - 1 => SizeOf(n, b) = BucketSize /\ At(b + 1) < Held(n)
           /\ b = NumBuckets(n) - 1 => At(b) + 1 + SizeOf(n, b) = Held(n)
<1> DEFINE last == NumBuckets(n) - 1
           s == LastSize(n)
<1>1. last \in Nat /\ s \in 0 .. BucketSize /\ At(last) + 1 + s = Held(n) /\ NumBuckets(n) \in Int
  <2>1. NumBuckets(n) \in Int
    BY SpanIs DEF NumBuckets
  <2> QED  BY <2>1, Buckets
<1>2. NumBuckets(n) \in Nat /\ b \in Nat
  BY <1>1
<1>3. At(b) \in Nat /\ At(b + 1) = At(b) + Span /\ At(last) \in Nat
  BY <1>1, <1>2, AtIs
<1>4. SizeOf(n, b) = IF b # last THEN BucketSize ELSE s
  BY DEF SizeOf
<1>5. Span = BucketSize + 1 /\ BucketSize \in Nat \ {0}
  BY SpanIs
<1> HIDE DEF last, s
<1>6. CASE b = last
  BY <1>1, <1>2, <1>3, <1>4, <1>6 DEF last
<1>7. CASE b # last
  <2>1. b < last
    BY <1>7, <1>1, <1>2 DEF last
  <2>2. At(b) + Span <= At(last)
    BY <2>1, <1>1, <1>2, AtAscends
  <2>3. Held(n) \in Int /\ At(last) < Held(n)
    BY <1>1, <1>3
  <2> QED  BY <2>1, <2>2, <2>3, <1>2, <1>3, <1>4, <1>5, <1>7 DEF last
<1> QED  BY <1>6, <1>7

-----------------------------------------------------------------------------
(***************************************************************************)
(* A dictionary holds its strings: what is decoded at a place in a bucket  *)
(* is the string the builder read for it.                                  *)
(***************************************************************************)
LEMMA Rebuilt ==
    ASSUME NEW s \in Texts, NEW t \in Texts
    PROVE  SubSeq(s, 1, Coded(s, t).lcp) \o Coded(s, t).rest = t
<1> DEFINE l == Lcp(t, s)
           a == SubSeq(s, 1, l)
           b == SubSeq(t, l + 1, Len(t))
<1>1. Len(s) \in Nat /\ Len(t) \in Nat
  BY LenText
<1>2. l \in Nat /\ l <= Len(t) /\ l <= Len(s) /\ \A i \in 1 .. l : t[i] = s[i]
  BY LcpIs
<1>3. Coded(s, t).lcp = l /\ Coded(s, t).rest = b
  BY DEF Coded
<1> HIDE DEF l
<1>4. a \in Texts /\ Len(a) = l /\ \A i \in 1 .. l : a[i] = s[i]
  BY <1>1, <1>2 DEF Texts
<1>5. b \in Texts /\ Len(b) = Len(t) - l /\ \A i \in 1 .. Len(t) - l : b[i] = t[l + i]
  <2> DEFINE p == l + 1
             q == Len(t)
  <2>1. p \in Int /\ q \in Int /\ q >= p - 1 /\ \A i \in p .. q : t[i] \in Nat
    BY <1>1, <1>2 DEF Texts
  <2> HIDE DEF p, q
  <2>2. /\ SubSeq(t, p, q) \in Seq(Nat)
        /\ Len(SubSeq(t, p, q)) = IF p <= q THEN q - p + 1 ELSE 0
        /\ \A i \in 1 .. q - p + 1 : SubSeq(t, p, q)[i] = t[p + i - 1]
    BY <2>1, SubSeqProperties
  <2>3. q - p + 1 = Len(t) - l /\ \A i \in 1 .. Len(t) - l : p + i - 1 = l + i
    BY <1>1, <1>2 DEF p, q
  <2>4. b = SubSeq(t, p, q)
    BY DEF p, q
  <2>5. Len(SubSeq(t, p, q)) = q - p + 1
    BY <2>1, <2>2
  <2> HIDE DEF b, p, q
  <2> QED  BY <2>2, <2>3, <2>4, <2>5 DEF Texts
<1> HIDE DEF a, b
<1>6. a \o b \in Texts /\ Len(a \o b) = Len(t)
  <2>1. a \in Seq(Nat) /\ b \in Seq(Nat)
    BY <1>4, <1>5 DEF Texts
  <2>2. a \o b \in Seq(Nat) /\ Len(a \o b) = Len(a) + Len(b)
    BY <2>1, ConcatProperties
  <2> QED  BY <2>2, <1>1, <1>2, <1>4, <1>5 DEF Texts
<1>9. \A i \in 1 .. Len(a) + Len(b) : (a \o b)[i] = IF i <= Len(a) THEN a[i] ELSE b[i - Len(a)]
  <2>1. a \in Seq(Nat) /\ b \in Seq(Nat)
    BY <1>4, <1>5 DEF Texts
  <2> QED  BY <2>1, ConcatProperties
<1>10. Len(a) + Len(b) = Len(t)
  BY <1>1, <1>2, <1>4, <1>5
<1>7. ASSUME NEW i \in 1 .. Len(t)
      PROVE  (a \o b)[i] = t[i]
  <2>1. CASE i <= l
    <3>1. (a \o b)[i] = a[i]
      BY <2>1, <1>4, <1>9, <1>10
    <3> QED  BY <3>1, <2>1, <1>2, <1>4
  <2>2. CASE ~(i <= l)
    <3>1. i - l \in 1 .. Len(t) - l
      BY <2>2, <1>1, <1>2
    <3>2. (a \o b)[i] = b[i - l]
      BY <2>2, <1>4, <1>9, <1>10
    <3>3. b[i - l] = t[l + (i - l)]
      BY <3>1, <1>5
    <3> QED  BY <3>2, <3>3, <1>1, <1>2
  <2> QED  BY <2>1, <2>2
<1>8. a \o b = t
  BY <1>6, <1>7, TextsEqual
<1> QED  BY <1>3, <1>8 DEF a, b

LEMMA DictionaryIs ==
    ASSUME NEW strings \in Seq(Texts), strings # <<>>
    PROVE  LET n == Len(strings)
               dict == FrontCoded(strings)
           IN  /\ n \in Nat \ {0}
               /\ DOMAIN dict = 0 .. NumBuckets(n) - 1
               /\ LastBucket(dict) = NumBuckets(n) - 1
               /\ \A b \in 0 .. NumBuckets(n) - 1 :
                     /\ Header(dict, b) = strings[At(b) + 1]
                     /\ Len(dict[b].rest) = SizeOf(n, b)
                     /\ \A i \in 1 .. SizeOf(n, b) :
                           dict[b].rest[i] = Coded(strings[At(b) + i], strings[At(b) + i + 1])
<1> DEFINE n == Len(strings)
           dict == FrontCoded(strings)
           last == NumBuckets(n) - 1
<1>1. n \in Nat \ {0}
  OBVIOUS
<1>2. DOMAIN dict = 0 .. last
  BY DEF FrontCoded
<1>3. last \in Nat
  BY <1>1, Buckets
<1>4. Max(0 .. last) = last
  <2>1. 0 .. last \in SUBSET (0 .. last) /\ last \in 0 .. last
    BY <1>3
  <2>2. Max(0 .. last) \in 0 .. last /\ \A c \in 0 .. last : c <= Max(0 .. last)
    <3> HIDE DEF last
    <3> QED  BY <2>1, <1>3, MaxIs
  <2> QED  BY <2>1, <2>2, <1>3
<1>5. ASSUME NEW b \in 0 .. last
      PROVE  /\ Header(dict, b) = strings[At(b) + 1]
             /\ Len(dict[b].rest) = SizeOf(n, b)
             /\ \A i \in 1 .. SizeOf(n, b) :
                   dict[b].rest[i] = Coded(strings[At(b) + i], strings[At(b) + i + 1])
  <2> DEFINE R == [i \in 1 .. SizeOf(n, b) |->
                      Coded(strings[(At(b) + 1) + i - 1], strings[(At(b) + 1) + i])]
  <2>1. dict[b] = [header |-> strings[At(b) + 1], rest |-> R]
    BY <1>2 DEF FrontCoded, At
  <2>2. SizeOf(n, b) \in Nat /\ At(b) \in Nat
    BY <1>1, BucketsOf
  <2>3. Len(R) = SizeOf(n, b)
    <3> HIDE DEF At, SizeOf
    <3> QED  BY <2>2
  <2>4. \A i \in 1 .. SizeOf(n, b) :
           (At(b) + 1) + i - 1 = At(b) + i /\ (At(b) + 1) + i = At(b) + i + 1
    BY <2>2
  <2>5. \A i \in 1 .. SizeOf(n, b) : R[i] = Coded(strings[At(b) + i], strings[At(b) + i + 1])
    <3> HIDE DEF At, SizeOf, Coded
    <3> QED  BY <2>4
  <2> HIDE DEF R, At, SizeOf, Coded, dict
  <2>6. dict[b].header = strings[At(b) + 1] /\ dict[b].rest = R
    BY <2>1
  <2>7. Header(dict, b) = dict[b].header
    BY DEF Header
  <2> QED  BY <2>3, <2>5, <2>6, <2>7
<1>6. LastBucket(dict) = last
  BY <1>2, <1>4 DEF LastBucket
<1> QED  BY <1>1, <1>2, <1>5, <1>6

LEMMA DecodedIs ==
    ASSUME NEW strings \in Seq(Texts), strings # <<>>,
           NEW b \in 0 .. NumBuckets(Len(strings)) - 1,
           NEW i \in 0 .. SizeOf(Len(strings), b)
    PROVE  Decoded(FrontCoded(strings), b, i) = strings[At(b) + 1 + i]
<1> DEFINE n == Len(strings)
           dict == FrontCoded(strings)
           size == SizeOf(n, b)
           a == At(b)
           coded == dict[b].rest
           Eq(A) == A = [j \in 0 .. i |->
                            IF j = 0 THEN Header(dict, b)
                            ELSE SubSeq(A[j - 1], 1, coded[j].lcp) \o coded[j].rest]
           W == [j \in 0 .. i |-> strings[a + 1 + j]]
           F == CHOOSE A : Eq(A)
<1>1. n \in Nat \ {0} /\ \A x \in 1 .. n : strings[x] \in Texts
  OBVIOUS
<1>2. a \in Nat /\ size \in Nat /\ a + 1 + size <= n
  <2>1. a \in Nat /\ size \in Nat /\ a + 1 + size <= Held(n)
    BY <1>1, BucketsOf
  <2>2. Held(n) \in 1 .. n
    BY <1>1, Buckets
  <2> QED  BY <2>1, <2>2, <1>1
<1>3. /\ Header(dict, b) = strings[a + 1]
      /\ \A j \in 1 .. size : coded[j] = Coded(strings[a + j], strings[a + j + 1])
  BY DictionaryIs
<1>4. Decoded(dict, b, i) = F[i]
  BY DEF Decoded
<1> HIDE DEF size, a, n, dict, coded
<1>5. i \in Nat /\ i <= size
  BY <1>2 DEF size, n
<1>6. \A j \in 1 .. i : SubSeq(strings[a + j], 1, coded[j].lcp) \o coded[j].rest = strings[a + j + 1]
  <2> SUFFICES ASSUME NEW j \in 1 .. i
               PROVE  SubSeq(strings[a + j], 1, coded[j].lcp) \o coded[j].rest = strings[a + j + 1]
    OBVIOUS
  <2>1. j \in 1 .. size /\ a + j \in 1 .. n /\ a + j + 1 \in 1 .. n
    BY <1>1, <1>2, <1>5
  <2>2. strings[a + j] \in Texts /\ strings[a + j + 1] \in Texts
    BY <2>1, <1>1
  <2> QED  BY <2>1, <2>2, <1>3, Rebuilt
<1>7. Eq(W)
  <2>1. ASSUME NEW j \in 0 .. i
        PROVE  strings[a + 1 + j] = IF j = 0 THEN Header(dict, b)
                                    ELSE SubSeq(W[j - 1], 1, coded[j].lcp) \o coded[j].rest
    <3>1. CASE j = 0
      BY <3>1, <1>2, <1>3
    <3>2. CASE j # 0
      <4>1. j \in 1 .. i /\ j - 1 \in 0 .. i /\ a + 1 + (j - 1) = a + j /\ a + 1 + j = a + j + 1
        BY <3>2, <1>2, <1>5
      <4>2. W[j - 1] = strings[a + j]
        BY <4>1
      <4> HIDE DEF W
      <4> QED  BY <4>1, <4>2, <3>2, <1>6
    <3> QED  BY <3>1, <3>2
  <2> QED  BY <2>1, Zenon
<1>8. Eq(F)
  <2> HIDE DEF Eq, W
  <2> QED  BY <1>7, Zenon
<1> HIDE DEF F
<1>9. \A j \in 0 .. i : F[j] = IF j = 0 THEN Header(dict, b)
                               ELSE SubSeq(F[j - 1], 1, coded[j].lcp) \o coded[j].rest
  BY <1>8, Zenon
<1> DEFINE S == {j \in Nat : j <= i => F[j] = strings[a + 1 + j]}
<1>10. 0 \in S
  BY <1>2, <1>3, <1>5, <1>9
<1>11. ASSUME NEW j \in Nat, j \in S PROVE j + 1 \in S
  <2> SUFFICES ASSUME j + 1 <= i PROVE F[j + 1] = strings[a + 1 + (j + 1)]
    OBVIOUS
  <2>1. j + 1 \in 1 .. i /\ j + 1 \in 0 .. i /\ j + 1 # 0 /\ (j + 1) - 1 = j
        /\ a + (j + 1) = a + 1 + j /\ a + (j + 1) + 1 = a + 1 + (j + 1)
    BY <1>2, <1>5
  <2>2. F[j] = strings[a + 1 + j]
    BY <1>11, <1>5
  <2>3. F[j + 1] = SubSeq(F[j], 1, coded[j + 1].lcp) \o coded[j + 1].rest
    BY <2>1, <1>9
  <2>4. SubSeq(strings[a + (j + 1)], 1, coded[j + 1].lcp) \o coded[j + 1].rest
          = strings[a + (j + 1) + 1]
    BY <2>1, <1>6
  <2> QED  BY <2>1, <2>2, <2>3, <2>4
<1>12. Nat \subseteq S
  <2> HIDE DEF S
  <2> QED  BY <1>10, <1>11, Everywhere
<1>13. F[i] = strings[a + 1 + i]
  BY <1>12, <1>5
<1> QED  BY <1>4, <1>13 DEF a, dict

-----------------------------------------------------------------------------
(***************************************************************************)
(* Cuts.  The members of a set that holds, with a number, all numbers      *)
(* before it are those up to a cut.                                        *)
(***************************************************************************)
IsCut(m, P, c) == c \in 0 .. m /\ \A x \in 1 .. m : x \in P <=> x <= c

Descends(m, P) == \A x, y \in 1 .. m : x < y /\ y \in P => x \in P

LEMMA CutExists ==
    ASSUME NEW m \in Nat, NEW P, Descends(m, P)
    PROVE  \E c \in 0 .. m : IsCut(m, P, c)
<1> DEFINE S == {x \in 1 .. m + 1 : x = m + 1 \/ x \notin P}
<1>1. S \in SUBSET Nat /\ m + 1 \in S
  OBVIOUS
<1>2. PICK l \in S : \A x \in S : l <= x
  <2> HIDE DEF S
  <2> QED  BY <1>1, LeastExists
<1>3. l \in 1 .. m + 1 /\ (l = m + 1 \/ l \notin P)
  OBVIOUS
<1>4. ASSUME NEW x \in 1 .. m
      PROVE  x \in P <=> x <= l - 1
  <2>1. CASE x < l
    <3>1. x \notin S
      BY <2>1, <1>2
    <3> QED  BY <3>1, <2>1, <1>3
  <2>2. CASE x = l
    BY <2>2, <1>3
  <2>3. CASE x > l
    <3>1. l \in 1 .. m /\ l \notin P
      BY <2>3, <1>3
    <3>2. x \notin P
      BY <3>1, <2>3 DEF Descends
    <3> QED  BY <3>2, <2>3, <1>3
  <2> QED  BY <2>1, <2>2, <2>3, <1>3
<1>5. l - 1 \in 0 .. m
  BY <1>3
<1>6. IsCut(m, P, l - 1)
  BY <1>4, <1>5 DEF IsCut
<1> QED  BY <1>5, <1>6

\* The first position of a scan that is in a set, or the one past the last.
LEMMA ScanEnds ==
    ASSUME NEW g \in Nat, NEW S \in SUBSET (1 .. g)
    PROVE  LET x == Min(S \cup {g + 1})
           IN  /\ x \in 1 .. g + 1
               /\ x = g + 1 \/ x \in S
               /\ \A i \in S : x <= i
<1> DEFINE T == S \cup {g + 1}
<1>1. T \in SUBSET Nat /\ T # {}
  OBVIOUS
<1> DEFINE x == Min(T)
<1>2. x \in T /\ \A c \in T : x <= c
  <2> HIDE DEF T
  <2> QED  BY <1>1, MinIs
<1> HIDE DEF x
<1>3. x \in 1 .. g + 1 /\ (x = g + 1 \/ x \in S) /\ \A i \in S : x <= i
  BY <1>2
<1> QED  BY <1>3 DEF x

\* The first header that is not up to a cut.
LEMMA HeadersHalved ==
    ASSUME NEW n \in Nat \ {0}, NEW P, NEW c, IsCut(Held(n), P, c),
           NEW right, \A b \in 0 .. NumBuckets(n) - 1 : b \in right <=> At(b) + 1 \in P,
           NEW lo \in 0 .. NumBuckets(n) - 1
    PROVE  LET h == Halving(lo, NumBuckets(n) - 1, right)
           IN  /\ h \in lo .. NumBuckets(n)
               /\ h > lo => At(h - 1) < c
               /\ h < NumBuckets(n) => c <= At(h)
<1> DEFINE last == NumBuckets(n) - 1
           S == {b \in lo .. last + 1 : b = last + 1 \/ c <= At(b)}
<1>1. last \in Nat /\ last + 1 = NumBuckets(n) /\ Held(n) \in Nat
  <2>1. NumBuckets(n) \in Int
    BY SpanIs DEF NumBuckets
  <2>2. NumBuckets(n) - 1 \in Nat /\ Held(n) \in 1 .. n
    BY Buckets
  <2> QED  BY <2>1, <2>2
<1>2. lo \in 0 .. last
  OBVIOUS
<1>3. c \in 0 .. Held(n) /\ \A x \in 1 .. Held(n) : x \in P <=> x <= c
  BY DEF IsCut
<1>4. \A b \in 0 .. last : At(b) \in Nat /\ At(b) + 1 \in 1 .. Held(n)
  <2> SUFFICES ASSUME NEW b \in 0 .. last
               PROVE  At(b) \in Nat /\ At(b) + 1 \in 1 .. Held(n)
    OBVIOUS
  <2>1. At(b) \in Nat /\ SizeOf(n, b) \in 0 .. BucketSize /\ At(b) + 1 + SizeOf(n, b) <= Held(n)
    BY BucketsOf
  <2> QED  BY <2>1, <1>1
<1>5. \A b \in 0 .. last : b \in right <=> At(b) + 1 \in P
  OBVIOUS
<1> HIDE DEF last
<1>6. S \in SUBSET Nat /\ last + 1 \in S
  BY <1>1, <1>2
<1>7. PICK h \in S : \A b \in S : h <= b
  <2> HIDE DEF S
  <2> QED  BY <1>6, LeastExists
<1>8. h \in lo .. last + 1 /\ h \in Nat /\ (h = last + 1 \/ c <= At(h))
  BY <1>2, <1>7
<1>9. ASSUME NEW b \in lo .. last
      PROVE  b \in right <=> b < h
  <2>1. b \in 0 .. last
    BY <1>2
  <2>2. b \in right <=> At(b) + 1 <= c
    BY <2>1, <1>3, <1>4, <1>5
  <2>3. At(b) \in Nat
    BY <2>1, <1>4
  <2>4. CASE b < h
    <3>1. ~(c <= At(b))
      BY <2>4, <1>7, <1>1, <1>2
    <3> QED  BY <3>1, <2>2, <2>3, <2>4, <1>3
  <2>5. CASE b = h
    BY <2>5, <2>2, <2>3, <1>8, <1>3, <1>1
  <2>6. CASE h < b
    <3>1. At(h) + Span <= At(b) /\ At(h) \in Nat
      BY <2>6, <2>1, <1>8, AtAscends, AtIs
    <3>2. c <= At(h)
      BY <2>6, <1>8, <1>1
    <3> QED  BY <3>1, <3>2, <2>2, <2>3, <2>6, <1>3, SpanIs
  <2> QED  BY <2>4, <2>5, <2>6, <1>8, <1>2
<1>10. UpToBound(lo, last, right, h)
  BY <1>9 DEF UpToBound
<1>11. Halving(lo, last, right) = h
  <2>1. last \in Int /\ last >= lo - 1 /\ lo \in Nat
    BY <1>1, <1>2
  <2> QED  BY <2>1, <1>8, <1>10, HalvingEnds
<1>12. h > lo => At(h - 1) < c
  <2> SUFFICES ASSUME h > lo PROVE At(h - 1) < c
    OBVIOUS
  <2>1. h - 1 \in lo .. last /\ h - 1 < h /\ h - 1 \in 0 .. last
    BY <1>8, <1>2, <1>1
  <2>2. h - 1 \in right
    BY <2>1, <1>9
  <2>3. At(h - 1) + 1 <= c /\ At(h - 1) \in Nat
    BY <2>1, <2>2, <1>3, <1>4, <1>5
  <2> QED  BY <2>3, <1>3
<1> QED  BY <1>1, <1>8, <1>11, <1>12 DEF last

-----------------------------------------------------------------------------
(***************************************************************************)
(* The cuts of the strings of a dictionary: those before p, those before   *)
(* or with prefix p, those up to p.                                        *)
(***************************************************************************)
Ordered(strings) == strings \in Seq(Texts) /\ strings # <<>> /\ Sorted(strings)

Below(strings, p) == {x \in DOMAIN strings : CompareHead(strings[x], p) < 0}
Within(strings, p) == {x \in DOMAIN strings : CompareHead(strings[x], p) <= 0}
AtMost(strings, p) == {x \in DOMAIN strings : Compare(strings[x], p) <= 0}

LEMMA OrderedIs ==
    ASSUME NEW strings, Ordered(strings)
    PROVE  /\ strings \in Seq(Texts) /\ strings # <<>>
           /\ Len(strings) \in Nat \ {0} /\ DOMAIN strings = 1 .. Len(strings)
           /\ \A x \in 1 .. Len(strings) : strings[x] \in Texts
           /\ \A x, y \in 1 .. Len(strings) : x < y => Before(strings[x], strings[y])
<1>1. strings \in Seq(Texts) /\ strings # <<>> /\ Sorted(strings)
  BY DEF Ordered
<1> HIDE DEF Texts
<1>2. Len(strings) \in Nat \ {0} /\ DOMAIN strings = 1 .. Len(strings)
      /\ \A x \in 1 .. Len(strings) : strings[x] \in Texts
  BY <1>1
<1> QED  BY <1>1, <1>2 DEF Sorted

LEMMA StringsDescend ==
    ASSUME NEW strings, Ordered(strings), NEW p \in Texts, NEW m \in 0 .. Len(strings)
    PROVE  /\ Descends(m, Below(strings, p)) /\ Descends(m, Within(strings, p))
           /\ Descends(m, AtMost(strings, p))
<1> DEFINE n == Len(strings)
<1>1. /\ n \in Nat \ {0} /\ DOMAIN strings = 1 .. n
      /\ \A x \in 1 .. n : strings[x] \in Texts
      /\ \A x, y \in 1 .. n : x < y => Before(strings[x], strings[y])
  BY OrderedIs
<1> HIDE DEF n
<1>2. m \in 0 .. n
  BY DEF n
<1>3. ASSUME NEW x \in 1 .. m, NEW y \in 1 .. m, x < y
      PROVE  /\ x \in DOMAIN strings /\ y \in DOMAIN strings
             /\ CompareHead(strings[x], p) <= CompareHead(strings[y], p)
             /\ CompareHead(strings[x], p) \in Int /\ CompareHead(strings[y], p) \in Int
             /\ Compare(strings[y], p) <= 0 => Compare(strings[x], p) <= 0
  <2>1. x \in 1 .. n /\ y \in 1 .. n
    BY <1>1, <1>2
  <2>2. strings[x] \in Texts /\ strings[y] \in Texts /\ Before(strings[x], strings[y])
    BY <2>1, <1>1, <1>3
  <2>3. /\ CompareHead(strings[x], p) <= CompareHead(strings[y], p)
        /\ CompareHead(strings[x], p) \in Int /\ CompareHead(strings[y], p) \in Int
    <3>1. CompareHead(strings[x], p) \in -1 .. 1 /\ CompareHead(strings[y], p) \in -1 .. 1
      BY <2>2, CompareHeadIs
    <3> QED  BY <3>1, <2>2, ClassesInOrder
  <2>4. Compare(strings[y], p) <= 0 <=> strings[y] = p \/ Before(strings[y], p)
    BY <2>2, CompareIs
  <2>5. Compare(strings[x], p) <= 0 <=> strings[x] = p \/ Before(strings[x], p)
    BY <2>2, CompareIs
  <2>6. Before(strings[y], p) => Before(strings[x], p)
    BY <2>2, BeforeTransitive
  <2>7. strings[y] = p => Before(strings[x], p)
    BY <2>2
  <2> QED  BY <2>1, <2>3, <2>4, <2>5, <2>6, <2>7, <1>1
<1>4. Descends(m, Below(strings, p))
  <2> SUFFICES ASSUME NEW x \in 1 .. m, NEW y \in 1 .. m, x < y, y \in Below(strings, p)
               PROVE  x \in Below(strings, p)
    BY DEF Descends
  <2> QED  BY <1>3 DEF Below
<1>5. Descends(m, Within(strings, p))
  <2> SUFFICES ASSUME NEW x \in 1 .. m, NEW y \in 1 .. m, x < y, y \in Within(strings, p)
               PROVE  x \in Within(strings, p)
    BY DEF Descends
  <2> QED  BY <1>3 DEF Within
<1>6. Descends(m, AtMost(strings, p))
  <2> SUFFICES ASSUME NEW x \in 1 .. m, NEW y \in 1 .. m, x < y, y \in AtMost(strings, p)
               PROVE  x \in AtMost(strings, p)
    BY DEF Descends
  <2> QED  BY <1>3 DEF AtMost
<1> QED  BY <1>4, <1>5, <1>6

\* The places of a bucket, as positions among the strings.
LEMMA PlaceIs ==
    ASSUME NEW strings, Ordered(strings), NEW b \in 0 .. NumBuckets(Len(strings)) - 1,
           NEW i \in 0 .. SizeOf(Len(strings), b)
    PROVE  /\ At(b) + 1 + i \in 1 .. Held(Len(strings))
           /\ At(b) + 1 + i \in DOMAIN strings
           /\ strings[At(b) + 1 + i] \in Texts
           /\ Decoded(FrontCoded(strings), b, i) = strings[At(b) + 1 + i]
<1> DEFINE n == Len(strings)
           h == Held(n)
           g == SizeOf(n, b)
<1>1. /\ strings \in Seq(Texts) /\ strings # <<>> /\ n \in Nat \ {0} /\ DOMAIN strings = 1 .. n
      /\ \A x \in 1 .. n : strings[x] \in Texts
  BY OrderedIs
<1>2. At(b) \in Nat /\ g \in Nat /\ At(b) + 1 + g <= h
  BY <1>1, BucketsOf
<1>3. h \in 1 .. n
  BY <1>1, Buckets
<1>4. Decoded(FrontCoded(strings), b, i) = strings[At(b) + 1 + i]
  BY <1>1, DecodedIs
<1>5. i \in 0 .. g
  OBVIOUS
<1> HIDE DEF n, h, g
<1>6. At(b) + 1 + i \in 1 .. h /\ At(b) + 1 + i \in 1 .. n
  BY <1>1, <1>2, <1>3, <1>5
<1> QED  BY <1>1, <1>4, <1>6 DEF h, n

LEMMA HeaderIs ==
    ASSUME NEW strings, Ordered(strings), NEW b \in 0 .. NumBuckets(Len(strings)) - 1
    PROVE  /\ Header(FrontCoded(strings), b) = strings[At(b) + 1]
           /\ strings[At(b) + 1] \in Texts /\ At(b) + 1 \in 1 .. Held(Len(strings))
           /\ At(b) + 1 \in DOMAIN strings
           /\ Len(FrontCoded(strings)[b].rest) = SizeOf(Len(strings), b)
<1>1. strings \in Seq(Texts) /\ strings # <<>> /\ Len(strings) \in Nat \ {0}
  BY OrderedIs
<1>2. /\ Header(FrontCoded(strings), b) = strings[At(b) + 1]
      /\ Len(FrontCoded(strings)[b].rest) = SizeOf(Len(strings), b)
  BY <1>1, DictionaryIs
<1>3. SizeOf(Len(strings), b) \in Nat /\ At(b) \in Nat
  BY <1>1, BucketsOf
<1>4. 0 \in 0 .. SizeOf(Len(strings), b) /\ At(b) + 1 + 0 = At(b) + 1
  BY <1>3
<1>5. At(b) + 1 \in 1 .. Held(Len(strings)) /\ At(b) + 1 \in DOMAIN strings
      /\ strings[At(b) + 1] \in Texts
  BY <1>4, PlaceIs
<1> QED  BY <1>2, <1>5

LEMMA RightScan ==
    ASSUME NEW strings, Ordered(strings), NEW p \in Texts,
           NEW r \in 0 .. NumBuckets(Len(strings)) - 1,
           NEW b, IsCut(Held(Len(strings)), Within(strings, p), b)
    PROVE  LET x == RightLocate(FrontCoded(strings), r, p)
               g == SizeOf(Len(strings), r)
           IN  /\ x \in 0 .. g
               /\ b <= At(r) + 1 => x = 0
               /\ At(r) < b /\ b <= At(r) + 1 + g => At(r) + 1 + x = b
<1> DEFINE n == Len(strings)
           h == Held(n)
           g == SizeOf(n, r)
           a == At(r)
           dict == FrontCoded(strings)
           S == {i \in 1 .. g : CompareHead(Decoded(dict, r, i), p) > 0}
           x == Min(S \cup {g + 1}) - 1
<1>1. n \in Nat \ {0} /\ a \in Nat /\ g \in Nat /\ a + 1 + g <= h /\ h \in Nat
  <2>1. n \in Nat \ {0}
    BY OrderedIs
  <2>2. a \in Nat /\ g \in 0 .. BucketSize /\ a + 1 + g <= h
    BY <2>1, BucketsOf
  <2>3. h \in 1 .. n
    BY <2>1, Buckets
  <2> QED  BY <2>1, <2>2, <2>3, SpanIs
<1>2. RightLocate(dict, r, p) = x
  <2>1. Len(dict[r].rest) = g
    BY HeaderIs
  <2> QED  BY <2>1 DEF RightLocate
<1>3. b \in 0 .. h /\ \A y \in 1 .. h : y \in Within(strings, p) <=> y <= b
  BY DEF IsCut
<1>4. ASSUME NEW i \in 1 .. g
      PROVE  i \in S <=> a + 1 + i > b
  <2>1. i \in 0 .. g
    BY <1>1
  <2>2. /\ a + 1 + i \in 1 .. h /\ a + 1 + i \in DOMAIN strings
        /\ strings[a + 1 + i] \in Texts
        /\ Decoded(dict, r, i) = strings[a + 1 + i]
    <3> HIDE DEF a, h, dict
    <3> QED  BY <2>1, PlaceIs DEF a, h, dict, g, n
  <2>3. CompareHead(strings[a + 1 + i], p) \in -1 .. 1
    BY <2>2, CompareHeadIs
  <2>4. a + 1 + i \in Within(strings, p) <=> CompareHead(strings[a + 1 + i], p) <= 0
    BY <2>2 DEF Within
  <2>5. a + 1 + i \in Within(strings, p) <=> a + 1 + i <= b
    BY <2>2, <1>3
  <2> QED  BY <2>2, <2>3, <2>4, <2>5, <1>1, <1>3
<1>5. x + 1 \in 1 .. g + 1 /\ (x + 1 = g + 1 \/ x + 1 \in S) /\ \A i \in S : x + 1 <= i
  <2> DEFINE y == Min(S \cup {g + 1})
  <2>1. S \in SUBSET (1 .. g)
    OBVIOUS
  <2>2. y \in 1 .. g + 1 /\ (y = g + 1 \/ y \in S) /\ \A i \in S : y <= i
    <3> HIDE DEF S
    <3> QED  BY <2>1, <1>1, ScanEnds
  <2>3. x = y - 1
    OBVIOUS
  <2> HIDE DEF y, x
  <2>4. x + 1 = y
    BY <2>2, <2>3, <1>1
  <2> QED  BY <2>2, <2>4
<1> HIDE DEF x, S, a, g, h, n, dict
<1>6. x \in 0 .. g
  <2>1. x \in Int
    <3> DEFINE y == Min(S \cup {g + 1})
    <3>1. S \in SUBSET (1 .. g)
      BY DEF S
    <3>2. y \in 1 .. g + 1
      BY <3>1, <1>1, ScanEnds
    <3> QED  BY <3>2, <1>1 DEF x
  <2> QED  BY <2>1, <1>1, <1>5
<1>7. ASSUME b <= a + 1 PROVE x = 0
  <2>1. CASE g = 0
    BY <2>1, <1>6
  <2>2. CASE g # 0
    <3>1. 1 \in S
      BY <2>2, <1>1, <1>3, <1>4, <1>7
    <3>2. x + 1 <= 1
      BY <3>1, <1>5
    <3> QED  BY <3>2, <1>6, <1>1
  <2> QED  BY <2>1, <2>2
<1>8. ASSUME a < b, b <= a + 1 + g PROVE a + 1 + x = b
  <2>1. ~(a + 1 + x < b)
    <3> SUFFICES ASSUME a + 1 + x < b PROVE FALSE
      OBVIOUS
    <3>1. x + 1 \in 1 .. g /\ ~(a + 1 + (x + 1) > b)
      BY <1>1, <1>3, <1>6, <1>8
    <3>2. x + 1 \notin S /\ x + 1 # g + 1
      BY <3>1, <1>1, <1>4
    <3> QED  BY <3>2, <1>5
  <2>2. ~(a + 1 + x > b)
    <3> SUFFICES ASSUME a + 1 + x > b PROVE FALSE
      OBVIOUS
    <3>1. x \in 1 .. g
      BY <1>1, <1>3, <1>6, <1>8
    <3>2. x \in S
      BY <3>1, <1>4
    <3>3. x + 1 <= x
      BY <3>2, <1>5
    <3> QED  BY <3>3, <3>1, <1>1
  <2> QED  BY <2>1, <2>2, <1>1, <1>3, <1>6
<1> QED  BY <1>2, <1>6, <1>7, <1>8 DEF g, a, dict, n

LEMMA LeftScans ==
    ASSUME NEW strings, Ordered(strings), NEW p \in Texts,
           NEW r \in 0 .. NumBuckets(Len(strings)) - 1,
           NEW a, IsCut(Held(Len(strings)), Below(strings, p), a),
           NEW b, IsCut(Held(Len(strings)), Within(strings, p), b)
    PROVE  LET x == LeftLocateTerm(FrontCoded(strings), r, p)
               y == LeftLocateList(FrontCoded(strings), r, p)
               g == SizeOf(Len(strings), r)
           IN  /\ x \in 1 .. g + 1
               /\ x <= g => a < At(r) + 1 + x /\ At(r) + 1 + x <= b
               /\ \A i \in 1 .. g : a < At(r) + 1 + i /\ At(r) + 1 + i <= b => x <= i
               /\ y \in 1 .. g + 1
               /\ y <= g => a < At(r) + 1 + y
               /\ \A i \in 1 .. g : a < At(r) + 1 + i => y <= i
<1> DEFINE n == Len(strings)
           h == Held(n)
           g == SizeOf(n, r)
           c == At(r)
           dict == FrontCoded(strings)
           S == {i \in 1 .. g : CompareHead(Decoded(dict, r, i), p) = 0}
           T == {i \in 1 .. g : CompareHead(Decoded(dict, r, i), p) >= 0}
           x == Min(S \cup {g + 1})
           y == Min(T \cup {g + 1})
<1>1. n \in Nat \ {0} /\ c \in Nat /\ g \in Nat /\ c + 1 + g <= h /\ h \in Nat
  <2>1. n \in Nat \ {0}
    BY OrderedIs
  <2>2. c \in Nat /\ g \in 0 .. BucketSize /\ c + 1 + g <= h
    BY <2>1, BucketsOf
  <2>3. h \in 1 .. n
    BY <2>1, Buckets
  <2> QED  BY <2>1, <2>2, <2>3, SpanIs
<1>2. LeftLocateTerm(dict, r, p) = x /\ LeftLocateList(dict, r, p) = y
  <2>1. Len(dict[r].rest) = g
    BY HeaderIs
  <2> QED  BY <2>1 DEF LeftLocateTerm, LeftLocateList
<1>3. /\ a \in 0 .. h /\ \A z \in 1 .. h : z \in Below(strings, p) <=> z <= a
      /\ b \in 0 .. h /\ \A z \in 1 .. h : z \in Within(strings, p) <=> z <= b
  BY DEF IsCut
<1>4. ASSUME NEW i \in 1 .. g
      PROVE  /\ i \in S <=> a < c + 1 + i /\ c + 1 + i <= b
             /\ i \in T <=> a < c + 1 + i
  <2>1. i \in 0 .. g
    BY <1>1
  <2>2. /\ c + 1 + i \in 1 .. h /\ c + 1 + i \in DOMAIN strings
        /\ strings[c + 1 + i] \in Texts
        /\ Decoded(dict, r, i) = strings[c + 1 + i]
    <3> HIDE DEF c, h, dict
    <3> QED  BY <2>1, PlaceIs DEF c, h, dict, g, n
  <2>3. CompareHead(strings[c + 1 + i], p) \in -1 .. 1
    BY <2>2, CompareHeadIs
  <2>4. /\ c + 1 + i \in Within(strings, p) <=> CompareHead(strings[c + 1 + i], p) <= 0
        /\ c + 1 + i \in Below(strings, p) <=> CompareHead(strings[c + 1 + i], p) < 0
    BY <2>2 DEF Within, Below
  <2>5. /\ c + 1 + i \in Within(strings, p) <=> c + 1 + i <= b
        /\ c + 1 + i \in Below(strings, p) <=> c + 1 + i <= a
    BY <2>2, <1>3
  <2> QED  BY <2>2, <2>3, <2>4, <2>5, <1>1, <1>3
<1>5. x \in 1 .. g + 1 /\ (x = g + 1 \/ x \in S) /\ \A i \in S : x <= i
  <2>1. S \in SUBSET (1 .. g)
    OBVIOUS
  <2> HIDE DEF S
  <2> QED  BY <2>1, <1>1, ScanEnds
<1>6. y \in 1 .. g + 1 /\ (y = g + 1 \/ y \in T) /\ \A i \in T : y <= i
  <2>1. T \in SUBSET (1 .. g)
    OBVIOUS
  <2> HIDE DEF T
  <2> QED  BY <2>1, <1>1, ScanEnds
<1> HIDE DEF x, y, S, T, c, g, h, n, dict
<1>7. x <= g => a < c + 1 + x /\ c + 1 + x <= b
  BY <1>1, <1>4, <1>5
<1>8. y <= g => a < c + 1 + y
  BY <1>1, <1>4, <1>6
<1>9. \A i \in 1 .. g : a < c + 1 + i /\ c + 1 + i <= b => x <= i
  BY <1>4, <1>5
<1>10. \A i \in 1 .. g : a < c + 1 + i => y <= i
  BY <1>4, <1>6
<1> QED  BY <1>2, <1>5, <1>6, <1>7, <1>8, <1>9, <1>10 DEF g, c, dict, n

-----------------------------------------------------------------------------
(***************************************************************************)
(* The buckets that are searched, and the string that is sought.           *)
(***************************************************************************)
\* Cut c is in bucket b, or before all strings.
CutIn(n, b, c) ==
    /\ c = 0 => b = 0
    /\ c > 0 => At(b) < c
    /\ b < NumBuckets(n) - 1 => c <= At(b + 1)

LEMMA NumBucketsIs ==
    ASSUME NEW n \in Nat \ {0}
    PROVE  NumBuckets(n) \in Nat \ {0} /\ Held(n) \in 1 .. n
<1>1. NumBuckets(n) \in Int
  BY SpanIs DEF NumBuckets
<1>2. NumBuckets(n) - 1 \in Nat /\ Held(n) \in 1 .. n
  BY Buckets
<1> QED  BY <1>1, <1>2

LEMMA BucketFound ==
    ASSUME NEW strings, Ordered(strings), NEW t \in Texts,
           NEW c, IsCut(Held(Len(strings)), AtMost(strings, t), c)
    PROVE  LET b == LocateBucket(FrontCoded(strings), t)
           IN  b \in 0 .. NumBuckets(Len(strings)) - 1 /\ CutIn(Len(strings), b, c)
<1> DEFINE n == Len(strings)
           m == NumBuckets(n)
           dict == FrontCoded(strings)
           P == AtMost(strings, t)
           right == {b \in DOMAIN dict : Compare(Header(dict, b), t) <= 0}
           h == Halving(0, m - 1, right)
           l == LocateBucket(dict, t)
<1>1. n \in Nat \ {0} /\ m \in Nat \ {0} /\ Held(n) \in Nat
  BY OrderedIs, NumBucketsIs
<1>2. DOMAIN dict = 0 .. m - 1 /\ LastBucket(dict) = m - 1
  BY OrderedIs, DictionaryIs
<1>3. l = Max({0, h - 1})
  BY <1>2 DEF LocateBucket
<1>4. \A b \in 0 .. m - 1 : b \in right <=> At(b) + 1 \in P
  <2> SUFFICES ASSUME NEW b \in 0 .. m - 1
               PROVE  b \in right <=> At(b) + 1 \in P
    OBVIOUS
  <2>1. Header(dict, b) = strings[At(b) + 1] /\ At(b) + 1 \in DOMAIN strings
    BY HeaderIs
  <2>2. b \in right <=> Compare(strings[At(b) + 1], t) <= 0
    BY <2>1, <1>2
  <2>3. At(b) + 1 \in P <=> Compare(strings[At(b) + 1], t) <= 0
    BY <2>1 DEF AtMost
  <2> QED  BY <2>2, <2>3
<1>5. 0 \in 0 .. m - 1
  BY <1>1
<1>6. h \in 0 .. m /\ (h > 0 => At(h - 1) < c) /\ (h < m => c <= At(h))
  <2>1. IsCut(Held(n), P, c)
    OBVIOUS
  <2> HIDE DEF P, right, dict, n
  <2> QED  BY <2>1, <1>1, <1>4, <1>5, HeadersHalved
<1>7. c \in Nat
  BY <1>1 DEF IsCut
<1> HIDE DEF h, m, n, l
<1>8. l = IF h = 0 THEN 0 ELSE h - 1
  BY <1>3, <1>6, <1>1, MaxOfTwo
<1>9. At(0) = 0
  BY AtIs
<1>10. CASE h = 0
  <2>1. c = 0 /\ l = 0
    BY <1>10, <1>6, <1>7, <1>8, <1>9, <1>1
  <2>2. l \in 0 .. m - 1 /\ At(l + 1) \in Nat
    BY <2>1, <1>1, AtIs
  <2> QED  BY <2>1, <2>2 DEF CutIn, m, n, l, dict
<1>11. CASE h # 0
  <2>1. l = h - 1 /\ l \in 0 .. m - 1 /\ l + 1 = h
    BY <1>11, <1>6, <1>8, <1>1
  <2>2. At(l) \in Nat
    BY <2>1, AtIs
  <2>3. At(l) < c /\ (l < m - 1 => c <= At(l + 1))
    BY <2>1, <1>6, <1>11, <1>1
  <2>4. c # 0
    BY <2>2, <2>3, <1>7
  <2> QED  BY <2>1, <2>3, <2>4 DEF CutIn, m, n, l, dict
<1> QED  BY <1>10, <1>11

LEMMA RightBucketFound ==
    ASSUME NEW strings, Ordered(strings), NEW p \in Texts,
           NEW c, IsCut(Held(Len(strings)), Within(strings, p), c),
           NEW lo \in 0 .. NumBuckets(Len(strings)) - 1, NEW r,
           r = Halving(lo, LastBucket(FrontCoded(strings)),
                       {b \in DOMAIN FrontCoded(strings) :
                           CompareHead(Header(FrontCoded(strings), b), p) <= 0})
    PROVE  /\ r \in lo .. NumBuckets(Len(strings))
           /\ r > lo => At(r - 1) < c
           /\ r < NumBuckets(Len(strings)) => c <= At(r)
<1> DEFINE n == Len(strings)
           m == NumBuckets(n)
           dict == FrontCoded(strings)
           P == Within(strings, p)
           right == {b \in DOMAIN dict : CompareHead(Header(dict, b), p) <= 0}
<1>1. n \in Nat \ {0} /\ m \in Nat \ {0} /\ Held(n) \in Nat
  BY OrderedIs, NumBucketsIs
<1>2. DOMAIN dict = 0 .. m - 1 /\ LastBucket(dict) = m - 1
  BY OrderedIs, DictionaryIs
<1>3. r = Halving(lo, m - 1, right)
  BY <1>2
<1>4. \A b \in 0 .. m - 1 : b \in right <=> At(b) + 1 \in P
  <2> SUFFICES ASSUME NEW b \in 0 .. m - 1
               PROVE  b \in right <=> At(b) + 1 \in P
    OBVIOUS
  <2>1. Header(dict, b) = strings[At(b) + 1] /\ At(b) + 1 \in DOMAIN strings
    BY HeaderIs
  <2>2. b \in right <=> CompareHead(strings[At(b) + 1], p) <= 0
    BY <2>1, <1>2
  <2>3. At(b) + 1 \in P <=> CompareHead(strings[At(b) + 1], p) <= 0
    BY <2>1 DEF Within
  <2> QED  BY <2>2, <2>3
<1> HIDE DEF P, right
<1> QED  BY <1>1, <1>3, <1>4, HeadersHalved DEF P

\* locate() finds every string a dictionary holds, and no other.
LEMMA Located ==
    ASSUME NEW strings, Ordered(strings), NEW t \in Texts
    PROVE  /\ \A x \in 1 .. Held(Len(strings)) :
                 strings[x] = t => Locate(FrontCoded(strings), t) = x
           /\ (\A x \in 1 .. Held(Len(strings)) : strings[x] # t)
                 => Locate(FrontCoded(strings), t) = InvalidTerm
<1> DEFINE n == Len(strings)
           m == NumBuckets(n)
           h == Held(n)
           dict == FrontCoded(strings)
           l == LocateBucket(dict, t)
           g == SizeOf(n, l)
           found == Positions(dict, l, t)
<1>1. /\ n \in Nat \ {0} /\ m \in Nat \ {0} /\ h \in 1 .. n
      /\ DOMAIN strings = 1 .. n
      /\ \A x \in 1 .. n : strings[x] \in Texts
      /\ \A x, y \in 1 .. n : x < y => Before(strings[x], strings[y])
  BY OrderedIs, NumBucketsIs
<1>2. PICK c \in 0 .. h : IsCut(h, AtMost(strings, t), c)
  <2>1. h \in 0 .. n /\ h \in Nat
    BY <1>1
  <2>2. Descends(h, AtMost(strings, t))
    <3> HIDE DEF h
    <3> QED  BY <2>1, StringsDescend DEF n
  <2> QED  BY <2>1, <2>2, CutExists
<1>3. l \in 0 .. m - 1 /\ CutIn(n, l, c)
  BY <1>2, BucketFound
<1>4. At(l) \in Nat /\ g \in Nat /\ At(l) + 1 + g <= h
      /\ (l < m - 1 => At(l) + 1 + g = At(l + 1)) /\ (l = m - 1 => At(l) + 1 + g = h)
  <2>1. At(l) \in Nat /\ g \in 0 .. BucketSize /\ At(l) + 1 + g <= h
        /\ (l < m - 1 => g = BucketSize) /\ (l = m - 1 => At(l) + 1 + g = h)
    <3> HIDE DEF l
    <3> QED  BY <1>1, <1>3, BucketsOf
  <2>2. At(l + 1) = At(l) + Span
    BY <1>3, <1>1, AtIs
  <2> QED  BY <2>1, <2>2, SpanIs
<1>5. Locate(dict, t) = IF found = {} THEN InvalidTerm ELSE At(l) + 1 + Min(found)
  BY DEF Locate, At
<1>6. \A i \in 0 .. g : At(l) + 1 + i \in 1 .. h /\ Decoded(dict, l, i) = strings[At(l) + 1 + i]
  <2> HIDE DEF l
  <2> QED  BY <1>3, PlaceIs
<1>7. found = {i \in 0 .. g : strings[At(l) + 1 + i] = t}
  <2>1. Len(dict[l].rest) = g
    <3> HIDE DEF l
    <3> QED  BY <1>3, HeaderIs
  <2>2. found = {i \in 0 .. g : Decoded(dict, l, i) = t}
    BY <2>1 DEF Positions
  <2> QED  BY <2>2, <1>6
<1> HIDE DEF found, g, l, m, h, n, dict
<1>8. ASSUME NEW x \in 1 .. h, strings[x] = t
      PROVE  Locate(dict, t) = x
  <2>1. \A y \in 1 .. h : y \in AtMost(strings, t) <=> y <= c
    BY <1>2 DEF IsCut
  <2>2. ASSUME NEW y \in 1 .. h
        PROVE  y <= c <=> y <= x
    <3>1. x \in 1 .. n /\ y \in 1 .. n
      BY <1>1
    <3>2. strings[y] \in Texts
      BY <3>1, <1>1
    <3>3. y <= c <=> strings[y] = t \/ Before(strings[y], t)
      BY <3>1, <3>2, <2>1, <1>1, CompareIs DEF AtMost
    <3>4. CASE y <= x
      BY <3>4, <3>1, <3>3, <1>8, <1>1
    <3>5. CASE y > x
      <4>1. Before(t, strings[y])
        BY <3>5, <3>1, <1>8, <1>1
      <4>2. ~Before(strings[y], t) /\ strings[y] # t
        BY <4>1, <3>2, NotBoth
      <4> QED  BY <4>2, <3>3, <3>5
    <3> QED  BY <3>1, <3>4, <3>5
  <2>3. c = x
    <3>1. x <= c
      BY <2>2
    <3>2. c \in 1 .. h
      BY <3>1, <1>1
    <3>3. c <= x
      BY <3>2, <2>2
    <3> QED  BY <3>1, <3>3, <1>1
  <2> DEFINE i == x - (At(l) + 1)
  <2>4. At(l) < x /\ (l < m - 1 => x <= At(l + 1))
    BY <2>3, <1>3 DEF CutIn, m
  <2>5. i \in 0 .. g /\ At(l) + 1 + i = x
    <3>1. x <= At(l) + 1 + g
      BY <2>4, <1>3, <1>4, <1>1
    <3> QED  BY <3>1, <2>4, <1>4
  <2> HIDE DEF i
  <2>6. i \in found
    BY <2>5, <1>7, <1>8
  <2>7. ASSUME NEW j \in found PROVE j = i
    <3>1. j \in 0 .. g /\ strings[At(l) + 1 + j] = t
      BY <1>7
    <3>2. At(l) + 1 + j \in 1 .. n /\ x \in 1 .. n
      BY <3>1, <1>6, <1>1
    <3>3. ~(At(l) + 1 + j < x) /\ ~(x < At(l) + 1 + j)
      BY <3>1, <3>2, <1>1, <1>8, NotBeforeItself
    <3> QED  BY <3>1, <3>2, <3>3, <2>5, <1>4
  <2>8. found \in SUBSET Nat /\ found # {}
    BY <2>6, <1>7
  <2>9. Min(found) = i
    BY <2>7, <2>8, MinIs
  <2> QED  BY <2>5, <2>6, <2>9, <1>5
<1>9. ASSUME \A x \in 1 .. h : strings[x] # t
      PROVE  Locate(dict, t) = InvalidTerm
  <2>1. found = {}
    BY <1>6, <1>7, <1>9
  <2> QED  BY <2>1, <1>5
<1> QED  BY <1>8, <1>9 DEF h, n, dict

-----------------------------------------------------------------------------
(***************************************************************************)
(* locate_prefix() of the terms.  The arithmetic of a range from bucket l, *)
(* at offset x, to bucket r, at offset y.                                  *)
(***************************************************************************)
LEMMA BucketEnds ==
    ASSUME NEW n \in Nat \ {0}, NEW b \in 0 .. NumBuckets(n) - 1
    PROVE  LET g == SizeOf(n, b)
           IN  /\ b \in Nat /\ At(b) \in Nat /\ g \in Nat /\ At(b) + 1 + g <= Held(n)
               /\ NumBuckets(n) \in Nat
               /\ b < NumBuckets(n) - 1 => At(b + 1) = At(b) + 1 + g /\ g # 0
               /\ b = NumBuckets(n) - 1 => At(b) + 1 + g = Held(n)
<1>1. /\ NumBuckets(n) \in Nat
      /\ At(b) \in Nat /\ SizeOf(n, b) \in 0 .. BucketSize
      /\ At(b) + 1 + SizeOf(n, b) <= Held(n)
      /\ b < NumBuckets(n) - 1 => SizeOf(n, b) = BucketSize
      /\ b = NumBuckets(n) - 1 => At(b) + 1 + SizeOf(n, b) = Held(n)
  BY BucketsOf
<1>2. b \in Nat
  BY <1>1
<1>3. At(b + 1) = At(b) + Span
  BY <1>2, AtIs
<1> QED  BY <1>1, <1>2, <1>3, SpanIs

\* The bucket where the strings with prefix p begin.
LEMMA LeftBucketIs ==
    ASSUME NEW strings, Ordered(strings), NEW p \in Texts,
           NEW a, IsCut(Held(Len(strings)), Below(strings, p), a)
    PROVE  LET l == LeftBucket(FrontCoded(strings), p)
               n == Len(strings)
           IN  /\ l \in 0 .. NumBuckets(n) - 1
               /\ \/ strings[At(l) + 1] = p /\ a = At(l)
                  \/ strings[At(l) + 1] # p /\ At(l) < a
                     /\ (l < NumBuckets(n) - 1 => a <= At(l + 1))
                  \/ strings[At(l) + 1] # p /\ l = 0 /\ a = 0
<1> DEFINE n == Len(strings)
           m == NumBuckets(n)
           h == Held(n)
           dict == FrontCoded(strings)
           P == Below(strings, p)
           right == {b \in DOMAIN dict : CompareHead(Header(dict, b), p) < 0}
           f == Halving(0, m - 1, right)
           l == LeftBucket(dict, p)
<1>1. /\ n \in Nat \ {0} /\ m \in Nat \ {0} /\ h \in 1 .. n
      /\ DOMAIN strings = 1 .. n
      /\ \A x \in 1 .. n : strings[x] \in Texts
      /\ \A x, y \in 1 .. n : x < y => Before(strings[x], strings[y])
  BY OrderedIs, NumBucketsIs
<1>2. DOMAIN dict = 0 .. m - 1 /\ LastBucket(dict) = m - 1
  BY OrderedIs, DictionaryIs
<1>3. \A b \in 0 .. m - 1 : Header(dict, b) = strings[At(b) + 1] /\ At(b) + 1 \in DOMAIN strings
                            /\ At(b) + 1 \in 1 .. h
  BY HeaderIs
<1>4. \A b \in 0 .. m - 1 : b \in right <=> At(b) + 1 \in P
  <2> SUFFICES ASSUME NEW b \in 0 .. m - 1
               PROVE  b \in right <=> At(b) + 1 \in P
    OBVIOUS
  <2>2. b \in right <=> CompareHead(strings[At(b) + 1], p) < 0
    BY <1>2, <1>3
  <2>3. At(b) + 1 \in P <=> CompareHead(strings[At(b) + 1], p) < 0
    BY <1>3 DEF Below
  <2> QED  BY <2>2, <2>3
<1>5. f \in 0 .. m /\ (f > 0 => At(f - 1) < a) /\ (f < m => a <= At(f))
  <2>1. IsCut(Held(n), P, a) /\ 0 \in 0 .. m - 1
    BY <1>1
  <2> HIDE DEF P, right, dict, n
  <2> QED  BY <2>1, <1>1, <1>4, HeadersHalved
<1>6. FirstHeader(dict, p) = f
  BY <1>2 DEF FirstHeader
<1>7. l = IF f = 0 \/ (f \in 0 .. m - 1 /\ Header(dict, f) = p) THEN f ELSE f - 1
  BY <1>2, <1>6 DEF LeftBucket
<1>8. a \in 0 .. h /\ \A x \in 1 .. h : x \in Below(strings, p) <=> x <= a
  BY DEF IsCut
<1>9. \A x \in 1 .. h : x <= a <=> Before(strings[x], p)
  <2> SUFFICES ASSUME NEW x \in 1 .. h PROVE x <= a <=> Before(strings[x], p)
    OBVIOUS
  <2>1. x \in 1 .. n
    BY <1>1
  <2>2. x \in Below(strings, p) <=> Before(strings[x], p)
    BY <2>1, <1>1, CompareHeadIs DEF Below
  <2> QED  BY <2>2, <1>8
<1> HIDE DEF f, l, h, m, n, dict
<1>10. ASSUME f \in 0 .. m - 1, strings[At(f) + 1] = p
       PROVE  a = At(f)
  <2>1. At(f) \in Nat /\ At(f) + 1 \in 1 .. h /\ a <= At(f)
    BY <1>3, <1>5, <1>10, <1>1, AtIs
  <2>2. CASE At(f) = 0
    BY <2>1, <2>2, <1>8, <1>1
  <2>3. CASE At(f) # 0
    <3>1. At(f) \in 1 .. h /\ At(f) \in 1 .. n /\ At(f) + 1 \in 1 .. n
      BY <2>1, <2>3, <1>1
    <3>2. Before(strings[At(f)], strings[At(f) + 1])
      BY <3>1, <1>1
    <3>3. At(f) <= a
      BY <3>1, <3>2, <1>9, <1>10
    <3> QED  BY <3>3, <2>1, <1>8, <1>1
  <2> QED  BY <2>2, <2>3
<1>11. CASE f \in 0 .. m - 1 /\ Header(dict, f) = p
  <2>1. l = f /\ strings[At(f) + 1] = p
    BY <1>3, <1>7, <1>11
  <2> QED  BY <2>1, <1>10, <1>11 DEF m, l, dict, n
<1>12. CASE ~(f \in 0 .. m - 1 /\ Header(dict, f) = p) /\ f = 0
  <2>1. f \in 0 .. m - 1 /\ l = 0
    BY <1>1, <1>7, <1>12
  <2>2. strings[At(l) + 1] # p
    BY <2>1, <1>3, <1>12
  <2>3. a = 0
    <3>1. a <= At(0) /\ At(0) = 0
      BY <1>5, <1>12, <1>1, AtIs
    <3> QED  BY <3>1, <1>8, <1>1
  <2> QED  BY <2>1, <2>2, <2>3, <1>12 DEF m, l, dict, n
<1>13. CASE ~(f \in 0 .. m - 1 /\ Header(dict, f) = p) /\ f # 0
  <2>1. l = f - 1 /\ l \in 0 .. m - 1 /\ l + 1 = f
    BY <1>1, <1>5, <1>7, <1>13
  <2>2. At(l) < a /\ (l < m - 1 => a <= At(l + 1))
    BY <2>1, <1>1, <1>5, <1>13
  <2>3. At(l) + 1 \in 1 .. h /\ At(l) + 1 \in 1 .. n /\ At(l) \in Nat
    BY <2>1, <1>1, <1>3, AtIs
  <2>4. Before(strings[At(l) + 1], p)
    <3>1. At(l) + 1 <= a
      BY <2>2, <2>3, <1>8, <1>1
    <3> QED  BY <3>1, <2>3, <1>9
  <2>5. strings[At(l) + 1] # p
    BY <2>3, <2>4, NotBeforeItself
  <2> QED  BY <2>1, <2>2, <2>5 DEF m, l, dict, n
<1> QED  BY <1>11, <1>12, <1>13

\* The bucket where they end.
LEMMA RightBucketIs ==
    ASSUME NEW strings, Ordered(strings), NEW p \in Texts,
           NEW a, IsCut(Held(Len(strings)), Below(strings, p), a),
           NEW b, IsCut(Held(Len(strings)), Within(strings, p), b), a <= b
    PROVE  LET r == RightBucket(FrontCoded(strings), p)
               n == Len(strings)
           IN  r \in 0 .. NumBuckets(n) - 1 /\ CutIn(n, r, b)
<1> DEFINE n == Len(strings)
           m == NumBuckets(n)
           h == Held(n)
           dict == FrontCoded(strings)
           P == Within(strings, p)
           l == LeftBucket(dict, p)
           f == Halving(l, LastBucket(dict),
                        {c \in DOMAIN dict : CompareHead(Header(dict, c), p) <= 0})
           r == RightBucket(dict, p)
<1>1. /\ n \in Nat \ {0} /\ m \in Nat \ {0} /\ h \in 1 .. n
      /\ DOMAIN strings = 1 .. n
      /\ \A x \in 1 .. n : strings[x] \in Texts
  BY OrderedIs, NumBucketsIs
<1>2. LastBucket(dict) = m - 1
  BY OrderedIs, DictionaryIs
<1>3. \A c \in 0 .. m - 1 : Header(dict, c) = strings[At(c) + 1] /\ At(c) + 1 \in 1 .. h
                            /\ At(c) + 1 \in 1 .. n /\ At(c) \in Nat
  <2> SUFFICES ASSUME NEW c \in 0 .. m - 1
               PROVE  Header(dict, c) = strings[At(c) + 1] /\ At(c) + 1 \in 1 .. h
                      /\ At(c) + 1 \in 1 .. n /\ At(c) \in Nat
    OBVIOUS
  <2>1. Header(dict, c) = strings[At(c) + 1] /\ At(c) + 1 \in 1 .. h
    BY HeaderIs
  <2>2. At(c) \in Nat
    BY <1>1, AtIs
  <2> QED  BY <2>1, <2>2, <1>1
<1>4. /\ l \in 0 .. m - 1
      /\ \/ strings[At(l) + 1] = p /\ a = At(l)
         \/ strings[At(l) + 1] # p /\ At(l) < a
         \/ strings[At(l) + 1] # p /\ l = 0 /\ a = 0
  BY LeftBucketIs
<1>5. f \in l .. m /\ (f > l => At(f - 1) < b) /\ (f < m => b <= At(f))
  <2> HIDE DEF l, f
  <2> QED  BY <1>4, RightBucketFound DEF f, m, n, dict
<1>6. r = IF l = m - 1 \/ CompareHead(Header(dict, l + 1), p) > 0 THEN l ELSE f - 1
  BY <1>2 DEF RightBucket
<1>7. /\ b \in 0 .. h /\ \A x \in 1 .. h : x \in Within(strings, p) <=> x <= b
      /\ a \in 0 .. h
  BY DEF IsCut
<1>8. \A c \in 0 .. m - 1 : CompareHead(Header(dict, c), p) > 0 <=> b <= At(c)
  <2> SUFFICES ASSUME NEW c \in 0 .. m - 1
               PROVE  CompareHead(Header(dict, c), p) > 0 <=> b <= At(c)
    OBVIOUS
  <2>1. /\ Header(dict, c) = strings[At(c) + 1] /\ At(c) + 1 \in 1 .. h /\ At(c) + 1 \in 1 .. n
        /\ At(c) \in Nat
    BY <1>3
  <2>2. strings[At(c) + 1] \in Texts /\ At(c) + 1 \in DOMAIN strings
    BY <2>1, <1>1
  <2>3. CompareHead(strings[At(c) + 1], p) \in -1 .. 1
    BY <2>2, CompareHeadIs
  <2>4. CompareHead(strings[At(c) + 1], p) <= 0 <=> At(c) + 1 <= b
    BY <2>1, <2>2, <1>7 DEF Within
  <2> QED  BY <2>1, <2>3, <2>4, <1>1, <1>7
<1>9. strings[At(l) + 1] = p => At(l) < b
  <2> SUFFICES ASSUME strings[At(l) + 1] = p PROVE At(l) < b
    OBVIOUS
  <2>1. Begins(p, p)
    BY LenText DEF Begins
  <2>2. CompareHead(p, p) = 0
    BY <2>1, CompareHeadIs
  <2>3. Header(dict, l) = p
    BY <1>3, <1>4
  <2>4. ~(b <= At(l))
    BY <2>2, <2>3, <1>4, <1>8
  <2> QED  BY <2>4, <1>3, <1>4, <1>7, <1>1
<1> HIDE DEF l, f, r, m, h, n, dict
<1>10. At(l) \in Nat /\ (At(l) < b \/ l = 0)
  <2>1. At(l) \in Nat
    BY <1>3, <1>4
  <2> QED  BY <2>1, <1>4, <1>7, <1>9, <1>1
<1>11. CASE l = m - 1 \/ b <= At(l + 1)
  <2>1. r = l
    <3>1. CASE l = m - 1
      BY <3>1, <1>6
    <3>2. CASE l # m - 1
      <4>1. l + 1 \in 0 .. m - 1
        BY <3>2, <1>1, <1>4
      <4> QED  BY <4>1, <3>2, <1>6, <1>8, <1>11
    <3> QED  BY <3>1, <3>2
  <2>2. At(0) = 0
    BY AtIs
  <2>3. b = 0 => l = 0
    BY <1>10, <1>7, <1>1
  <2>4. b > 0 => At(l) < b
    BY <1>10, <2>2
  <2>5. l < m - 1 => b <= At(l + 1)
    BY <1>11, <1>1, <1>4
  <2> QED  BY <2>1, <2>3, <2>4, <2>5, <1>4 DEF CutIn, r, m, n, dict
<1>12. CASE ~(l = m - 1 \/ b <= At(l + 1))
  <2>1. l + 1 \in 0 .. m - 1
    BY <1>1, <1>4, <1>12
  <2>2. r = f - 1
    BY <2>1, <1>6, <1>8, <1>12
  <2>3. At(l + 1) \in Nat /\ At(l) < At(l + 1)
    <3>1. l \in Nat
      BY <1>1, <1>4
    <3>2. At(l + 1) = At(l) + Span
      BY <3>1, AtIs
    <3> QED  BY <3>2, <1>10, SpanIs
  <2>4. f # l
    BY <2>1, <2>3, <1>1, <1>4, <1>5, <1>7, <1>10, <1>12
  <2>5. f > l
    BY <2>4, <1>1, <1>4, <1>5
  <2>6. f - 1 \in 0 .. m - 1 /\ (f - 1) + 1 = f /\ At(f - 1) < b
    BY <2>5, <1>1, <1>4, <1>5
  <2>7. At(f - 1) \in Nat
    BY <2>6, <1>3
  <2>8. b # 0
    BY <2>6, <2>7, <1>7, <1>1
  <2>9. f - 1 < m - 1 => b <= At((f - 1) + 1)
    BY <2>6, <1>1, <1>4, <1>5
  <2> QED  BY <2>2, <2>6, <2>8, <2>9 DEF CutIn, r, m, n, dict
<1> QED  BY <1>11, <1>12

\* Where a scan to the right ends in the bucket of its cut.
LEMMA EndIs ==
    ASSUME NEW strings, Ordered(strings), NEW p \in Texts,
           NEW b, IsCut(Held(Len(strings)), Within(strings, p), b),
           NEW r \in 0 .. NumBuckets(Len(strings)) - 1, CutIn(Len(strings), r, b)
    PROVE  At(r) + RightLocate(FrontCoded(strings), r, p) = IF b = 0 THEN 0 ELSE b - 1
<1> DEFINE n == Len(strings)
           m == NumBuckets(n)
           y == RightLocate(FrontCoded(strings), r, p)
           g == SizeOf(n, r)
<1>1. n \in Nat \ {0} /\ Held(n) \in 1 .. n
  BY OrderedIs, NumBucketsIs
<1>2. /\ r \in Nat /\ At(r) \in Nat /\ g \in Nat /\ m \in Nat
      /\ r < m - 1 => At(r + 1) = At(r) + 1 + g
      /\ r = m - 1 => At(r) + 1 + g = Held(n)
  BY <1>1, BucketEnds
<1>3. /\ y \in 0 .. g
      /\ b <= At(r) + 1 => y = 0
      /\ At(r) < b /\ b <= At(r) + 1 + g => At(r) + 1 + y = b
  BY RightScan
<1>4. b \in 0 .. Held(n)
  BY DEF IsCut
<1>5. (b = 0 => r = 0) /\ (b > 0 => At(r) < b) /\ (r < m - 1 => b <= At(r + 1))
  BY DEF CutIn
<1>6. At(0) = 0
  BY AtIs
<1>7. r \in 0 .. m - 1
  OBVIOUS
<1> HIDE DEF n, m, y, g
<1>8. CASE b = 0
  BY <1>2, <1>3, <1>5, <1>6, <1>8 DEF y
<1>9. CASE b # 0
  <2>1. b <= At(r) + 1 + g
    BY <1>1, <1>2, <1>4, <1>5, <1>7
  <2> QED  BY <2>1, <1>1, <1>2, <1>3, <1>4, <1>5, <1>9 DEF y
<1> QED  BY <1>8, <1>9

\* Where a scan to the left ends, from the bucket of its cut.
LEMMA BeginIs ==
    ASSUME NEW n \in Nat \ {0}, NEW l \in 0 .. NumBuckets(n) - 1,
           NEW a \in Nat, NEW b \in 0 .. Held(n), a <= b,
           At(l) < a, l < NumBuckets(n) - 1 => a <= At(l + 1),
           NEW x \in 1 .. SizeOf(n, l) + 1,
           x <= SizeOf(n, l) => a < At(l) + 1 + x,
           \A i \in 1 .. SizeOf(n, l) : a < At(l) + 1 + i /\ At(l) + 1 + i <= b => x <= i
    PROVE  /\ a < b => At(l) + x = a
           /\ a = b => At(l) + x >= b
<1> DEFINE m == NumBuckets(n)
           g == SizeOf(n, l)
           h == Held(n)
<1>1. /\ l \in Nat /\ At(l) \in Nat /\ g \in Nat /\ m \in Nat
      /\ l < m - 1 => At(l + 1) = At(l) + 1 + g
      /\ l = m - 1 => At(l) + 1 + g = h
  BY BucketEnds
<1>2. h \in Nat /\ l \in 0 .. m - 1
  BY NumBucketsIs
<1>3. x \in 1 .. g + 1 /\ (x <= g => a < At(l) + 1 + x)
  OBVIOUS
<1>4. \A i \in 1 .. g : a < At(l) + 1 + i /\ At(l) + 1 + i <= b => x <= i
  OBVIOUS
<1>5. b \in 0 .. h /\ (l < m - 1 => a <= At(l + 1))
  OBVIOUS
<1> HIDE DEF m, g, h
<1>6. a <= At(l) + 1 + g
  BY <1>1, <1>2, <1>5
<1>7. At(l) + x >= a
  BY <1>1, <1>3, <1>6
<1>8. ASSUME a < b PROVE At(l) + x <= a
  <2> DEFINE i == a - At(l)
  <2>1. i \in 1 .. g + 1 /\ At(l) + i = a
    BY <1>1, <1>6
  <2> HIDE DEF i
  <2>2. CASE i <= g
    <3>1. i \in 1 .. g /\ a < At(l) + 1 + i /\ At(l) + 1 + i <= b
      BY <2>1, <2>2, <1>1, <1>8, <1>5, <1>2
    <3>2. x <= i
      BY <3>1, <1>4
    <3> QED  BY <3>2, <2>1, <1>1, <1>3
  <2>3. CASE i = g + 1
    BY <2>1, <2>3, <1>1, <1>3
  <2> QED  BY <2>1, <2>2, <2>3, <1>1
<1> QED  BY <1>1, <1>3, <1>7, <1>8

\* locate_prefix() of the terms finds the strings with a prefix, but for the
\* first, if it is not the prefix itself, and those that were lost.
THEOREM TermsLocated ==
    ASSUME NEW strings, Ordered(strings), NEW p \in Texts, p # <<>>, NEW size
    PROVE  LET r == LocateTerms(FrontCoded(strings), size, p)
           IN  /\ r.begin \in Nat /\ r.end \in Nat /\ r = [begin |-> r.begin, end |-> r.end]
               /\ \A x \in Nat :
                     x \in r.begin .. r.end <=>
                         /\ x + 1 \in 1 .. Held(Len(strings))
                         /\ Begins(strings[x + 1], p)
                         /\ x = 0 => strings[1] = p
<1> DEFINE n == Len(strings)
           m == NumBuckets(n)
           h == Held(n)
           dict == FrontCoded(strings)
           l == LeftBucket(dict, p)
           r == RightBucket(dict, p)
           x == LeftLocateTerm(dict, l, p)
           begin == l * Span + (IF Header(dict, l) = p THEN 0 ELSE x)
           end == r * Span + RightLocate(dict, r, p)
           g == SizeOf(n, l)
<1>1. /\ n \in Nat \ {0} /\ m \in Nat \ {0} /\ h \in 1 .. n
      /\ DOMAIN strings = 1 .. n
      /\ \A y \in 1 .. n : strings[y] \in Texts
  BY OrderedIs, NumBucketsIs
<1>2. h \in 0 .. n /\ h \in Nat
  BY <1>1
<1>3. PICK a \in 0 .. h : IsCut(h, Below(strings, p), a)
  <2>1. Descends(h, Below(strings, p))
    <3> HIDE DEF h
    <3> QED  BY <1>2, StringsDescend DEF n
  <2> QED  BY <1>2, <2>1, CutExists
<1>4. PICK b \in 0 .. h : IsCut(h, Within(strings, p), b)
  <2>1. Descends(h, Within(strings, p))
    <3> HIDE DEF h
    <3> QED  BY <1>2, StringsDescend DEF n
  <2> QED  BY <1>2, <2>1, CutExists
<1>5. \A y \in 1 .. h : (y <= a <=> CompareHead(strings[y], p) < 0)
                        /\ (y <= b <=> CompareHead(strings[y], p) <= 0)
                        /\ (CompareHead(strings[y], p) = 0 <=> Begins(strings[y], p))
                        /\ CompareHead(strings[y], p) \in -1 .. 1
  <2> SUFFICES ASSUME NEW y \in 1 .. h
               PROVE  (y <= a <=> CompareHead(strings[y], p) < 0)
                      /\ (y <= b <=> CompareHead(strings[y], p) <= 0)
                      /\ (CompareHead(strings[y], p) = 0 <=> Begins(strings[y], p))
                      /\ CompareHead(strings[y], p) \in -1 .. 1
    OBVIOUS
  <2>1. y \in 1 .. n /\ y \in DOMAIN strings
    BY <1>1
  <2>2. (CompareHead(strings[y], p) = 0 <=> Begins(strings[y], p))
        /\ CompareHead(strings[y], p) \in -1 .. 1
    BY <2>1, <1>1, CompareHeadIs
  <2>3. (y <= a <=> y \in Below(strings, p)) /\ (y <= b <=> y \in Within(strings, p))
    BY <1>3, <1>4 DEF IsCut
  <2> QED  BY <2>1, <2>2, <2>3 DEF Below, Within
<1>6. \A y \in 1 .. h : Begins(strings[y], p) <=> a < y /\ y <= b
  BY <1>5
<1>7. a <= b
  <2> SUFFICES ASSUME b < a PROVE FALSE
    BY <1>1
  <2>1. a \in 1 .. h /\ a <= a
    BY <1>1
  <2> QED  BY <2>1, <1>5
<1>8. /\ l \in 0 .. m - 1
      /\ \/ strings[At(l) + 1] = p /\ a = At(l)
         \/ strings[At(l) + 1] # p /\ At(l) < a
            /\ (l < m - 1 => a <= At(l + 1))
         \/ strings[At(l) + 1] # p /\ l = 0 /\ a = 0
  BY <1>3, LeftBucketIs
<1>9. r \in 0 .. m - 1 /\ CutIn(n, r, b)
  BY <1>3, <1>4, <1>7, RightBucketIs
<1>10. end = IF b = 0 THEN 0 ELSE b - 1
  <2> HIDE DEF r, l
  <2>1. At(r) + RightLocate(dict, r, p) = IF b = 0 THEN 0 ELSE b - 1
    BY <1>4, <1>9, EndIs
  <2> QED  BY <2>1 DEF At
<1>11. /\ x \in 1 .. g + 1
       /\ x <= g => a < At(l) + 1 + x /\ At(l) + 1 + x <= b
       /\ \A i \in 1 .. g : a < At(l) + 1 + i /\ At(l) + 1 + i <= b => x <= i
  <2> HIDE DEF l
  <2> QED  BY <1>3, <1>4, <1>8, LeftScans
<1>12. Header(dict, l) = strings[At(l) + 1] /\ At(l) + 1 \in 1 .. h
  <2> HIDE DEF l
  <2> QED  BY <1>8, HeaderIs
<1>13. begin = At(l) + (IF strings[At(l) + 1] = p THEN 0 ELSE x)
  BY <1>12 DEF At
<1>14. /\ l \in Nat /\ At(l) \in Nat /\ g \in Nat /\ At(l) + 1 + g <= h
       /\ l < m - 1 => g # 0
       /\ l = m - 1 => At(l) + 1 + g = h
  <2> HIDE DEF l
  <2> QED  BY <1>1, <1>8, BucketEnds
<1>15. LocateTerms(dict, size, p) =
          IF end < begin THEN InvalidRange ELSE [begin |-> begin, end |-> end]
  BY DEF LocateTerms
<1>16. At(0) = 0
  BY AtIs
<1>17. (\A y \in 1 .. g : a < At(l) + 1 + y /\ At(l) + 1 + y <= b => x <= y)
       /\ At(l) < a /\ (l < m - 1 => a <= At(l + 1))
       => (a < b => At(l) + x = a) /\ (a = b => At(l) + x >= b)
  <2> SUFFICES ASSUME \A y \in 1 .. g : a < At(l) + 1 + y /\ At(l) + 1 + y <= b => x <= y,
                      At(l) < a, l < m - 1 => a <= At(l + 1)
               PROVE  (a < b => At(l) + x = a) /\ (a = b => At(l) + x >= b)
    OBVIOUS
  <2>1. /\ n \in Nat \ {0} /\ l \in 0 .. NumBuckets(n) - 1
        /\ a \in Nat /\ b \in 0 .. Held(n) /\ a <= b
    BY <1>1, <1>2, <1>3, <1>4, <1>7, <1>8
  <2>2. x \in 1 .. SizeOf(n, l) + 1 /\ (x <= SizeOf(n, l) => a < At(l) + 1 + x)
    BY <1>11
  <2> HIDE DEF l, x, n
  <2> QED  BY <2>1, <2>2, BeginIs
<1> HIDE DEF n, m, h, dict, l, r, x, begin, end, g
<1>18. begin \in Nat /\ end \in Nat
  <2>1. x \in Nat /\ At(l) \in Nat
    BY <1>11, <1>14
  <2>2. begin = At(l) \/ begin = At(l) + x
    BY <1>13, <2>1
  <2>3. b \in Nat
    BY <1>4, <1>2
  <2> QED  BY <2>1, <2>2, <2>3, <1>10
<1>19. \A y \in Nat : y \in begin .. end <=> a <= y /\ y + 1 <= b /\ (y = 0 => strings[1] = p)
  <2>1. CASE strings[At(l) + 1] = p /\ a = At(l)
    <3>1. begin = a
      BY <2>1, <1>13, <1>3, <1>2
    <3>2. b > 0
      <4>1. Begins(p, p)
        BY LenText DEF Begins
      <4>2. At(l) + 1 <= b
        BY <4>1, <2>1, <1>6, <1>12
      <4> QED  BY <4>2, <1>14, <1>4, <1>2
    <3>3. end = b - 1
      BY <3>2, <1>10
    <3>4. a = 0 => strings[1] = p
      BY <2>1
    <3> QED  BY <3>1, <3>3, <3>4, <1>2, <1>3, <1>4
  <2>2. CASE strings[At(l) + 1] # p /\ At(l) < a /\ (l < m - 1 => a <= At(l + 1))
    <3>1. begin = At(l) + x /\ x \in Nat
      BY <2>2, <1>11, <1>13, <1>14
    <3>2. a > 0 /\ b > 0 /\ end = b - 1
      BY <2>2, <1>10, <1>14, <1>7, <1>2
    <3>3. (a < b => At(l) + x = a) /\ (a = b => At(l) + x >= b)
      BY <2>2, <1>11, <1>17
    <3>4. CASE a < b
      BY <3>1, <3>2, <3>3, <3>4, <1>2
    <3>5. CASE a = b
      BY <3>1, <3>2, <3>3, <3>5, <1>2, <1>14
    <3> QED  BY <3>4, <3>5, <1>7, <1>2
  <2>3. CASE strings[At(l) + 1] # p /\ l = 0 /\ a = 0
    <3>1. begin = x /\ x \in 1 .. g + 1 /\ strings[1] # p
      BY <2>3, <1>11, <1>13, <1>14, <1>16
    <3>2. CASE b <= 1
      BY <3>1, <3>2, <2>3, <1>2, <1>10, <1>14
    <3>3. CASE b > 1
      <4>1. g # 0
        BY <3>3, <2>3, <1>1, <1>2, <1>4, <1>14, <1>16
      <4>2. 1 \in 1 .. g /\ a < At(l) + 1 + 1 /\ At(l) + 1 + 1 <= b
        BY <4>1, <3>3, <2>3, <1>2, <1>14, <1>16
      <4>3. x <= 1
        BY <4>2, <1>11
      <4> QED  BY <4>3, <3>1, <3>3, <2>3, <1>2, <1>10, <1>14
    <3> QED  BY <3>2, <3>3, <1>2
  <2> QED  BY <2>1, <2>2, <2>3, <1>8
<1>20. \A y \in Nat : a <= y /\ y + 1 <= b <=> y + 1 \in 1 .. h /\ Begins(strings[y + 1], p)
  <2> SUFFICES ASSUME NEW y \in Nat
               PROVE  a <= y /\ y + 1 <= b <=> y + 1 \in 1 .. h /\ Begins(strings[y + 1], p)
    OBVIOUS
  <2>1. CASE y + 1 \in 1 .. h
    BY <2>1, <1>6, <1>2
  <2>2. CASE y + 1 \notin 1 .. h
    BY <2>2, <1>2
  <2> QED  BY <2>1, <2>2
<1> DEFINE q == LocateTerms(dict, size, p)
<1>21. /\ q.begin \in Nat /\ q.end \in Nat /\ q = [begin |-> q.begin, end |-> q.end]
       /\ \A y \in Nat : y \in q.begin .. q.end <=> y \in begin .. end
  <2>1. CASE end < begin
    BY <2>1, <1>15, <1>18 DEF InvalidRange
  <2>2. CASE ~(end < begin)
    BY <2>2, <1>15, <1>18
  <2> QED  BY <2>1, <2>2
<1> HIDE DEF q
<1>22. \A y \in Nat : y \in q.begin .. q.end <=>
           y + 1 \in 1 .. h /\ Begins(strings[y + 1], p) /\ (y = 0 => strings[1] = p)
  BY <1>19, <1>20, <1>21
<1> QED  BY <1>21, <1>22 DEF q, dict, h, n

-----------------------------------------------------------------------------
(***************************************************************************)
(* locate_prefix() of the completions.  Those that begin with a prefix and *)
(* go on with a term of a range are between the two ends that are sought.  *)
(***************************************************************************)
GoesOn(s, sought, r) ==
    /\ Len(s) > Len(sought)
    /\ \A i \in 1 .. Len(sought) : s[i] = sought[i]
    /\ s[Len(sought) + 1] \in r.begin .. r.end

LEMMA EndsOfRange ==
    ASSUME NEW sought \in Texts, NEW r, r.begin \in Nat, r.end \in Nat
    PROVE  LET n == Len(sought)
               c == Append(sought, r.begin)
               e == RightEnd(sought, r)
           IN  /\ n \in Nat
               /\ c \in Texts /\ Len(c) = n + 1 /\ c[n + 1] = r.begin
               /\ \A i \in 1 .. n : c[i] = sought[i]
               /\ e \in Texts /\ Len(e) \in Nat /\ Len(e) > n /\ e[n + 1] = r.end
               /\ \A i \in 1 .. n : e[i] = sought[i]
               /\ r.begin # r.end => Len(e) = n + 1
               /\ r.begin = r.end => Len(e) = n + 2 /\ e[n + 2] = InvalidTerm
<1> DEFINE n == Len(sought)
           c == Append(sought, r.begin)
           d == Append(sought, r.end)
           e == RightEnd(sought, r)
<1>1. sought \in Seq(Nat) /\ n \in Nat
  BY DEF Texts
<1>2. /\ c \in Seq(Nat) /\ Len(c) = n + 1 /\ c[n + 1] = r.begin
      /\ \A i \in 1 .. n : c[i] = sought[i]
  BY <1>1, AppendProperties
<1>3. /\ d \in Seq(Nat) /\ Len(d) = n + 1 /\ d[n + 1] = r.end
      /\ \A i \in 1 .. n : d[i] = sought[i]
  BY <1>1, AppendProperties
<1>4. CASE r.begin # r.end
  <2>1. e = d \o <<>>
    BY <1>4 DEF RightEnd
  <2>2. e = d
    BY <2>1, <1>3, ConcatEmptySeq
  <2> HIDE DEF e, d, c
  <2> QED  BY <2>2, <1>1, <1>2, <1>3, <1>4 DEF Texts, e, c
<1>5. CASE r.begin = r.end
  <2>1. e = d \o <<InvalidTerm>>
    BY <1>5 DEF RightEnd
  <2>2. <<InvalidTerm>> \in Seq(Nat) /\ Len(<<InvalidTerm>>) = 1 /\ <<InvalidTerm>>[1] = InvalidTerm
    BY InvalidTermAssumption
  <2> DEFINE f == <<InvalidTerm>>
  <2> HIDE DEF f, d, e, c
  <2>3. /\ e \in Seq(Nat) /\ Len(e) = Len(d) + Len(f)
        /\ \A i \in 1 .. Len(d) + Len(f) : e[i] = IF i <= Len(d) THEN d[i] ELSE f[i - Len(d)]
    BY <2>1, <2>2, <1>3, ConcatProperties DEF f
  <2>4. Len(d) = n + 1 /\ Len(f) = 1 /\ Len(e) = n + 2
    BY <2>2, <2>3, <1>1, <1>3 DEF f
  <2>5. e[n + 2] = InvalidTerm
    <3>1. n + 2 \in 1 .. Len(d) + Len(f) /\ ~(n + 2 <= Len(d)) /\ (n + 2) - Len(d) = 1
      BY <2>4, <1>1
    <3> QED  BY <3>1, <2>2, <2>3 DEF f
  <2>6. \A i \in 1 .. n + 1 : e[i] = d[i]
    <3>1. \A i \in 1 .. n + 1 : i \in 1 .. Len(d) + Len(f) /\ i <= Len(d)
      BY <2>4, <1>1
    <3> QED  BY <3>1, <2>3
  <2>7. e[n + 1] = r.end /\ \A i \in 1 .. n : e[i] = sought[i]
    BY <2>6, <1>1, <1>3
  <2> QED  BY <2>3, <2>4, <2>5, <2>7, <1>1, <1>2, <1>5 DEF Texts, e, c
<1> QED  BY <1>4, <1>5

LEMMA BetweenEnds ==
    ASSUME NEW sought \in Texts, NEW r, r.begin \in Nat, r.end \in Nat, r.begin <= r.end,
           NEW s \in Texts, \A i \in 1 .. Len(s) : s[i] < InvalidTerm
    PROVE  LET c == Append(sought, r.begin)
               e == RightEnd(sought, r)
           IN  /\ GoesOn(s, sought, r) <=> ~Before(s, c) /\ CompareHead(s, e) <= 0
               /\ s = c => GoesOn(s, sought, r)
               /\ Before(s, c) => CompareHead(s, e) <= 0
<1> DEFINE n == Len(sought)
           c == Append(sought, r.begin)
           e == RightEnd(sought, r)
           lo == r.begin
           hi == r.end
<1>1. /\ n \in Nat /\ lo \in Nat /\ hi \in Nat /\ lo <= hi
      /\ c \in Texts /\ Len(c) = n + 1 /\ c[n + 1] = lo
      /\ \A i \in 1 .. n : c[i] = sought[i]
      /\ e \in Texts /\ Len(e) \in Nat /\ Len(e) > n /\ e[n + 1] = hi
      /\ \A i \in 1 .. n : e[i] = sought[i]
      /\ lo # hi => Len(e) = n + 1
      /\ lo = hi => Len(e) = n + 2 /\ e[n + 2] = InvalidTerm
  BY EndsOfRange
<1>2. /\ Len(s) \in Nat /\ \A i \in 1 .. Len(s) : s[i] \in Nat /\ s[i] < InvalidTerm
      /\ \A i \in 1 .. Len(sought) : sought[i] \in Nat
  BY DEF Texts
<1>3. GoesOn(s, sought, r) <=>
         Len(s) > n /\ (\A i \in 1 .. n : s[i] = sought[i]) /\ s[n + 1] \in lo .. hi
  BY DEF GoesOn
<1>4. (CompareHead(s, e) <= 0 <=> Begins(s, e) \/ Before(s, e))
  <2>1. CompareHead(s, e) \in -1 .. 1 /\ (CompareHead(s, e) = 0 <=> Begins(s, e))
        /\ (CompareHead(s, e) < 0 <=> Before(s, e))
    BY <1>1, CompareHeadIs
  <2> QED  BY <2>1
<1> HIDE DEF n, c, e, lo, hi
<1>5. ASSUME Before(s, c)
      PROVE  Before(s, e) /\ ~GoesOn(s, sought, r)
  <2>1. PICK l \in Nat : Parts(s, c, l)
    BY <1>5, <1>1, BeforeParts
  <2>2. /\ l <= Len(s) /\ l < n + 1 /\ \A i \in 1 .. l : s[i] = c[i]
        /\ l = Len(s) \/ s[l + 1] < c[l + 1]
    BY <2>1, <1>1 DEF Parts
  <2>3. \A i \in 1 .. l : s[i] = e[i]
    BY <2>2, <1>1
  <2>4. CASE l = Len(s)
    <3>1. Parts(s, e, l)
      BY <2>2, <2>3, <2>4, <1>1 DEF Parts
    <3> QED  BY <3>1, <2>2, <2>4, <1>1, <1>3, PartsBefore
  <2>5. CASE l < Len(s) /\ l < n
    <3>1. l + 1 \in 1 .. n /\ l + 1 \in 1 .. Len(s)
      BY <2>5, <1>1, <1>2
    <3>2. c[l + 1] = sought[l + 1] /\ e[l + 1] = sought[l + 1] /\ s[l + 1] < sought[l + 1]
          /\ s[l + 1] \in Nat
      BY <3>1, <2>2, <2>5, <1>1, <1>2
    <3>3. Parts(s, e, l)
      BY <3>2, <2>2, <2>3, <2>5, <1>1 DEF Parts
    <3>4. s[l + 1] # sought[l + 1]
      <4>1. sought[l + 1] \in Nat
        BY <3>1, <1>2 DEF n
      <4> QED  BY <4>1, <3>2
    <3> QED  BY <3>1, <3>3, <3>4, <1>1, <1>3, PartsBefore
  <2>6. CASE l < Len(s) /\ l = n
    <3>1. s[n + 1] < lo /\ s[n + 1] \in Nat
      BY <2>2, <2>6, <1>1, <1>2
    <3>2. s[n + 1] < hi
      BY <3>1, <1>1
    <3>3. Parts(s, e, l)
      BY <3>2, <2>2, <2>3, <2>6, <1>1 DEF Parts
    <3>4. s[n + 1] \notin lo .. hi
      BY <3>1, <1>1
    <3> QED  BY <3>3, <3>4, <1>1, <1>3, PartsBefore
  <2> QED  BY <2>2, <2>4, <2>5, <2>6, <1>1, <1>2
<1>6. ASSUME GoesOn(s, sought, r)
      PROVE  Begins(s, e) \/ Before(s, e)
  <2>1. Len(s) > n /\ (\A i \in 1 .. n : s[i] = sought[i]) /\ s[n + 1] \in lo .. hi
    BY <1>3, <1>6
  <2>2. \A i \in 1 .. n : s[i] = e[i]
    BY <2>1, <1>1
  <2>3. CASE s[n + 1] < hi
    <3>1. Parts(s, e, n)
      BY <2>1, <2>2, <2>3, <1>1, <1>2 DEF Parts
    <3> QED  BY <3>1, <1>1, PartsBefore
  <2>4. CASE s[n + 1] = hi
    <3>1. \A i \in 1 .. n + 1 : s[i] = e[i]
      BY <2>2, <2>4, <1>1
    <3>2. CASE lo # hi
      BY <3>1, <3>2, <2>1, <1>1, <1>2 DEF Begins
    <3>3. CASE lo = hi
      <4>1. Len(e) = n + 2 /\ e[n + 2] = InvalidTerm
        BY <3>3, <1>1
      <4>2. n + 1 = Len(s) \/ s[n + 2] < InvalidTerm
        BY <2>1, <1>1, <1>2
      <4>3. (n + 1) + 1 = n + 2 /\ n + 1 <= Len(s) /\ n + 1 < Len(e)
        BY <4>1, <2>1, <1>1, <1>2
      <4>4. Parts(s, e, n + 1)
        BY <3>1, <4>1, <4>2, <4>3 DEF Parts
      <4> QED  BY <4>4, <1>1, PartsBefore
    <3> QED  BY <3>2, <3>3
  <2> QED  BY <2>1, <2>3, <2>4, <1>1
<1>7. ASSUME s = c
      PROVE  GoesOn(s, sought, r)
  BY <1>7, <1>1, <1>3
<1>8. ASSUME ~Before(s, c), s # c, Begins(s, e) \/ Before(s, e)
      PROVE  GoesOn(s, sought, r)
  <2>1. PICK l \in Nat : Parts(c, s, l)
    <3>1. Before(c, s)
      BY <1>8, <1>1, OneIsBefore
    <3> QED  BY <3>1, <1>1, BeforeParts
  <2>2. /\ l <= n + 1 /\ l < Len(s) /\ \A i \in 1 .. l : c[i] = s[i]
        /\ l = n + 1 \/ c[l + 1] < s[l + 1]
    BY <2>1, <1>1 DEF Parts
  <2>3. PICK j \in Nat : /\ j <= Len(e) /\ \A i \in 1 .. j : s[i] = e[i]
                         /\ j = Len(e) \/ (j < Len(e) /\ (j = Len(s) \/ s[j + 1] < e[j + 1]))
                         /\ j <= Len(s)
    <3>1. CASE Begins(s, e)
      BY <3>1, <1>1 DEF Begins
    <3>2. CASE Before(s, e)
      <4>1. PICK j \in Nat : Parts(s, e, j)
        BY <3>2, <1>1, BeforeParts
      <4> QED  BY <4>1, <1>1 DEF Parts
    <3> QED  BY <1>8, <3>1, <3>2
  <2>4. ASSUME l < n PROVE FALSE
    <3>1. l + 1 \in 1 .. n /\ l + 1 \in 1 .. Len(s) /\ l # n + 1
      BY <2>2, <2>4, <1>1, <1>2
    <3>2. c[l + 1] = e[l + 1] /\ c[l + 1] < s[l + 1] /\ s[l + 1] \in Nat /\ c[l + 1] \in Nat
      BY <3>1, <2>2, <1>1, <1>2 DEF n
    <3>3. CASE j > l
      <4>1. l + 1 \in 1 .. j
        BY <3>3
      <4> QED  BY <4>1, <3>2, <2>3
    <3>4. CASE j = l
      <4>1. j # Len(e) /\ j # Len(s)
        BY <3>4, <2>2, <2>4, <1>1, <1>2
      <4> QED  BY <4>1, <3>2, <3>4, <2>3
    <3>5. CASE j < l
      <4>1. j # Len(e) /\ j # Len(s) /\ j + 1 \in 1 .. l /\ j + 1 \in 1 .. n
        BY <3>5, <2>2, <2>4, <1>1, <1>2
      <4>2. c[j + 1] = s[j + 1] /\ e[j + 1] = c[j + 1] /\ c[j + 1] \in Nat
        BY <4>1, <2>2, <1>1, <1>2 DEF n
      <4> QED  BY <4>1, <4>2, <2>3
    <3> QED  BY <3>3, <3>4, <3>5
  <2>5. l = n \/ l = n + 1
    BY <2>2, <2>4, <1>1
  <2>6. Len(s) > n /\ \A i \in 1 .. n : s[i] = sought[i]
    BY <2>2, <2>5, <1>1, <1>2
  <2>7. s[n + 1] \in Nat /\ lo <= s[n + 1]
    <3>1. n + 1 \in 1 .. Len(s)
      BY <2>6, <1>1, <1>2
    <3>2. CASE l = n
      BY <3>1, <3>2, <2>2, <1>1, <1>2
    <3>3. CASE l = n + 1
      <4>1. n + 1 \in 1 .. l
        BY <3>3, <1>1
      <4> QED  BY <4>1, <3>1, <2>2, <1>1, <1>2
    <3> QED  BY <3>2, <3>3, <2>5
  <2>8. s[n + 1] <= hi
    <3>1. CASE j > n
      <4>1. n + 1 \in 1 .. j
        BY <3>1, <1>1
      <4> QED  BY <4>1, <2>3, <2>7, <1>1
    <3>2. CASE j = n
      BY <3>2, <2>3, <2>6, <2>7, <1>1, <1>2
    <3>3. CASE j < n
      <4>1. j # Len(e) /\ j # Len(s) /\ j + 1 \in 1 .. n
        BY <3>3, <2>6, <1>1, <1>2
      <4>2. s[j + 1] = sought[j + 1] /\ e[j + 1] = sought[j + 1] /\ sought[j + 1] \in Nat
        BY <4>1, <2>6, <1>1, <1>2 DEF n
      <4> QED  BY <4>1, <4>2, <2>3
    <3> QED  BY <3>1, <3>2, <3>3, <1>1
  <2>9. s[n + 1] \in lo .. hi
    BY <2>7, <2>8, <1>1
  <2> QED  BY <2>6, <2>9, <1>3
<1>9. GoesOn(s, sought, r) <=> ~Before(s, c) /\ CompareHead(s, e) <= 0
  BY <1>4, <1>5, <1>6, <1>7, <1>8
<1>10. Before(s, c) => CompareHead(s, e) <= 0
  BY <1>4, <1>5
<1> QED  BY <1>7, <1>9, <1>10 DEF c, e

\* locate_prefix() of the completions finds those that go on with a term of
\* the range, but for the first, if it is not the begin of the range itself,
\* and those that were lost.
THEOREM ListsLocated ==
    ASSUME NEW strings, Ordered(strings),
           \A z \in 1 .. Len(strings) : \A i \in 1 .. Len(strings[z]) : strings[z][i] < InvalidTerm,
           NEW sought \in Texts, NEW q, q.begin \in Nat, q.end \in Nat, q.begin <= q.end
    PROVE  LET o == LocateLists(FrontCoded(strings), sought, q)
           IN  /\ o.begin \in Nat /\ o.end \in Nat /\ o = [begin |-> o.begin, end |-> o.end]
               /\ \A x \in Nat :
                     x \in o.begin .. o.end - 1 <=>
                         /\ x + 1 \in 1 .. Held(Len(strings))
                         /\ GoesOn(strings[x + 1], sought, q)
                         /\ x = 0 => strings[1] = Append(sought, q.begin)
<1> DEFINE n == Len(strings)
           m == NumBuckets(n)
           h == Held(n)
           dict == FrontCoded(strings)
           c == Append(sought, q.begin)
           e == RightEnd(sought, q)
           l == LocateBucket(dict, c)
           f == Halving(l, LastBucket(dict),
                        {z \in DOMAIN dict : CompareHead(Header(dict, z), e) <= 0})
           r == LocateRightBucket(dict, e, l)
           x == LeftLocateList(dict, l, c)
           begin == l * Span + (IF Header(dict, l) = c THEN 0 ELSE x)
           end == r * Span + RightLocate(dict, r, e)
           g == SizeOf(n, l)
<1>1. /\ n \in Nat \ {0} /\ m \in Nat \ {0} /\ h \in 1 .. n
      /\ DOMAIN strings = 1 .. n
      /\ \A y \in 1 .. n : strings[y] \in Texts
      /\ \A y, z \in 1 .. n : y < z => Before(strings[y], strings[z])
  BY OrderedIs, NumBucketsIs
<1>2. h \in 0 .. n /\ h \in Nat
  BY <1>1
<1>3. c \in Texts /\ e \in Texts
  BY EndsOfRange
<1>4. PICK a \in 0 .. h : IsCut(h, Below(strings, c), a)
  <2>1. Descends(h, Below(strings, c))
    <3> HIDE DEF h, c
    <3> QED  BY <1>2, <1>3, StringsDescend DEF n
  <2> QED  BY <1>2, <2>1, CutExists
<1>5. PICK b \in 0 .. h : IsCut(h, Within(strings, e), b)
  <2>1. Descends(h, Within(strings, e))
    <3> HIDE DEF h, e
    <3> QED  BY <1>2, <1>3, StringsDescend DEF n
  <2> QED  BY <1>2, <2>1, CutExists
<1>6. PICK d \in 0 .. h : IsCut(h, AtMost(strings, c), d)
  <2>1. Descends(h, AtMost(strings, c))
    <3> HIDE DEF h, c
    <3> QED  BY <1>2, <1>3, StringsDescend DEF n
  <2> QED  BY <1>2, <2>1, CutExists
<1>7. \A y \in 1 .. h :
         /\ y <= a <=> Before(strings[y], c)
         /\ y <= d <=> strings[y] = c \/ Before(strings[y], c)
         /\ GoesOn(strings[y], sought, q) <=> a < y /\ y <= b
         /\ strings[y] = c => y <= b
         /\ y <= a => y <= b
  <2> SUFFICES ASSUME NEW y \in 1 .. h
               PROVE  /\ y <= a <=> Before(strings[y], c)
                      /\ y <= d <=> strings[y] = c \/ Before(strings[y], c)
                      /\ GoesOn(strings[y], sought, q) <=> a < y /\ y <= b
                      /\ strings[y] = c => y <= b
                      /\ y <= a => y <= b
    OBVIOUS
  <2>1. y \in 1 .. n /\ y \in DOMAIN strings /\ strings[y] \in Texts
    BY <1>1
  <2>2. \A i \in 1 .. Len(strings[y]) : strings[y][i] < InvalidTerm
    BY <2>1
  <2>3. /\ GoesOn(strings[y], sought, q) <=>
              ~Before(strings[y], c) /\ CompareHead(strings[y], e) <= 0
        /\ strings[y] = c => GoesOn(strings[y], sought, q)
        /\ Before(strings[y], c) => CompareHead(strings[y], e) <= 0
    <3> DEFINE s == strings[y]
    <3>1. s \in Texts /\ \A i \in 1 .. Len(s) : s[i] < InvalidTerm
      BY <2>1, <2>2
    <3> HIDE DEF s
    <3> QED  BY <3>1, BetweenEnds DEF s
  <2>4. /\ CompareHead(strings[y], c) < 0 <=> Before(strings[y], c)
        /\ Compare(strings[y], c) <= 0 <=> strings[y] = c \/ Before(strings[y], c)
    <3> HIDE DEF c
    <3> QED  BY <2>1, <1>3, CompareHeadIs, CompareIs
  <2>5. /\ y <= a <=> y \in Below(strings, c)
        /\ y <= b <=> y \in Within(strings, e)
        /\ y <= d <=> y \in AtMost(strings, c)
    BY <1>4, <1>5, <1>6 DEF IsCut
  <2>6. /\ y \in Below(strings, c) <=> CompareHead(strings[y], c) < 0
        /\ y \in Within(strings, e) <=> CompareHead(strings[y], e) <= 0
        /\ y \in AtMost(strings, c) <=> Compare(strings[y], c) <= 0
    BY <2>1 DEF Below, Within, AtMost
  <2>7. a \in Nat /\ y \in Nat /\ (a < y <=> ~(y <= a))
    BY <1>2
  <2> HIDE DEF c, e
  <2> QED  BY <2>3, <2>4, <2>5, <2>6, <2>7
<1>8. a <= d /\ d <= b
  <2>1. ASSUME d < a PROVE FALSE
    <3>1. a \in 1 .. h /\ a <= a
      BY <2>1, <1>2
    <3>2. a <= d
      BY <3>1, <1>7
    <3> QED  BY <3>2, <2>1, <1>2
  <2>2. ASSUME b < d PROVE FALSE
    <3>1. d \in 1 .. h /\ d <= d
      BY <2>2, <1>2
    <3>2. d <= b
      BY <3>1, <1>7
    <3> QED  BY <3>2, <2>2, <1>2
  <2> QED  BY <2>1, <2>2, <1>2
<1>9. l \in 0 .. m - 1 /\ CutIn(n, l, d)
  <2> HIDE DEF c
  <2> QED  BY <1>3, <1>6, BucketFound
<1>10. Header(dict, l) = strings[At(l) + 1] /\ At(l) + 1 \in 1 .. h
  <2> HIDE DEF l
  <2> QED  BY <1>9, HeaderIs
<1>11. /\ l \in Nat /\ At(l) \in Nat /\ g \in Nat /\ At(l) + 1 + g <= h
       /\ l = m - 1 => At(l) + 1 + g = h
       /\ l < m - 1 => At(l + 1) = At(l) + 1 + g
  <2> HIDE DEF l
  <2> QED  BY <1>1, <1>9, BucketEnds
<1>12. /\ d = 0 => l = 0
       /\ d > 0 => At(l) < d
       /\ l < m - 1 => d <= At(l + 1)
  BY <1>9 DEF CutIn
<1>13. f \in l .. m /\ (f > l => At(f - 1) < b) /\ (f < m => b <= At(f))
  <2> HIDE DEF l, f, e
  <2> QED  BY <1>3, <1>5, <1>9, RightBucketFound DEF f
<1>14. r = IF f = 0 THEN 0 ELSE f - 1
  <2>1. r = Max({0, f - 1})
    BY DEF LocateRightBucket
  <2>2. f \in Nat
    BY <1>1, <1>11, <1>13
  <2> DEFINE y == f - 1
  <2>3. y \in Int /\ (y >= 0 <=> f # 0)
    BY <2>2
  <2> HIDE DEF f, y
  <2>4. r = IF y >= 0 THEN y ELSE 0
    BY <2>1, <2>3, MaxOfTwo DEF y
  <2> QED  BY <2>3, <2>4 DEF y
<1>15. begin = At(l) + (IF strings[At(l) + 1] = c THEN 0 ELSE x)
  BY <1>10 DEF At
<1>16. /\ x \in 1 .. g + 1
       /\ x <= g => a < At(l) + 1 + x
       /\ \A i \in 1 .. g : a < At(l) + 1 + i => x <= i
  <2>1. Descends(h, Within(strings, c))
    <3> HIDE DEF h, c
    <3> QED  BY <1>2, <1>3, StringsDescend DEF n
  <2>2. PICK z \in 0 .. h : IsCut(h, Within(strings, c), z)
    <3> HIDE DEF h, c
    <3> QED  BY <1>2, <2>1, CutExists
  <2> HIDE DEF l, c
  <2> QED  BY <1>3, <1>4, <1>9, <2>2, LeftScans
<1>17. At(l) < a /\ (l < m - 1 => a <= At(l + 1))
       => (a < h => At(l) + x = a) /\ (a = h => At(l) + x >= h)
  <2>1. h \in 0 .. Held(n) /\ a \in Nat /\ a <= h
    BY <1>2
  <2>2. \A i \in 1 .. g : a < At(l) + 1 + i /\ At(l) + 1 + i <= h => x <= i
    BY <1>16
  <2> HIDE DEF l, x
  <2> QED  BY <1>1, <1>2, <1>9, <1>16, <2>1, <2>2, BeginIs
<1>18. At(0) = 0
  BY AtIs
<1>19. LocateLists(dict, sought, q) =
          IF end < begin THEN InvalidRange ELSE [begin |-> begin, end |-> end + 1]
  BY DEF LocateLists
<1> HIDE DEF l, f, r, x, begin, n, m, h, dict, g, c, e
<1>20. r \in 0 .. m - 1 /\ CutIn(n, r, b)
  <2>1. CASE f > l
    <3>1. r = f - 1 /\ r \in 0 .. m - 1 /\ r + 1 = f /\ At(r) < b
      BY <2>1, <1>1, <1>9, <1>13, <1>14
    <3>2. At(r) \in Nat
      BY <3>1, <1>1, AtIs
    <3>3. b # 0
      BY <3>1, <3>2, <1>2
    <3>4. r < m - 1 => b <= At(r + 1)
      BY <3>1, <1>1, <1>13
    <3> QED  BY <3>1, <3>3, <3>4 DEF CutIn, m
  <2>2. CASE ~(f > l)
    <3>1. f = l /\ b <= At(l)
      BY <2>2, <1>1, <1>9, <1>13
    <3>2. d = 0 /\ l = 0
      BY <3>1, <1>2, <1>8, <1>11, <1>12
    <3>3. b = 0 /\ r = 0 /\ r \in 0 .. m - 1
      BY <3>1, <3>2, <1>1, <1>2, <1>14, <1>18
    <3>4. At(r + 1) \in Nat
      BY <3>3, AtIs
    <3> QED  BY <3>3, <3>4 DEF CutIn, m
  <2> QED  BY <2>1, <2>2
<1>21. end = IF b = 0 THEN 0 ELSE b - 1
  <2>1. At(r) + RightLocate(dict, r, e) = IF b = 0 THEN 0 ELSE b - 1
    BY <1>3, <1>5, <1>20, EndIs DEF h, n, m, dict
  <2> QED  BY <2>1 DEF At
<1> HIDE DEF end
<1>22. begin \in Nat /\ end \in Nat
  BY <1>2, <1>11, <1>15, <1>16, <1>21
<1>23. \A y \in Nat : y \in begin .. end <=> a <= y /\ y + 1 <= b /\ (y = 0 => strings[1] = c)
  <2>1. CASE strings[At(l) + 1] = c
    <3>1. begin = At(l)
      BY <2>1, <1>11, <1>15
    <3>2. a = At(l)
      <4>1. ~(At(l) + 1 <= a)
        BY <2>1, <1>3, <1>7, <1>10, NotBeforeItself
      <4>2. CASE At(l) = 0
        BY <4>1, <4>2, <1>2
      <4>3. CASE At(l) # 0
        <5>1. At(l) \in 1 .. h /\ At(l) \in 1 .. n /\ At(l) + 1 \in 1 .. n
          BY <4>3, <1>1, <1>10, <1>11
        <5>2. Before(strings[At(l)], c)
          BY <5>1, <2>1, <1>1, <1>11
        <5>3. At(l) <= a
          BY <5>1, <5>2, <1>7
        <5> QED  BY <5>3, <4>1, <1>2, <1>11
      <4> QED  BY <4>2, <4>3
    <3>3. At(l) + 1 <= b
      BY <2>1, <1>7, <1>10
    <3>4. a = 0 => strings[1] = c
      BY <2>1, <3>2
    <3> QED  BY <3>1, <3>2, <3>3, <3>4, <1>2, <1>11, <1>21
  <2>2. CASE strings[At(l) + 1] # c /\ d > 0
    <3>1. At(l) < d
      BY <2>2, <1>12
    <3>2. At(l) + 1 <= d
      BY <3>1, <1>2, <1>11
    <3>3. At(l) + 1 <= a
      BY <3>2, <2>2, <1>7, <1>10
    <3>4. At(l) < a /\ (l < m - 1 => a <= At(l + 1))
      BY <3>3, <1>2, <1>8, <1>11, <1>12, <1>1, <1>9
    <3>5. (a < h => begin = a) /\ (a = h => begin >= h)
      BY <3>4, <2>2, <1>15, <1>17
    <3>6. a > 0 /\ b > 0 /\ end = b - 1
      BY <3>3, <1>2, <1>8, <1>11, <1>21
    <3>7. CASE a < h
      BY <3>5, <3>6, <3>7, <1>2, <1>22
    <3>8. CASE a = h
      BY <3>5, <3>6, <3>8, <1>2, <1>22
    <3> QED  BY <3>7, <3>8, <1>2
  <2>3. CASE strings[At(l) + 1] # c /\ d = 0
    <3>1. l = 0 /\ a = 0 /\ strings[1] # c
      BY <2>3, <1>2, <1>8, <1>12, <1>18
    <3>2. x = 1
      <4>1. CASE g = 0
        BY <4>1, <1>16
      <4>2. CASE g # 0
        <5>1. 1 \in 1 .. g /\ a < At(l) + 1 + 1
          BY <4>2, <3>1, <1>11
        <5>2. x <= 1
          BY <5>1, <1>16
        <5> QED  BY <5>2, <1>16, <1>11
      <4> QED  BY <4>1, <4>2
    <3>3. begin = 1
      BY <2>3, <3>1, <3>2, <1>15, <1>18
    <3> QED  BY <3>1, <3>3, <1>2, <1>21
  <2> QED  BY <2>1, <2>2, <2>3, <1>2
<1>24. \A y \in Nat : a <= y /\ y + 1 <= b <=>
                       y + 1 \in 1 .. h /\ GoesOn(strings[y + 1], sought, q)
  <2> SUFFICES ASSUME NEW y \in Nat
               PROVE  a <= y /\ y + 1 <= b <=>
                       y + 1 \in 1 .. h /\ GoesOn(strings[y + 1], sought, q)
    OBVIOUS
  <2>1. CASE y + 1 \in 1 .. h
    <3>1. GoesOn(strings[y + 1], sought, q) <=> a < y + 1 /\ y + 1 <= b
      BY <2>1, <1>7
    <3> QED  BY <3>1, <2>1, <1>2
  <2>2. CASE y + 1 \notin 1 .. h
    BY <2>2, <1>2
  <2> QED  BY <2>1, <2>2
<1> DEFINE o == LocateLists(dict, sought, q)
<1>25. /\ o.begin \in Nat /\ o.end \in Nat /\ o = [begin |-> o.begin, end |-> o.end]
       /\ \A y \in Nat : y \in o.begin .. o.end - 1 <=> y \in begin .. end
  <2>1. CASE end < begin
    BY <2>1, <1>19, <1>22 DEF InvalidRange
  <2>2. CASE ~(end < begin)
    BY <2>2, <1>19, <1>22
  <2> QED  BY <2>1, <2>2
<1> HIDE DEF o
<1>26. \A y \in Nat : y \in o.begin .. o.end - 1 <=>
           y + 1 \in 1 .. h /\ GoesOn(strings[y + 1], sought, q) /\ (y = 0 => strings[1] = c)
  BY <1>23, <1>24, <1>25
<1> QED  BY <1>25, <1>26 DEF o, dict, h, n, c

\* extract() yields every string the dictionary holds, and an empty one for
\* those it has lost.
LEMMA Extracted ==
    ASSUME NEW strings, Ordered(strings), NEW id \in 0 .. Len(strings) - 1
    PROVE  Extract(FrontCoded(strings), id) =
              IF id + 1 <= Held(Len(strings)) THEN strings[id + 1] ELSE <<>>
<1> DEFINE n == Len(strings)
           m == NumBuckets(n)
           h == Held(n)
           dict == FrontCoded(strings)
           b == id \div Span
           i == id % Span
           g == SizeOf(n, b)
<1>1. n \in Nat \ {0} /\ m \in Nat \ {0} /\ h \in 1 .. n
  BY OrderedIs, NumBucketsIs
<1>2. id \in Nat /\ id < n
  BY <1>1
<1>3. b \in Nat /\ i \in 0 .. Span - 1 /\ At(b) + i = id
  BY <1>2, DivisionBy
<1> DEFINE last == m - 1
           s == LastSize(n)
<1>4. last \in Nat /\ s \in 0 .. BucketSize /\ At(last) + 1 + s = h /\ At(last) \in Nat
  <2>1. last \in Nat /\ s \in 0 .. BucketSize /\ At(last) + 1 + s = h
    BY <1>1, Buckets
  <2> QED  BY <2>1, AtIs
<1>5. n <= At(last) + Span
  <2>1. m = (n + BucketSize) \div Span
    BY DEF NumBuckets
  <2> DEFINE z == n + BucketSize
             y == z % Span
  <2>2. z \in Nat
    BY <1>1, SpanIs
  <2>3. At(z \div Span) + y = z /\ y \in 0 .. Span - 1
    <3> HIDE DEF z
    <3> QED  BY <2>2, DivisionBy
  <2>4. At(last + 1) = At(last) + Span /\ last + 1 = m
    <3>1. last + 1 = m
      BY <1>1
    <3> HIDE DEF last
    <3> QED  BY <3>1, <1>4, AtIs
  <2> HIDE DEF y, last, m
  <2>5. At(m) + y = n + BucketSize
    BY <2>1, <2>3
  <2> DEFINE x == At(last)
             w == At(m)
  <2>6. /\ x \in Nat /\ w = x + Span /\ w + y = n + BucketSize /\ y \in 0 .. Span - 1
        /\ Span = BucketSize + 1 /\ BucketSize \in Nat /\ n \in Nat
    BY <2>3, <2>4, <2>5, <1>1, <1>4, SpanIs
  <2> HIDE DEF x, w, n
  <2>7. n <= x + Span
    BY <2>6
  <2> QED  BY <2>7 DEF x
<1>6. Extract(dict, id) = IF i <= Len(dict[b].rest) THEN Decoded(dict, b, i) ELSE <<>>
  BY DEF Extract
<1> HIDE DEF b, i, last, s
<1>7. b \in 0 .. last
  <2> SUFFICES ASSUME last < b PROVE FALSE
    BY <1>3, <1>4
  <2>1. At(last) + Span <= At(b) /\ At(b) \in Nat
    BY <1>3, <1>4, AtAscends, AtIs
  <2> QED  BY <2>1, <1>1, <1>2, <1>3, <1>4, <1>5, SpanIs, SMTT(30)
<1>8. /\ At(b) \in Nat /\ g \in Nat /\ At(b) + 1 + g <= h
      /\ b < last => g = BucketSize
      /\ b = last => At(b) + 1 + g = h
  <2>1. b \in 0 .. m - 1
    BY <1>7 DEF last
  <2>2. /\ At(b) \in Nat /\ g \in 0 .. BucketSize /\ At(b) + 1 + g <= h
        /\ b < last => g = BucketSize
        /\ b = last => At(b) + 1 + g = h
    BY <2>1, <1>1, BucketsOf DEF last
  <2> QED  BY <2>2, SpanIs
<1>9. Len(dict[b].rest) = g
  <2>1. b \in 0 .. m - 1
    BY <1>7 DEF last
  <2> QED  BY <2>1, HeaderIs
<1>10. ASSUME i <= g
       PROVE  Extract(dict, id) = strings[id + 1] /\ id + 1 <= h
  <2>1. b \in 0 .. m - 1 /\ i \in 0 .. g
    BY <1>3, <1>7, <1>8, <1>10 DEF last
  <2>2. Decoded(dict, b, i) = strings[At(b) + 1 + i]
    BY <2>1, PlaceIs
  <2>3. At(b) + 1 + i = id + 1 /\ id + 1 <= h
    BY <1>1, <1>2, <1>3, <1>8, <1>10
  <2> QED  BY <2>2, <2>3, <1>6, <1>9, <1>10
<1>11. ASSUME ~(i <= g)
       PROVE  Extract(dict, id) = <<>> /\ ~(id + 1 <= h)
  <2>1. b = last
    <3> SUFFICES ASSUME b < last PROVE FALSE
      BY <1>3, <1>4, <1>7
    <3>1. g = BucketSize
      BY <1>8
    <3> QED  BY <3>1, <1>3, <1>11, SpanIs
  <2> HIDE DEF g, h
  <2> QED  BY <2>1, <1>1, <1>2, <1>3, <1>6, <1>8, <1>9, <1>11
<1> QED  BY <1>10, <1>11 DEF dict, h, n

-----------------------------------------------------------------------------
(***************************************************************************)
(* The builder of the trie: how many nodes a level has, and the symbol,    *)
(* the first and the last completion and the first child of each; a node   *)
(* that is not closed ends with the last completion and the last child.    *)
(***************************************************************************)
Size(b, i) == Len(b.nodes[i])
NodeAt(b, i, p) == b.nodes[i][p]
FirstOf(b, i, p) == b.lefts[i][p]
LastOf(b, i, p) == IF p <= Len(b.ends[i]) THEN b.ends[i][p] ELSE b.read - 1
ChildAt(b, i, p) == IF p <= Len(b.pointers[i]) THEN b.pointers[i][p] ELSE Len(b.nodes[i + 1])

\* The symbol of a string on a level, the terminator at its end.
Sym(s, i) == IF i < Len(s) THEN s[i + 1] ELSE Terminator

\* Strings whose symbols are positive, none of them empty.
Spelled(strings) ==
    \A z \in 1 .. Len(strings) :
        Len(strings[z]) > 0 /\ \A i \in 1 .. Len(strings[z]) : strings[z][i] \in Nat \ {0}

\* The levels on which a node is open after n completions.
Open(strings, n, i) == IF n > 0 THEN IF i <= Len(strings[n]) THEN 1 ELSE 0 ELSE 0

Shape(b, L, strings, n) ==
    /\ b.read = n
    /\ b.prev = IF n = 0 THEN <<Terminator>> ELSE Append(strings[n], Terminator)
    /\ DOMAIN b.nodes = 0 .. L - 1 /\ DOMAIN b.lefts = 0 .. L - 1 /\ DOMAIN b.ends = 0 .. L - 1
    /\ DOMAIN b.pointers = 0 .. L - 2 /\ DOMAIN b.offsets = 0 .. L - 2
    /\ \A i \in 0 .. L - 1 :
          /\ b.nodes[i] \in Seq(Nat) /\ b.lefts[i] \in Seq(Nat) /\ b.ends[i] \in Seq(Nat)
          /\ Len(b.lefts[i]) = Len(b.nodes[i])
          /\ Len(b.nodes[i]) = Len(b.ends[i]) + Open(strings, n, i)
    /\ \A i \in 0 .. L - 2 :
          /\ b.pointers[i] \in Seq(Nat) /\ b.offsets[i] \in Nat
          /\ Len(b.pointers[i]) = Len(b.ends[i]) + 1
          /\ b.pointers[i][Len(b.pointers[i])] + b.offsets[i] = Len(b.nodes[i + 1])
          /\ Open(strings, n, i) = 0 => b.offsets[i] = 0

\* What a completion that shares l symbols with the one before changes.
Grows(b, c, L, n, l, s) ==
    /\ \A i \in 0 .. L - 1 :
          /\ Size(c, i) = IF l <= i /\ i <= Len(s) THEN Size(b, i) + 1 ELSE Size(b, i)
          /\ \A p \in 1 .. Size(b, i) :
                /\ NodeAt(c, i, p) = NodeAt(b, i, p) /\ FirstOf(c, i, p) = FirstOf(b, i, p)
                /\ LastOf(c, i, p) = IF p = Size(b, i) /\ i < l THEN n ELSE LastOf(b, i, p)
          /\ l <= i /\ i <= Len(s) =>
                /\ NodeAt(c, i, Size(b, i) + 1) = Sym(s, i)
                /\ FirstOf(c, i, Size(b, i) + 1) = n /\ LastOf(c, i, Size(b, i) + 1) = n
    /\ \A i \in 0 .. L - 2 :
          /\ \A p \in 1 .. Size(b, i) : ChildAt(c, i, p) = ChildAt(b, i, p)
          /\ ChildAt(c, i, Size(b, i) + 1) = IF i < l THEN Size(c, i + 1) ELSE Size(b, i + 1)
          /\ l <= i /\ i <= Len(s) => ChildAt(c, i, Size(b, i) + 2) = Size(c, i + 1)

\* The symbols two strings share, the first of which may be missing.
Shared(strings, n) == IF n = 0 THEN 0 ELSE Lcp(strings[n + 1], strings[n])

LEMMA SharedIs ==
    ASSUME NEW strings, Ordered(strings), Spelled(strings), NEW n \in 0 .. Len(strings) - 1
    PROVE  LET s == strings[n + 1]
               l == Shared(strings, n)
           IN  /\ s \in Texts /\ Len(s) \in Nat \ {0} /\ l \in Nat /\ l < Len(s)
               /\ n > 0 => /\ strings[n] \in Texts /\ Len(strings[n]) \in Nat \ {0}
                           /\ l <= Len(strings[n])
                           /\ \A i \in 1 .. l : s[i] = strings[n][i]
                           /\ Sym(strings[n], l) < Sym(s, l)
<1> DEFINE s == strings[n + 1]
           l == Shared(strings, n)
           t == strings[n]
<1>1. /\ Len(strings) \in Nat /\ \A x \in 1 .. Len(strings) : strings[x] \in Texts
      /\ \A x, y \in 1 .. Len(strings) : x < y => Before(strings[x], strings[y])
  BY OrderedIs
<1>2. n + 1 \in 1 .. Len(strings)
  BY <1>1
<1>3. s \in Texts /\ Len(s) > 0 /\ \A i \in 1 .. Len(s) : s[i] \in Nat \ {0}
  BY <1>1, <1>2 DEF Spelled
<1>4. Len(s) \in Nat \ {0}
  BY <1>3, LenText
<1>5. CASE n = 0
  BY <1>3, <1>4, <1>5 DEF Shared
<1>6. CASE n # 0
  <2>1. n \in 1 .. Len(strings)
    BY <1>1, <1>6
  <2>2. t \in Texts /\ Len(t) > 0
    BY <1>1, <2>1 DEF Spelled
  <2>3. Len(t) \in Nat \ {0}
    BY <2>2, LenText
  <2>4. Before(t, s)
    BY <1>1, <1>2, <2>1
  <2> HIDE DEF s, t, l
  <2>5. l = Lcp(s, t)
    BY <1>6 DEF l, Shared, s, t
  <2>6. /\ l \in Nat /\ l <= Len(t) /\ l <= Len(s) /\ \A i \in 1 .. l : s[i] = t[i]
        /\ l < Len(s) /\ l < Len(t) => s[l + 1] # t[l + 1]
    BY <1>3, <2>2, <2>5, LcpIs
  <2>7. PICK d \in Nat : Parts(t, s, d)
    BY <1>3, <2>2, <2>4, BeforeParts
  <2>8. d <= Len(t) /\ d < Len(s) /\ (\A i \in 1 .. d : t[i] = s[i])
        /\ (d < Len(t) => t[d + 1] < s[d + 1])
    BY <2>7, <2>3, <1>4 DEF Parts
  <2>9. d = l
    <3>1. CASE d < l
      <4>1. d + 1 \in 1 .. l /\ d < Len(t)
        BY <3>1, <2>3, <2>6
      <4>2. t[d + 1] = s[d + 1] /\ t[d + 1] < s[d + 1] /\ t[d + 1] \in Nat
        BY <4>1, <2>2, <2>6, <2>8 DEF Texts
      <4> QED  BY <4>2
    <3>2. CASE l < d
      <4>1. l + 1 \in 1 .. d /\ l < Len(t) /\ l < Len(s)
        BY <3>2, <2>3, <2>6, <2>8, <1>4
      <4> QED  BY <4>1, <2>6, <2>8
    <3> QED  BY <3>1, <3>2, <2>6
  <2>10. Sym(t, l) < Sym(s, l)
    <3>1. Sym(s, l) = s[l + 1] /\ s[l + 1] \in Nat \ {0}
      BY <2>8, <2>9, <2>6, <1>3, <1>4 DEF Sym
    <3>2. CASE l < Len(t)
      BY <3>1, <3>2, <2>8, <2>9 DEF Sym
    <3>3. CASE ~(l < Len(t))
      BY <3>1, <3>3 DEF Sym, Terminator
    <3> QED  BY <3>2, <3>3
  <2> QED  BY <1>3, <1>4, <1>6, <2>2, <2>3, <2>6, <2>8, <2>9, <2>10 DEF s, t, l
<1> QED  BY <1>5, <1>6

\* A step of the builder, level by level.
Opens(s, l, i) == l <= i /\ i <= Len(s)
Closes(strings, n, l, i) == l <= i /\ Open(strings, n, i) = 1
Added(s, l, i) == IF l <= i + 1 /\ i + 1 <= Len(s) THEN 1 ELSE 0

ReadStep(b, c, L, strings, n, l, s) ==
    /\ c.read = n + 1 /\ c.prev = Append(s, Terminator)
    /\ DOMAIN c.nodes = 0 .. L - 1 /\ DOMAIN c.lefts = 0 .. L - 1 /\ DOMAIN c.ends = 0 .. L - 1
    /\ DOMAIN c.pointers = 0 .. L - 2 /\ DOMAIN c.offsets = 0 .. L - 2
    /\ \A i \in 0 .. L - 1 :
          /\ c.nodes[i] = IF Opens(s, l, i) THEN Append(b.nodes[i], Sym(s, i)) ELSE b.nodes[i]
          /\ c.lefts[i] = IF Opens(s, l, i) THEN Append(b.lefts[i], n) ELSE b.lefts[i]
          /\ c.ends[i] = IF Closes(strings, n, l, i) THEN Append(b.ends[i], n - 1) ELSE b.ends[i]
    /\ \A i \in 0 .. L - 2 :
          /\ c.pointers[i] = IF Closes(strings, n, l, i)
                             THEN Append(b.pointers[i],
                                         b.pointers[i][Len(b.pointers[i])] + b.offsets[i])
                             ELSE b.pointers[i]
          /\ c.offsets[i] = (IF Closes(strings, n, l, i) THEN 0 ELSE b.offsets[i]) + Added(s, l, i)

LEMMA LcpEmpty == ASSUME NEW s \in Texts PROVE Lcp(s, <<>>) = 0
<1>1. <<>> \in Texts /\ Len(<<>>) = 0
  BY DEF Texts
<1>2. Lcp(s, <<>>) \in Nat /\ Lcp(s, <<>>) <= Len(<<>>)
  BY <1>1, LcpIs
<1> QED  BY <1>1, <1>2

LEMMA Unappended ==
    ASSUME NEW s \in Texts, NEW x \in Nat
    PROVE  /\ Len(Append(s, x)) = Len(s) + 1
           /\ SubSeq(Append(s, x), 1, Len(s)) = s
           /\ Append(s, x)[Len(s) + 1] = x
           /\ \A i \in 1 .. Len(s) : Append(s, x)[i] = s[i]
<1> DEFINE u == Append(s, x)
           v == SubSeq(u, 1, Len(s))
<1>1. s \in Seq(Nat) /\ Len(s) \in Nat
  BY LenText DEF Texts
<1>2. /\ u \in Seq(Nat) /\ Len(u) = Len(s) + 1 /\ u[Len(s) + 1] = x
      /\ \A i \in 1 .. Len(s) : u[i] = s[i]
  BY <1>1, AppendProperties
<1> HIDE DEF u
<1>3. v \in Seq(Nat) /\ Len(v) = Len(s) /\ \A i \in 1 .. Len(s) : v[i] = u[i]
  BY <1>1, <1>2
<1> HIDE DEF v
<1>4. v = s
  BY <1>1, <1>2, <1>3, TextsEqual DEF Texts
<1> QED  BY <1>2, <1>4 DEF u, v

LEMMA ReadIs ==
    ASSUME NEW strings, Ordered(strings), Spelled(strings), NEW n \in 0 .. Len(strings) - 1,
           NEW L \in Nat, NEW b, Shape(b, L, strings, n)
    PROVE  ReadStep(b, Read(b, strings[n + 1]), L, strings, n, Shared(strings, n), strings[n + 1])
<1> DEFINE s == strings[n + 1]
           l == Shared(strings, n)
           t == strings[n]
           curr == Append(s, Terminator)
           currS == Len(curr) - 1
           prevS == Len(b.prev) - 1
           lcp == Lcp(s, SubSeq(b.prev, 1, prevS))
           closes(i) == prevS > 0 /\ i \in lcp .. prevS
           opens(i) == i \in lcp .. currS
           added(i) == IF i \in lcp - One(lcp) .. currS - 1 THEN 1 ELSE 0
           c == Read(b, s)
<1>1. /\ s \in Texts /\ Len(s) \in Nat \ {0} /\ l \in Nat /\ l < Len(s)
      /\ n > 0 => t \in Texts /\ Len(t) \in Nat \ {0} /\ l <= Len(t)
  BY SharedIs
<1>2. currS = Len(s) /\ curr[Len(s) + 1] = Terminator /\ \A i \in 1 .. Len(s) : curr[i] = s[i]
  <2>1. Len(curr) = Len(s) + 1 /\ curr[Len(s) + 1] = Terminator /\ \A i \in 1 .. Len(s) : curr[i] = s[i]
    BY <1>1, Unappended DEF Terminator
  <2> HIDE DEF curr, s
  <2> QED  BY <2>1, <1>1
<1>3. /\ lcp = l /\ prevS \in Nat
      /\ \A i \in Nat : prevS > 0 /\ i <= prevS <=> Open(strings, n, i) = 1
  <2>1. CASE n = 0
    <3>1. b.prev = <<Terminator>>
      BY <2>1 DEF Shape
    <3>2. prevS = 0 /\ SubSeq(b.prev, 1, prevS) = <<>>
      <4>1. <<Terminator>> = Append(<<>>, Terminator) /\ <<>> \in Texts /\ Len(<<>>) = 0
        BY DEF Texts
      <4>2. Len(b.prev) = 0 + 1 /\ SubSeq(b.prev, 1, 0) = <<>>
        <5> DEFINE e == <<>>
        <5>1. b.prev = Append(e, 0) /\ e \in Texts /\ Len(e) = 0 /\ e = <<>>
          BY <4>1, <3>1 DEF Terminator
        <5> HIDE DEF e
        <5>2. /\ Len(Append(e, 0)) = Len(e) + 1
              /\ SubSeq(Append(e, 0), 1, Len(e)) = e
          BY <5>1, Unappended
        <5> QED  BY <5>1, <5>2
      <4>3. prevS = 0
        BY <4>2
      <4> HIDE DEF prevS
      <4>4. SubSeq(b.prev, 1, prevS) = <<>>
        BY <4>2, <4>3, Zenon
      <4> QED  BY <4>3, <4>4, Zenon
    <3>3. lcp = 0
      BY <3>2, <1>1, LcpEmpty
    <3>4. l = 0 /\ ~(n > 0)
      BY <2>1 DEF Shared
    <3>5. \A i \in Nat : Open(strings, n, i) = 0
      BY <3>4 DEF Open
    <3>6. prevS = 0
      BY <3>2
    <3> HIDE DEF l, lcp, prevS
    <3>7. \A i \in Nat : ~(prevS > 0)
      BY <3>6
    <3> QED  BY <3>3, <3>4, <3>5, <3>6, <3>7
  <2>2. CASE n # 0
    <3>1. b.prev = Append(t, Terminator) /\ n > 0
      BY <2>2 DEF Shape
    <3>2. Len(b.prev) = Len(t) + 1 /\ SubSeq(b.prev, 1, Len(t)) = t
      BY <3>1, <1>1, Unappended DEF Terminator
    <3> HIDE DEF t
    <3>3. prevS = Len(t)
      BY <3>1, <3>2, <1>1
    <3>4. lcp = Lcp(s, t)
      BY <3>2, <3>3
    <3> QED  BY <2>2, <3>1, <3>3, <3>4, <1>1 DEF Shared, Open, t
  <2> QED  BY <2>1, <2>2
<1>4. c = [prev |-> curr, read |-> b.read + 1,
         nodes |-> [i \in DOMAIN b.nodes |->
             IF opens(i) THEN Append(b.nodes[i], curr[i + 1]) ELSE b.nodes[i]],
         lefts |-> [i \in DOMAIN b.lefts |->
             IF opens(i) THEN Append(b.lefts[i], b.read) ELSE b.lefts[i]],
         ends |-> [i \in DOMAIN b.ends |->
             IF closes(i) THEN Append(b.ends[i], b.read - 1) ELSE b.ends[i]],
         pointers |-> [i \in DOMAIN b.pointers |->
             IF closes(i) THEN Append(b.pointers[i], b.pointers[i][Len(b.pointers[i])] + b.offsets[i])
             ELSE b.pointers[i]],
         offsets |-> [i \in DOMAIN b.offsets |->
             (IF closes(i) THEN 0 ELSE b.offsets[i]) + added(i)]]
  BY DEF Read
<1>5. /\ b.read = n
      /\ DOMAIN b.nodes = 0 .. L - 1 /\ DOMAIN b.lefts = 0 .. L - 1 /\ DOMAIN b.ends = 0 .. L - 1
      /\ DOMAIN b.pointers = 0 .. L - 2 /\ DOMAIN b.offsets = 0 .. L - 2
  BY DEF Shape
<1>6. \A i \in Nat : /\ opens(i) <=> Opens(s, l, i)
                     /\ opens(i) => curr[i + 1] = Sym(s, i)
                     /\ closes(i) <=> Closes(strings, n, l, i)
                     /\ added(i) = Added(s, l, i)
  <2> SUFFICES ASSUME NEW i \in Nat
               PROVE  /\ opens(i) <=> Opens(s, l, i)
                      /\ opens(i) => curr[i + 1] = Sym(s, i)
                      /\ closes(i) <=> Closes(strings, n, l, i)
                      /\ added(i) = Added(s, l, i)
    OBVIOUS
  <2> HIDE DEF s, l, lcp, currS, prevS, curr
  <2>1. opens(i) <=> Opens(s, l, i)
    BY <1>1, <1>2, <1>3 DEF Opens
  <2>2. ASSUME opens(i) PROVE curr[i + 1] = Sym(s, i)
    <3>1. i <= Len(s)
      BY <2>2, <1>1, <1>2, <1>3
    <3>2. CASE i < Len(s)
      <4>1. i + 1 \in 1 .. Len(s)
        BY <3>2, <1>1
      <4> QED  BY <4>1, <3>2, <1>2 DEF Sym
    <3>3. CASE i = Len(s)
      BY <3>3, <1>1, <1>2 DEF Sym
    <3> QED  BY <3>1, <3>2, <3>3, <1>1
  <2>3. closes(i) <=> Closes(strings, n, l, i)
    BY <1>1, <1>3 DEF Closes
  <2>4. added(i) = Added(s, l, i)
    <3>1. i \in l - One(l) .. Len(s) - 1 <=> l <= i + 1 /\ i + 1 <= Len(s)
      BY <1>1 DEF One
    <3> QED  BY <3>1, <1>2, <1>3 DEF Added
  <2> QED  BY <2>1, <2>2, <2>3, <2>4
<1> HIDE DEF c, s, l, curr, opens, closes, added
<1>7. \A i \in 0 .. L - 1 :
          /\ c.nodes[i] = IF opens(i) THEN Append(b.nodes[i], curr[i + 1]) ELSE b.nodes[i]
          /\ c.lefts[i] = IF opens(i) THEN Append(b.lefts[i], n) ELSE b.lefts[i]
          /\ c.ends[i] = IF closes(i) THEN Append(b.ends[i], n - 1) ELSE b.ends[i]
  BY <1>4, <1>5
<1>8. \A i \in 0 .. L - 2 :
          /\ c.pointers[i] = IF closes(i)
                             THEN Append(b.pointers[i],
                                         b.pointers[i][Len(b.pointers[i])] + b.offsets[i])
                             ELSE b.pointers[i]
          /\ c.offsets[i] = (IF closes(i) THEN 0 ELSE b.offsets[i]) + added(i)
  BY <1>4, <1>5
<1>9. /\ c.read = n + 1 /\ c.prev = curr
      /\ DOMAIN c.nodes = 0 .. L - 1 /\ DOMAIN c.lefts = 0 .. L - 1 /\ DOMAIN c.ends = 0 .. L - 1
      /\ DOMAIN c.pointers = 0 .. L - 2 /\ DOMAIN c.offsets = 0 .. L - 2
  BY <1>4, <1>5
<1>10. (\A i \in 0 .. L - 1 : i \in Nat) /\ \A i \in 0 .. L - 2 : i \in Nat
  OBVIOUS
<1>11. \A i \in 0 .. L - 1 :
          /\ c.nodes[i] = IF Opens(s, l, i) THEN Append(b.nodes[i], Sym(s, i)) ELSE b.nodes[i]
          /\ c.lefts[i] = IF Opens(s, l, i) THEN Append(b.lefts[i], n) ELSE b.lefts[i]
          /\ c.ends[i] = IF Closes(strings, n, l, i) THEN Append(b.ends[i], n - 1) ELSE b.ends[i]
  BY <1>6, <1>7, <1>10
<1>12. \A i \in 0 .. L - 2 :
          /\ c.pointers[i] = IF Closes(strings, n, l, i)
                             THEN Append(b.pointers[i],
                                         b.pointers[i][Len(b.pointers[i])] + b.offsets[i])
                             ELSE b.pointers[i]
          /\ c.offsets[i] = (IF Closes(strings, n, l, i) THEN 0 ELSE b.offsets[i]) + Added(s, l, i)
  BY <1>6, <1>8, <1>10
<1> QED  BY <1>9, <1>11, <1>12 DEF ReadStep, c, s, l, curr

\* A sequence that is appended to on a condition.
LEMMA Appended ==
    ASSUME NEW s \in Seq(Nat), NEW x, NEW cond \in BOOLEAN, cond => x \in Nat, NEW u,
           u = IF cond THEN Append(s, x) ELSE s
    PROVE  /\ u \in Seq(Nat) /\ Len(s) \in Nat
           /\ Len(u) = IF cond THEN Len(s) + 1 ELSE Len(s)
           /\ \A p \in 1 .. Len(s) : u[p] = s[p]
           /\ cond => u[Len(s) + 1] = x
<1>1. Len(s) \in Nat
  BY LenProperties
<1>2. CASE cond
  <2>1. x \in Nat /\ u = Append(s, x)
    BY <1>2
  <2> QED  BY <2>1, <1>1, <1>2, AppendProperties
<1>3. CASE ~cond
  BY <1>1, <1>3
<1> QED  BY <1>2, <1>3

LEMMA SymIs == ASSUME NEW s \in Texts, NEW i \in Nat PROVE Sym(s, i) \in Nat
<1>1. Len(s) \in Nat /\ \A j \in 1 .. Len(s) : s[j] \in Nat
  BY DEF Texts
<1>2. i < Len(s) => i + 1 \in 1 .. Len(s)
  BY <1>1
<1> QED  BY <1>1, <1>2 DEF Sym, Terminator

\* What a step changes on a level, ...
LevelGrows(b, c, strings, n, l, s, i) ==
    /\ c.nodes[i] \in Seq(Nat) /\ c.lefts[i] \in Seq(Nat) /\ c.ends[i] \in Seq(Nat)
    /\ Len(c.lefts[i]) = Len(c.nodes[i])
    /\ Len(c.nodes[i]) = Len(c.ends[i]) + Open(strings, n + 1, i)
    /\ Size(c, i) = IF l <= i /\ i <= Len(s) THEN Size(b, i) + 1 ELSE Size(b, i)
    /\ \A p \in 1 .. Size(b, i) :
          /\ NodeAt(c, i, p) = NodeAt(b, i, p) /\ FirstOf(c, i, p) = FirstOf(b, i, p)
          /\ LastOf(c, i, p) = IF p = Size(b, i) /\ i < l THEN n ELSE LastOf(b, i, p)
    /\ l <= i /\ i <= Len(s) =>
          /\ NodeAt(c, i, Size(b, i) + 1) = Sym(s, i)
          /\ FirstOf(c, i, Size(b, i) + 1) = n /\ LastOf(c, i, Size(b, i) + 1) = n

LEMMA LevelGrowsIs ==
    ASSUME NEW strings, Ordered(strings), Spelled(strings), NEW n \in 0 .. Len(strings) - 1,
           NEW L \in Nat, NEW b, Shape(b, L, strings, n),
           NEW c, ReadStep(b, c, L, strings, n, Shared(strings, n), strings[n + 1]),
           NEW i \in 0 .. L - 1
    PROVE  LevelGrows(b, c, strings, n, Shared(strings, n), strings[n + 1], i)
<1> DEFINE s == strings[n + 1]
           l == Shared(strings, n)
           o == Open(strings, n, i)
           op == Opens(s, l, i)
           cl == Closes(strings, n, l, i)
           N == Len(b.nodes[i])
           E == Len(b.ends[i])
           S == Len(s)
           T == Len(strings[n])
           x == Sym(s, i)
<1>1. /\ s \in Texts /\ S \in Nat \ {0} /\ l \in Nat /\ l < S
      /\ n > 0 => T \in Nat \ {0} /\ l <= T
  BY SharedIs
<1>21. n = 0 => l = 0
  BY DEF Shared
<1>2. i \in Nat /\ n \in Nat
  OBVIOUS
<1>3. x \in Nat
  BY <1>1, <1>2, SymIs
<1>4. /\ b.nodes[i] \in Seq(Nat) /\ b.lefts[i] \in Seq(Nat) /\ b.ends[i] \in Seq(Nat)
      /\ Len(b.lefts[i]) = N /\ N = E + o /\ b.read = n
  BY DEF Shape
<1>5. /\ c.nodes[i] = IF op THEN Append(b.nodes[i], x) ELSE b.nodes[i]
      /\ c.lefts[i] = IF op THEN Append(b.lefts[i], n) ELSE b.lefts[i]
      /\ c.ends[i] = IF cl THEN Append(b.ends[i], n - 1) ELSE b.ends[i]
      /\ c.read = n + 1
  BY DEF ReadStep
<1>6. o = IF n > 0 THEN IF i <= T THEN 1 ELSE 0 ELSE 0
  BY DEF Open
<1>7. Open(strings, n + 1, i) = IF i <= S THEN 1 ELSE 0
  BY <1>2 DEF Open
<1>8. (op <=> l <= i /\ i <= S) /\ (cl <=> l <= i /\ o = 1) /\ op \in BOOLEAN /\ cl \in BOOLEAN
  BY DEF Opens, Closes
<1>9. cl => n - 1 \in Nat
  BY <1>2, <1>6, <1>8
<1> HIDE DEF o, op, cl, s, l, S, T, x
<1>10. /\ c.nodes[i] \in Seq(Nat) /\ N \in Nat
       /\ Len(c.nodes[i]) = IF op THEN N + 1 ELSE N
       /\ \A p \in 1 .. N : c.nodes[i][p] = b.nodes[i][p]
       /\ op => c.nodes[i][N + 1] = x
  <2> DEFINE u == b.nodes[i]
  <2>1. u \in Seq(Nat) /\ Len(u) = N
    BY <1>4
  <2> HIDE DEF N, u
  <2>2. c.nodes[i] = IF op THEN Append(u, x) ELSE u
    BY <1>5 DEF u
  <2>3. /\ c.nodes[i] \in Seq(Nat) /\ Len(u) \in Nat
        /\ Len(c.nodes[i]) = IF op THEN Len(u) + 1 ELSE Len(u)
        /\ \A p \in 1 .. Len(u) : c.nodes[i][p] = u[p]
        /\ op => c.nodes[i][Len(u) + 1] = x
    BY <1>3, <1>8, <2>1, <2>2, Appended
  <2> QED  BY <2>1, <2>3 DEF u
<1>11. /\ c.lefts[i] \in Seq(Nat)
       /\ Len(c.lefts[i]) = IF op THEN N + 1 ELSE N
       /\ \A p \in 1 .. N : c.lefts[i][p] = b.lefts[i][p]
       /\ op => c.lefts[i][N + 1] = n
  <2> DEFINE u == b.lefts[i]
  <2>1. u \in Seq(Nat) /\ Len(u) = N
    BY <1>4
  <2> HIDE DEF N, u
  <2>2. c.lefts[i] = IF op THEN Append(u, n) ELSE u
    BY <1>5 DEF u
  <2>3. /\ c.lefts[i] \in Seq(Nat)
        /\ Len(c.lefts[i]) = IF op THEN Len(u) + 1 ELSE Len(u)
        /\ \A p \in 1 .. Len(u) : c.lefts[i][p] = u[p]
        /\ op => c.lefts[i][Len(u) + 1] = n
    BY <1>2, <1>8, <2>1, <2>2, Appended
  <2> QED  BY <2>1, <2>3 DEF u
<1>12. /\ c.ends[i] \in Seq(Nat) /\ E \in Nat
       /\ Len(c.ends[i]) = IF cl THEN E + 1 ELSE E
       /\ \A p \in 1 .. E : c.ends[i][p] = b.ends[i][p]
       /\ cl => c.ends[i][E + 1] = n - 1
  BY <1>4, <1>5, <1>8, <1>9, Appended
<1> DEFINE E1 == Len(c.ends[i])
           N1 == Len(c.nodes[i])
           o1 == Open(strings, n + 1, i)
<1>13. o \in {0, 1} /\ o1 \in {0, 1}
  BY <1>6, <1>7
<1>14. N1 = E1 + o1
  <2>1. (N1 = IF op THEN N + 1 ELSE N) /\ (E1 = IF cl THEN E + 1 ELSE E)
    BY <1>10, <1>12
  <2>2. N \in Nat /\ E \in Nat /\ N = E + o
    BY <1>4, <1>10, <1>12
  <2> HIDE DEF N, E, N1, E1, o1
  <2>3. o1 = IF i <= S THEN 1 ELSE 0
    BY <1>7 DEF o1
  <2>4. i < l => o = 1
    BY <1>1, <1>2, <1>21, <1>6
  <2>5. CASE l <= i
    BY <2>1, <2>2, <2>3, <2>5, <1>1, <1>2, <1>8, <1>13
  <2>6. CASE i < l
    <3>1. o = 1 /\ o1 = 1 /\ ~op /\ ~cl
      BY <2>3, <2>4, <2>6, <1>1, <1>2, <1>8
    <3> QED  BY <3>1, <2>1, <2>2
  <2> QED  BY <2>5, <2>6, <1>1, <1>2
<1>15. /\ Size(b, i) = N /\ Size(c, i) = N1
       /\ \A p : /\ NodeAt(b, i, p) = b.nodes[i][p] /\ NodeAt(c, i, p) = c.nodes[i][p]
                 /\ FirstOf(b, i, p) = b.lefts[i][p] /\ FirstOf(c, i, p) = c.lefts[i][p]
                 /\ LastOf(b, i, p) = IF p <= E THEN b.ends[i][p] ELSE n - 1
                 /\ LastOf(c, i, p) = IF p <= E1 THEN c.ends[i][p] ELSE (n + 1) - 1
  BY <1>4, <1>5 DEF Size, NodeAt, FirstOf, LastOf
<1> HIDE DEF N, E, N1, E1, o1
<1>16. Size(c, i) = IF l <= i /\ i <= S THEN Size(b, i) + 1 ELSE Size(b, i)
  BY <1>8, <1>10, <1>15 DEF N1
<1>17. ASSUME NEW p \in 1 .. N
       PROVE  LastOf(c, i, p) = IF p = N /\ i < l THEN n ELSE LastOf(b, i, p)
  <2>1. /\ N \in Nat /\ E \in Nat /\ N = E + o /\ N1 = E1 + o1 /\ p \in 1 .. N
        /\ (E1 = IF cl THEN E + 1 ELSE E)
        /\ o1 = IF i <= S THEN 1 ELSE 0
    BY <1>4, <1>7, <1>10, <1>12, <1>14 DEF N, E, E1, o1
  <2>2. CASE p <= E
    <3>1. p \in 1 .. E /\ p <= E1
      BY <2>1, <2>2
    <3>2. LastOf(c, i, p) = c.ends[i][p] /\ c.ends[i][p] = b.ends[i][p] /\ LastOf(b, i, p) = b.ends[i][p]
      BY <3>1, <1>12, <1>15, SMTT(30)
    <3>3. ~(p = N /\ i < l)
      <4>1. i < l => o = 1
        BY <1>1, <1>2, <1>21, <1>6
      <4> QED  BY <4>1, <2>1, <2>2
    <3> QED  BY <3>2, <3>3
  <2>3. CASE ~(p <= E)
    <3>1. p = N /\ o = 1 /\ p = E + 1
      BY <2>1, <2>3, <1>13
    <3>2. LastOf(b, i, p) = n - 1
      BY <2>3, <1>15
    <3>3. CASE i < l
      <4>1. E1 = E
        BY <3>3, <2>1, <1>1, <1>2, <1>8
      <4>2. LastOf(c, i, p) = (n + 1) - 1
        BY <4>1, <2>3, <1>15
      <4> QED  BY <4>2, <3>1, <3>3, <1>2
    <3>4. CASE ~(i < l)
      <4>1. cl
        BY <3>1, <3>4, <1>1, <1>2, <1>8
      <4>2. p <= E1 /\ c.ends[i][p] = n - 1
        BY <4>1, <3>1, <2>1, <1>12
      <4> QED  BY <4>2, <3>2, <3>4, <1>15
    <3> QED  BY <3>3, <3>4
  <2> QED  BY <2>2, <2>3
<1>18. l <= i /\ i <= S =>
          /\ NodeAt(c, i, N + 1) = x
          /\ FirstOf(c, i, N + 1) = n /\ LastOf(c, i, N + 1) = n
  <2> SUFFICES ASSUME op
               PROVE  /\ NodeAt(c, i, N + 1) = x
                      /\ FirstOf(c, i, N + 1) = n /\ LastOf(c, i, N + 1) = n
    BY <1>8
  <2>1. NodeAt(c, i, N + 1) = x /\ FirstOf(c, i, N + 1) = n
    BY <1>10, <1>11, <1>15
  <2>2. N1 = N + 1 /\ o1 = 1 /\ E1 \in Nat /\ N \in Nat
    BY <1>7, <1>8, <1>10, <1>12 DEF N1, E1, o1
  <2>3. ~(N + 1 <= E1)
    BY <2>2, <1>14
  <2>4. LastOf(c, i, N + 1) = (n + 1) - 1
    BY <2>3, <1>15
  <2> QED  BY <2>1, <2>4, <1>2
<1>19. /\ c.nodes[i] \in Seq(Nat) /\ c.lefts[i] \in Seq(Nat) /\ c.ends[i] \in Seq(Nat)
       /\ Len(c.lefts[i]) = Len(c.nodes[i])
       /\ Len(c.nodes[i]) = Len(c.ends[i]) + Open(strings, n + 1, i)
  BY <1>10, <1>11, <1>12, <1>14 DEF N1, E1, o1
<1>20. \A p \in 1 .. Size(b, i) :
          /\ NodeAt(c, i, p) = NodeAt(b, i, p) /\ FirstOf(c, i, p) = FirstOf(b, i, p)
          /\ LastOf(c, i, p) = IF p = Size(b, i) /\ i < l THEN n ELSE LastOf(b, i, p)
  BY <1>10, <1>11, <1>15, <1>17
<1> QED
  BY <1>15, <1>16, <1>18, <1>19, <1>20 DEF LevelGrows, s, l, S, x

\* ... and what it changes between two levels.
ChildrenGrow(b, c, strings, n, l, s, i) ==
    /\ c.pointers[i] \in Seq(Nat) /\ c.offsets[i] \in Nat
    /\ Len(c.pointers[i]) = Len(c.ends[i]) + 1
    /\ c.pointers[i][Len(c.pointers[i])] + c.offsets[i] = Len(c.nodes[i + 1])
    /\ Open(strings, n + 1, i) = 0 => c.offsets[i] = 0
    /\ \A p \in 1 .. Size(b, i) : ChildAt(c, i, p) = ChildAt(b, i, p)
    /\ ChildAt(c, i, Size(b, i) + 1) = IF i < l THEN Size(c, i + 1) ELSE Size(b, i + 1)
    /\ l <= i /\ i <= Len(s) => ChildAt(c, i, Size(b, i) + 2) = Size(c, i + 1)

LEMMA ChildrenGrowIs ==
    ASSUME NEW strings, Ordered(strings), Spelled(strings), NEW n \in 0 .. Len(strings) - 1,
           NEW L \in Nat, NEW b, Shape(b, L, strings, n),
           NEW c, ReadStep(b, c, L, strings, n, Shared(strings, n), strings[n + 1]),
           NEW i \in 0 .. L - 2
    PROVE  ChildrenGrow(b, c, strings, n, Shared(strings, n), strings[n + 1], i)
<1> DEFINE s == strings[n + 1]
           l == Shared(strings, n)
           o == Open(strings, n, i)
           o1 == Open(strings, n + 1, i)
           cl == Closes(strings, n, l, i)
           ad == Added(s, l, i)
           N == Size(b, i)
           M == Size(b, i + 1)
           M1 == Size(c, i + 1)
           E == Len(b.ends[i])
           E1 == Len(c.ends[i])
           u == b.pointers[i]
           v == c.pointers[i]
           P == Len(u)
           P1 == Len(v)
           last == u[P]
           off == b.offsets[i]
           off1 == c.offsets[i]
           S == Len(s)
           T == Len(strings[n])
<1>1. /\ s \in Texts /\ S \in Nat \ {0} /\ l \in Nat /\ l < S
      /\ n > 0 => T \in Nat \ {0} /\ l <= T
  BY SharedIs
<1>2. n = 0 => l = 0
  BY DEF Shared
<1>3. i \in Nat /\ n \in Nat /\ i \in 0 .. L - 1 /\ i + 1 \in 0 .. L - 1
  OBVIOUS
<1>4. /\ u \in Seq(Nat) /\ off \in Nat /\ P = E + 1 /\ last + off = M
      /\ o = 0 => off = 0
  <2>1. /\ b.pointers[i] \in Seq(Nat) /\ b.offsets[i] \in Nat
        /\ Len(b.pointers[i]) = Len(b.ends[i]) + 1
        /\ b.pointers[i][Len(b.pointers[i])] + b.offsets[i] = Len(b.nodes[i + 1])
        /\ Open(strings, n, i) = 0 => b.offsets[i] = 0
    BY DEF Shape
  <2> QED  BY <2>1 DEF Size
<1>5. E \in Nat /\ N = E + o /\ M \in Nat
  <2>1. /\ b.nodes[i] \in Seq(Nat) /\ b.ends[i] \in Seq(Nat)
        /\ Len(b.nodes[i]) = Len(b.ends[i]) + Open(strings, n, i)
    BY <1>3 DEF Shape
  <2>2. b.nodes[i + 1] \in Seq(Nat)
    BY <1>3 DEF Shape
  <2>3. Len(b.ends[i]) \in Nat /\ Len(b.nodes[i + 1]) \in Nat
    BY <2>1, <2>2, LenProperties
  <2> QED  BY <2>1, <2>3 DEF Size
<1>6. o = IF n > 0 THEN IF i <= T THEN 1 ELSE 0 ELSE 0
  BY DEF Open
<1>7. o1 = IF i <= S THEN 1 ELSE 0
  BY <1>3 DEF Open
<1>8. (cl <=> l <= i /\ o = 1) /\ cl \in BOOLEAN
  BY DEF Closes
<1>9. /\ v = IF cl THEN Append(u, last + off) ELSE u
      /\ off1 = (IF cl THEN 0 ELSE off) + ad
  BY DEF ReadStep
<1>10. P \in Nat \ {0} /\ last \in Nat /\ \A p \in 1 .. P : u[p] \in Nat
  <2> HIDE DEF u, P, E
  <2>1. P \in Nat \ {0}
    BY <1>4, <1>5, SMTT(30)
  <2>2. \A p \in 1 .. P : u[p] \in Nat
    BY <1>4, ElementOfSeq DEF P
  <2> QED  BY <2>1, <2>2
<1>11. ad \in {0, 1} /\ (ad = 1 <=> l <= i + 1 /\ i + 1 <= S)
  BY DEF Added
<1>12. LevelGrows(b, c, strings, n, l, s, i) /\ LevelGrows(b, c, strings, n, l, s, i + 1)
  BY <1>3, LevelGrowsIs
<1>13. M1 = M + ad
  <2>1. M1 = IF l <= i + 1 /\ i + 1 <= S THEN M + 1 ELSE M
    BY <1>12 DEF LevelGrows
  <2> HIDE DEF M, M1, ad
  <2> QED  BY <2>1, <1>5, <1>11
<1>14. Size(c, i) = E1 + o1 /\ Size(c, i) = IF l <= i /\ i <= S THEN N + 1 ELSE N
  BY <1>12 DEF LevelGrows, Size
<1>15. c.ends[i] = IF cl THEN Append(b.ends[i], n - 1) ELSE b.ends[i]
  BY <1>3 DEF ReadStep
<1>16. E1 = IF cl THEN E + 1 ELSE E
  <2>1. b.ends[i] \in Seq(Nat)
    BY <1>3 DEF Shape
  <2>2. cl => n - 1 \in Nat
    BY <1>3, <1>6, <1>8
  <2> DEFINE w == b.ends[i]
             w1 == c.ends[i]
  <2> HIDE DEF w, w1, cl
  <2>3. w1 = IF cl THEN Append(w, n - 1) ELSE w
    BY <1>15 DEF w, w1
  <2>4. Len(w1) = IF cl THEN Len(w) + 1 ELSE Len(w)
    BY <2>1, <2>2, <2>3, <1>8, Appended DEF w
  <2> QED  BY <2>4 DEF w, w1
<1>17. /\ v \in Seq(Nat) /\ P1 = IF cl THEN P + 1 ELSE P
       /\ \A p \in 1 .. P : v[p] = u[p]
       /\ cl => v[P + 1] = M
  <2> HIDE DEF u, v, off, last, cl
  <2> DEFINE y == last + off
  <2>1. y \in Nat /\ y = M
    BY <1>4, <1>10
  <2>3. v = IF cl THEN Append(u, y) ELSE u
    BY <1>9
  <2> HIDE DEF y
  <2>2. /\ v \in Seq(Nat)
        /\ Len(v) = IF cl THEN Len(u) + 1 ELSE Len(u)
        /\ \A p \in 1 .. Len(u) : v[p] = u[p]
        /\ cl => v[Len(u) + 1] = y
    <3>1. u \in Seq(Nat) /\ cl \in BOOLEAN /\ (cl => y \in Nat)
      BY <2>1, <1>4, <1>8
    <3> HIDE DEF P, P1
    <3> QED  BY <3>1, <2>3, Appended
  <2> QED  BY <2>1, <2>2, <1>4
<1>18. /\ \A p : ChildAt(b, i, p) = IF p <= P THEN u[p] ELSE M
       /\ \A p : ChildAt(c, i, p) = IF p <= P1 THEN v[p] ELSE M1
  BY DEF ChildAt, Size
<1>19. o \in {0, 1} /\ o1 \in {0, 1}
  BY <1>6, <1>7
<1> HIDE DEF s, l, o, o1, cl, ad, N, M, M1, E, E1, u, v, P, P1, last, off, off1, S, T
<1>20. off1 \in Nat /\ (o1 = 0 => off1 = 0)
  <2>1. off1 \in Nat
    BY <1>4, <1>9, <1>11
  <2>2. ASSUME o1 = 0 PROVE off1 = 0
    <3>1. i > S /\ ad = 0 /\ l <= i
      BY <2>2, <1>1, <1>3, <1>7, <1>11
    <3>2. cl \/ o = 0
      BY <3>1, <1>8, <1>19
    <3> QED  BY <3>1, <3>2, <1>4, <1>9
  <2> QED  BY <2>1, <2>2
<1>21. P1 = E1 + 1
  BY <1>4, <1>5, <1>16, <1>17
<1>22. v[P1] + off1 = M1
  <2>1. CASE cl
    <3>1. P1 = P + 1 /\ v[P1] = M
      BY <2>1, <1>17
    <3>2. off1 = ad
      BY <2>1, <1>9, <1>11
    <3> QED  BY <3>1, <3>2, <1>13
  <2>2. CASE ~cl
    <3>1. P1 = P /\ P \in 1 .. P
      BY <2>2, <1>10, <1>17
    <3>2. v[P1] = last
      <4>1. v[P] = u[P]
        BY <3>1, <1>17
      <4> QED  BY <4>1, <3>1 DEF last
    <3>3. off1 = off + ad
      BY <2>2, <1>9
    <3> QED  BY <3>2, <3>3, <1>4, <1>5, <1>10, <1>11, <1>13
  <2> QED  BY <2>1, <2>2
<1>23. \A p \in 1 .. N : ChildAt(c, i, p) = ChildAt(b, i, p)
  <2> SUFFICES ASSUME NEW p \in 1 .. N PROVE ChildAt(c, i, p) = ChildAt(b, i, p)
    OBVIOUS
  <2>1. p <= P /\ p \in 1 .. P /\ p <= P1
    BY <1>4, <1>5, <1>17, <1>19
  <2> QED  BY <2>1, <1>17, <1>18
<1>24. ChildAt(c, i, N + 1) = IF i < l THEN M1 ELSE M
  <2>1. CASE i < l
    <3>1. o = 1 /\ ~cl
      BY <2>1, <1>1, <1>2, <1>3, <1>6, <1>8
    <3>2. ~(N + 1 <= P1)
      BY <3>1, <1>4, <1>5, <1>17
    <3> QED  BY <2>1, <3>2, <1>18
  <2>2. CASE ~(i < l)
    <3>1. CASE o = 1
      <4>1. cl
        BY <2>2, <3>1, <1>1, <1>3, <1>8
      <4>2. N + 1 = P + 1 /\ N + 1 <= P1
        BY <3>1, <4>1, <1>4, <1>5, <1>17
      <4> QED  BY <2>2, <4>1, <4>2, <1>17, <1>18
    <3>2. CASE o = 0
      <4>1. ~cl /\ off = 0
        BY <3>2, <1>4, <1>8
      <4>2. N + 1 = P /\ N + 1 <= P1 /\ P \in 1 .. P
        BY <3>2, <4>1, <1>4, <1>5, <1>10, <1>17
      <4>3. ChildAt(c, i, N + 1) = u[P]
        BY <4>2, <1>17, <1>18
      <4>4. last = M
        BY <4>1, <1>4, <1>5, <1>10
      <4> QED  BY <2>2, <4>3, <4>4 DEF last
    <3> QED  BY <3>1, <3>2, <1>19
  <2> QED  BY <2>1, <2>2
<1>25. l <= i /\ i <= S => ChildAt(c, i, N + 2) = M1
  <2> SUFFICES ASSUME l <= i, i <= S PROVE ChildAt(c, i, N + 2) = M1
    OBVIOUS
  <2>1. N + 1 = E1 + 1
    BY <1>5, <1>7, <1>14, <1>16
  <2>2. ~(N + 2 <= P1)
    BY <2>1, <1>5, <1>16, <1>19, <1>21
  <2> QED  BY <2>2, <1>18
<1>26. v[P1] + off1 = Len(c.nodes[i + 1])
  BY <1>22 DEF M1, Size
<1> QED
  BY <1>17, <1>20, <1>21, <1>23, <1>24, <1>25, <1>26
     DEF ChildrenGrow, s, l, o1, N, M, M1, v, P1, E1, off1, S

LEMMA ShapeGrows ==
    ASSUME NEW strings, Ordered(strings), Spelled(strings), NEW n \in 0 .. Len(strings) - 1,
           NEW L \in Nat, NEW b, Shape(b, L, strings, n),
           NEW c, ReadStep(b, c, L, strings, n, Shared(strings, n), strings[n + 1])
    PROVE  /\ Shape(c, L, strings, n + 1)
           /\ Grows(b, c, L, n, Shared(strings, n), strings[n + 1])
<1>1. \A i \in 0 .. L - 1 : LevelGrows(b, c, strings, n, Shared(strings, n), strings[n + 1], i)
  BY LevelGrowsIs
<1>2. \A i \in 0 .. L - 2 : ChildrenGrow(b, c, strings, n, Shared(strings, n), strings[n + 1], i)
  BY ChildrenGrowIs
<1>3. Grows(b, c, L, n, Shared(strings, n), strings[n + 1])
  <2> HIDE DEF Size, NodeAt, FirstOf, LastOf, ChildAt
  <2> QED  BY <1>1, <1>2 DEF Grows, LevelGrows, ChildrenGrow
<1>4. n + 1 # 0
  OBVIOUS
<1>5. /\ c.read = n + 1 /\ c.prev = Append(strings[n + 1], Terminator)
      /\ DOMAIN c.nodes = 0 .. L - 1 /\ DOMAIN c.lefts = 0 .. L - 1 /\ DOMAIN c.ends = 0 .. L - 1
      /\ DOMAIN c.pointers = 0 .. L - 2 /\ DOMAIN c.offsets = 0 .. L - 2
  BY DEF ReadStep
<1>6. \A i \in 0 .. L - 1 :
          /\ c.nodes[i] \in Seq(Nat) /\ c.lefts[i] \in Seq(Nat) /\ c.ends[i] \in Seq(Nat)
          /\ Len(c.lefts[i]) = Len(c.nodes[i])
          /\ Len(c.nodes[i]) = Len(c.ends[i]) + Open(strings, n + 1, i)
  BY <1>1 DEF LevelGrows
<1>7. \A i \in 0 .. L - 2 :
          /\ c.pointers[i] \in Seq(Nat) /\ c.offsets[i] \in Nat
          /\ Len(c.pointers[i]) = Len(c.ends[i]) + 1
          /\ c.pointers[i][Len(c.pointers[i])] + c.offsets[i] = Len(c.nodes[i + 1])
          /\ Open(strings, n + 1, i) = 0 => c.offsets[i] = 0
  BY <1>2 DEF ChildrenGrow
<1> QED  BY <1>3, <1>4, <1>5, <1>6, <1>7 DEF Shape

-----------------------------------------------------------------------------
(***************************************************************************)
(* What the builder has made of the completions it has read: the nodes of  *)
(* a family, the children of a node or those of the first level, share out *)
(* the completions of the family, in the order of their symbols.           *)
(***************************************************************************)
Family(b, i, lo, hi, from, to) ==
    /\ \A d \in lo + 1 .. hi : from <= FirstOf(b, i, d) /\ LastOf(b, i, d) <= to
    /\ \A d, e \in lo + 1 .. hi :
          d < e => NodeAt(b, i, d) < NodeAt(b, i, e) /\ LastOf(b, i, d) < FirstOf(b, i, e)
    /\ \A g \in from .. to : \E d \in lo + 1 .. hi : FirstOf(b, i, d) <= g /\ g <= LastOf(b, i, d)

Nodes(b, i, n) ==
    /\ Size(b, i) \in Nat
    /\ \A p \in 1 .. Size(b, i) :
          /\ NodeAt(b, i, p) \in Nat /\ FirstOf(b, i, p) \in Nat /\ LastOf(b, i, p) \in Nat
          /\ FirstOf(b, i, p) <= LastOf(b, i, p) /\ LastOf(b, i, p) < n

\* A step at a level.
Adds(b, c, n, l, s, i) ==
    /\ Size(c, i) = IF l <= i /\ i <= Len(s) THEN Size(b, i) + 1 ELSE Size(b, i)
    /\ \A p \in 1 .. Size(b, i) :
          /\ NodeAt(c, i, p) = NodeAt(b, i, p) /\ FirstOf(c, i, p) = FirstOf(b, i, p)
          /\ LastOf(c, i, p) = IF p = Size(b, i) /\ i < l THEN n ELSE LastOf(b, i, p)
    /\ l <= i /\ i <= Len(s) =>
          /\ NodeAt(c, i, Size(b, i) + 1) = Sym(s, i)
          /\ FirstOf(c, i, Size(b, i) + 1) = n /\ LastOf(c, i, Size(b, i) + 1) = n

LEMMA FamilyKept ==
    ASSUME NEW b, NEW c, NEW n \in Nat, NEW l \in Nat, NEW s, NEW i \in Nat, Nodes(b, i, n),
           Adds(b, c, n, l, s, i),
           NEW lo \in Nat, NEW hi \in Nat, hi <= Size(b, i), i < l => hi < Size(b, i),
           NEW from, NEW to, Family(b, i, lo, hi, from, to)
    PROVE  Family(c, i, lo, hi, from, to)
<1>1. \A d \in lo + 1 .. hi : /\ NodeAt(c, i, d) = NodeAt(b, i, d)
                              /\ FirstOf(c, i, d) = FirstOf(b, i, d)
                              /\ LastOf(c, i, d) = LastOf(b, i, d)
  <2> SUFFICES ASSUME NEW d \in lo + 1 .. hi
               PROVE  /\ NodeAt(c, i, d) = NodeAt(b, i, d)
                      /\ FirstOf(c, i, d) = FirstOf(b, i, d)
                      /\ LastOf(c, i, d) = LastOf(b, i, d)
    OBVIOUS
  <2>1. d \in 1 .. Size(b, i) /\ ~(d = Size(b, i) /\ i < l)
    BY DEF Nodes
  <2> HIDE DEF Size, NodeAt, FirstOf, LastOf
  <2> QED  BY <2>1 DEF Adds
<1> HIDE DEF Size, NodeAt, FirstOf, LastOf
<1> QED  BY <1>1 DEF Family

LEMMA FamilyStretched ==
    ASSUME NEW b, NEW c, NEW n \in Nat, NEW l \in Nat, NEW s, NEW i \in Nat, Nodes(b, i, n),
           Adds(b, c, n, l, s, i), i < l,
           NEW lo \in Nat, lo < Size(b, i), NEW from \in Nat,
           Family(b, i, lo, Size(b, i), from, n - 1)
    PROVE  Family(c, i, lo, Size(b, i), from, n)
<1> DEFINE hi == Size(b, i)
<1>1. /\ hi \in Nat
      /\ \A d \in lo + 1 .. hi : /\ NodeAt(b, i, d) \in Nat /\ FirstOf(b, i, d) \in Nat
                                 /\ LastOf(b, i, d) \in Nat
                                 /\ FirstOf(b, i, d) <= LastOf(b, i, d) /\ LastOf(b, i, d) < n
  BY DEF Nodes
<1>2. \A d \in lo + 1 .. hi : /\ NodeAt(c, i, d) = NodeAt(b, i, d)
                              /\ FirstOf(c, i, d) = FirstOf(b, i, d)
                              /\ LastOf(c, i, d) = IF d = hi THEN n ELSE LastOf(b, i, d)
  <2>1. \A d \in lo + 1 .. hi : d \in 1 .. hi
    OBVIOUS
  <2> HIDE DEF Size, NodeAt, FirstOf, LastOf
  <2> QED  BY <2>1 DEF Adds
<1>3. hi \in lo + 1 .. hi
  BY <1>1
<1>4. Family(b, i, lo, hi, from, n - 1)
  OBVIOUS
<1> HIDE DEF hi, NodeAt, FirstOf, LastOf
<1>5. ASSUME NEW d \in lo + 1 .. hi PROVE from <= FirstOf(c, i, d) /\ LastOf(c, i, d) <= n
  <2>1. from <= FirstOf(b, i, d) /\ LastOf(b, i, d) < n /\ LastOf(b, i, d) \in Nat
    BY <1>1, <1>4 DEF Family
  <2> QED  BY <2>1, <1>2
<1>6. ASSUME NEW d \in lo + 1 .. hi, NEW e \in lo + 1 .. hi, d < e
      PROVE  NodeAt(c, i, d) < NodeAt(c, i, e) /\ LastOf(c, i, d) < FirstOf(c, i, e)
  <2>1. d # hi
    BY <1>1, <1>6
  <2> QED  BY <2>1, <1>2, <1>4, <1>6 DEF Family
<1>7. ASSUME NEW g \in from .. n
      PROVE  \E d \in lo + 1 .. hi : FirstOf(c, i, d) <= g /\ g <= LastOf(c, i, d)
  <2>1. CASE g = n
    <3>1. FirstOf(c, i, hi) <= n /\ LastOf(c, i, hi) = n
      BY <1>1, <1>2, <1>3
    <3> QED  BY <3>1, <2>1, <1>3
  <2>2. CASE g # n
    <3>1. g \in from .. n - 1
      BY <2>2
    <3>2. PICK d \in lo + 1 .. hi : FirstOf(b, i, d) <= g /\ g <= LastOf(b, i, d)
      BY <3>1, <1>4 DEF Family
    <3>3. FirstOf(c, i, d) <= g /\ g <= LastOf(c, i, d)
      BY <3>2, <1>2
    <3> QED  BY <3>3
  <2> QED  BY <2>1, <2>2
<1> QED  BY <1>5, <1>6, <1>7 DEF Family, hi

LEMMA FamilyJoined ==
    ASSUME NEW b, NEW c, NEW n \in Nat, NEW l \in Nat, NEW s, NEW i \in Nat, Nodes(b, i, n),
           Adds(b, c, n, l, s, i), l <= i, i <= Len(s), Sym(s, i) \in Nat,
           NEW lo \in Nat, lo <= Size(b, i), NEW from \in Nat, from <= n,
           lo < Size(b, i) => NodeAt(b, i, Size(b, i)) < Sym(s, i),
           Family(b, i, lo, Size(b, i), from, n - 1)
    PROVE  Family(c, i, lo, Size(b, i) + 1, from, n)
<1> DEFINE hi == Size(b, i)
<1>1. /\ hi \in Nat
      /\ \A d \in lo + 1 .. hi : /\ NodeAt(b, i, d) \in Nat /\ FirstOf(b, i, d) \in Nat
                                 /\ LastOf(b, i, d) \in Nat
                                 /\ FirstOf(b, i, d) <= LastOf(b, i, d) /\ LastOf(b, i, d) < n
  BY DEF Nodes
<1>2. \A d \in lo + 1 .. hi : /\ NodeAt(c, i, d) = NodeAt(b, i, d)
                              /\ FirstOf(c, i, d) = FirstOf(b, i, d)
                              /\ LastOf(c, i, d) = LastOf(b, i, d)
  <2>1. \A d \in lo + 1 .. hi : d \in 1 .. hi
    OBVIOUS
  <2>2. ~(i < l)
    OBVIOUS
  <2> HIDE DEF Size, NodeAt, FirstOf, LastOf
  <2> QED  BY <2>1, <2>2 DEF Adds
<1>3. NodeAt(c, i, hi + 1) = Sym(s, i) /\ FirstOf(c, i, hi + 1) = n /\ LastOf(c, i, hi + 1) = n
  <2> HIDE DEF Size, NodeAt, FirstOf, LastOf
  <2> QED  BY DEF Adds
<1>4. Family(b, i, lo, hi, from, n - 1) /\ (lo < hi => NodeAt(b, i, hi) < Sym(s, i))
      /\ lo <= hi
  OBVIOUS
<1> HIDE DEF hi, NodeAt, FirstOf, LastOf
<1>5. \A d \in lo + 1 .. hi + 1 : d \in lo + 1 .. hi \/ d = hi + 1
  BY <1>1
<1>6. ASSUME NEW d \in lo + 1 .. hi + 1 PROVE from <= FirstOf(c, i, d) /\ LastOf(c, i, d) <= n
  <2>1. CASE d \in lo + 1 .. hi
    BY <2>1, <1>1, <1>2, <1>4 DEF Family
  <2>2. CASE d = hi + 1
    BY <2>2, <1>3
  <2> QED  BY <2>1, <2>2, <1>5
<1>7. ASSUME NEW d \in lo + 1 .. hi + 1, NEW e \in lo + 1 .. hi + 1, d < e
      PROVE  NodeAt(c, i, d) < NodeAt(c, i, e) /\ LastOf(c, i, d) < FirstOf(c, i, e)
  <2>1. d \in lo + 1 .. hi /\ hi \in lo + 1 .. hi /\ lo < hi
    BY <1>1, <1>4, <1>7
  <2>2. CASE e \in lo + 1 .. hi
    BY <2>1, <2>2, <1>2, <1>4, <1>7 DEF Family
  <2>3. CASE e = hi + 1
    <3>1. NodeAt(b, i, d) <= NodeAt(b, i, hi)
      <4>1. d = hi \/ d < hi
        BY <2>1
      <4>2. d < hi => NodeAt(b, i, d) < NodeAt(b, i, hi)
        BY <2>1, <1>4 DEF Family
      <4>3. NodeAt(b, i, d) \in Nat /\ NodeAt(b, i, hi) \in Nat
        BY <2>1, <1>1
      <4> QED  BY <4>1, <4>2, <4>3
    <3>2. NodeAt(b, i, hi) < Sym(s, i) /\ NodeAt(b, i, hi) \in Nat /\ NodeAt(b, i, d) \in Nat
      BY <2>1, <1>1, <1>4
    <3>3. NodeAt(b, i, d) < Sym(s, i)
      BY <3>1, <3>2
    <3>4. LastOf(b, i, d) < n
      BY <2>1, <1>1
    <3> QED  BY <3>3, <3>4, <2>1, <2>3, <1>2, <1>3
  <2> QED  BY <2>2, <2>3, <1>5
<1>8. ASSUME NEW g \in from .. n
      PROVE  \E d \in lo + 1 .. hi + 1 : FirstOf(c, i, d) <= g /\ g <= LastOf(c, i, d)
  <2>1. CASE g = n
    <3>1. hi + 1 \in lo + 1 .. hi + 1
      BY <1>1, <1>4
    <3> QED  BY <3>1, <2>1, <1>3
  <2>2. CASE g # n
    <3>1. g \in from .. n - 1
      BY <2>2
    <3>2. PICK d \in lo + 1 .. hi : FirstOf(b, i, d) <= g /\ g <= LastOf(b, i, d)
      BY <3>1, <1>4 DEF Family
    <3>3. FirstOf(c, i, d) <= g /\ g <= LastOf(c, i, d) /\ d \in lo + 1 .. hi + 1
      BY <3>2, <1>1, <1>2
    <3> QED  BY <3>3
  <2> QED  BY <2>1, <2>2
<1> QED  BY <1>6, <1>7, <1>8 DEF Family, hi

\* What holds on a level, and between a level and the next.
Spells(b, strings, i) ==
    \A p \in 1 .. Size(b, i) : \A g \in FirstOf(b, i, p) .. LastOf(b, i, p) :
        i <= Len(strings[g + 1]) /\ Sym(strings[g + 1], i) = NodeAt(b, i, p)

Unclosed(b, strings, n, i) ==
    n > 0 /\ i <= Len(strings[n]) => Size(b, i) > 0 /\ LastOf(b, i, Size(b, i)) = n - 1

Kids(b, i) ==
    /\ \A p \in 1 .. Size(b, i) + 1 : ChildAt(b, i, p) \in Nat
    /\ \A p, q \in 1 .. Size(b, i) + 1 : p <= q => ChildAt(b, i, p) <= ChildAt(b, i, q)
    /\ ChildAt(b, i, Size(b, i) + 1) = Size(b, i + 1)

Bred(b, i) ==
    \A p \in 1 .. Size(b, i) :
        NodeAt(b, i, p) # Terminator =>
            Family(b, i + 1, ChildAt(b, i, p), ChildAt(b, i, p + 1), FirstOf(b, i, p), LastOf(b, i, p))

Tree(b, L, strings, n) ==
    /\ \A i \in 0 .. L - 1 :
          Nodes(b, i, n) /\ Spells(b, strings, i) /\ Unclosed(b, strings, n, i)
    /\ \A i \in 0 .. L - 2 : Kids(b, i) /\ Bred(b, i)
    /\ Family(b, 0, 0, Size(b, 0), 0, n - 1)

\* What a step does to the children.
Bears(b, c, l, s, i) ==
    /\ \A p \in 1 .. Size(b, i) : ChildAt(c, i, p) = ChildAt(b, i, p)
    /\ ChildAt(c, i, Size(b, i) + 1) = IF i < l THEN Size(c, i + 1) ELSE Size(b, i + 1)
    /\ l <= i /\ i <= Len(s) => ChildAt(c, i, Size(b, i) + 2) = Size(c, i + 1)

\* How a string meets the one before.
Meets(strings, n, l, s) ==
    /\ s = strings[n + 1] /\ Len(s) \in Nat /\ l \in Nat /\ l < Len(s)
    /\ \A i \in 0 .. Len(s) - 1 : Sym(s, i) \in Nat \ {0}
    /\ Sym(s, Len(s)) = 0
    /\ n = 0 => l = 0
    /\ n > 0 => /\ Len(strings[n]) \in Nat /\ l <= Len(strings[n])
                /\ \A i \in 0 .. l - 1 : Sym(strings[n], i) = Sym(s, i)
                /\ Sym(strings[n], l) < Sym(s, l)

LEMMA MeetsIs ==
    ASSUME NEW strings, Ordered(strings), Spelled(strings), NEW n \in 0 .. Len(strings) - 1
    PROVE  Meets(strings, n, Shared(strings, n), strings[n + 1])
<1> DEFINE s == strings[n + 1]
           l == Shared(strings, n)
           t == strings[n]
<1>1. /\ s \in Texts /\ Len(s) \in Nat \ {0} /\ l \in Nat /\ l < Len(s)
      /\ n > 0 => /\ t \in Texts /\ Len(t) \in Nat \ {0}
                  /\ l <= Len(t)
                  /\ \A i \in 1 .. l : s[i] = t[i]
                  /\ Sym(t, l) < Sym(s, l)
  BY SharedIs
<1>2. n = 0 => l = 0
  BY DEF Shared
<1>3. \A i \in 1 .. Len(s) : s[i] \in Nat \ {0}
  <2>1. n + 1 \in 1 .. Len(strings)
    BY OrderedIs
  <2> QED  BY <2>1 DEF Spelled
<1> HIDE DEF s, l, t
<1>4. \A i \in 0 .. Len(s) - 1 : Sym(s, i) \in Nat \ {0}
  <2> SUFFICES ASSUME NEW i \in 0 .. Len(s) - 1 PROVE Sym(s, i) \in Nat \ {0}
    OBVIOUS
  <2>1. i < Len(s) /\ i + 1 \in 1 .. Len(s)
    BY <1>1
  <2> QED  BY <2>1, <1>3 DEF Sym
<1>5. Sym(s, Len(s)) = 0
  BY <1>1 DEF Sym, Terminator
<1>6. ASSUME n > 0, NEW i \in 0 .. l - 1 PROVE Sym(t, i) = Sym(s, i)
  <2>1. i < Len(s) /\ i < Len(t) /\ i + 1 \in 1 .. l
    BY <1>1, <1>6
  <2> QED  BY <2>1, <1>1, <1>6 DEF Sym
<1> QED  BY <1>1, <1>2, <1>4, <1>5, <1>6 DEF Meets, s, l, t

LEMMA NodesGrow ==
    ASSUME NEW b, NEW c, NEW n \in Nat, NEW l \in Nat, NEW s, NEW i \in Nat, Len(s) \in Nat,
           \A j \in 0 .. Len(s) : Sym(s, j) \in Nat,
           Nodes(b, i, n), Adds(b, c, n, l, s, i)
    PROVE  Nodes(c, i, n + 1)
<1> DEFINE N == Size(b, i)
<1> HIDE DEF Size, NodeAt, FirstOf, LastOf, Sym
<1>1. N \in Nat /\ Size(c, i) = IF l <= i /\ i <= Len(s) THEN N + 1 ELSE N
  BY DEF Nodes, Adds
<1>2. ASSUME NEW p \in 1 .. Size(c, i)
      PROVE  /\ NodeAt(c, i, p) \in Nat /\ FirstOf(c, i, p) \in Nat /\ LastOf(c, i, p) \in Nat
             /\ FirstOf(c, i, p) <= LastOf(c, i, p) /\ LastOf(c, i, p) < n + 1
  <2>1. CASE p \in 1 .. N
    <3>1. /\ NodeAt(b, i, p) \in Nat /\ FirstOf(b, i, p) \in Nat /\ LastOf(b, i, p) \in Nat
          /\ FirstOf(b, i, p) <= LastOf(b, i, p) /\ LastOf(b, i, p) < n
      BY <2>1 DEF Nodes
    <3>2. /\ NodeAt(c, i, p) = NodeAt(b, i, p) /\ FirstOf(c, i, p) = FirstOf(b, i, p)
          /\ LastOf(c, i, p) = IF p = N /\ i < l THEN n ELSE LastOf(b, i, p)
      BY <2>1 DEF Adds
    <3> QED  BY <3>1, <3>2
  <2>2. CASE p \notin 1 .. N
    <3>1. l <= i /\ i <= Len(s) /\ p = N + 1
      BY <2>2, <1>1
    <3>2. NodeAt(c, i, p) = Sym(s, i) /\ FirstOf(c, i, p) = n /\ LastOf(c, i, p) = n
      BY <3>1 DEF Adds
    <3>3. Sym(s, i) \in Nat
      BY <3>1
    <3> QED  BY <3>2, <3>3
  <2> QED  BY <2>1, <2>2
<1> QED  BY <1>1, <1>2 DEF Nodes

LEMMA SpellsGrow ==
    ASSUME NEW b, NEW c, NEW n \in Nat, NEW l, NEW s, NEW i \in Nat, NEW strings,
           Meets(strings, n, l, s), Nodes(b, i, n), Adds(b, c, n, l, s, i),
           Spells(b, strings, i), Unclosed(b, strings, n, i)
    PROVE  Spells(c, strings, i)
<1> DEFINE N == Size(b, i)
<1> HIDE DEF Size, NodeAt, FirstOf, LastOf, Sym
<1>1. N \in Nat /\ Size(c, i) = IF l <= i /\ i <= Len(s) THEN N + 1 ELSE N
  BY DEF Nodes, Adds
<1>2. l \in Nat /\ Len(s) \in Nat /\ l < Len(s) /\ s = strings[n + 1] /\ (n = 0 => l = 0)
  BY DEF Meets
<1> SUFFICES ASSUME NEW p \in 1 .. Size(c, i), NEW g \in FirstOf(c, i, p) .. LastOf(c, i, p)
             PROVE  i <= Len(strings[g + 1]) /\ Sym(strings[g + 1], i) = NodeAt(c, i, p)
  BY DEF Spells
<1>3. CASE p \in 1 .. N
  <2>1. /\ FirstOf(b, i, p) \in Nat /\ LastOf(b, i, p) \in Nat
        /\ FirstOf(b, i, p) <= LastOf(b, i, p)
    BY <1>3 DEF Nodes
  <2>2. /\ NodeAt(c, i, p) = NodeAt(b, i, p) /\ FirstOf(c, i, p) = FirstOf(b, i, p)
        /\ LastOf(c, i, p) = IF p = N /\ i < l THEN n ELSE LastOf(b, i, p)
    BY <1>3 DEF Adds
  <2>3. CASE g \in FirstOf(b, i, p) .. LastOf(b, i, p)
    BY <2>2, <2>3, <1>3 DEF Spells
  <2>4. CASE g \notin FirstOf(b, i, p) .. LastOf(b, i, p)
    <3>1. p = N /\ i < l
      BY <2>2, <2>4
    <3>2. n > 0 /\ Len(strings[n]) \in Nat /\ l <= Len(strings[n]) /\ Sym(strings[n], i) = Sym(s, i)
      <4>1. n > 0
        BY <3>1, <1>2
      <4>2. i \in 0 .. l - 1
        BY <3>1, <1>2
      <4> QED  BY <4>1, <4>2 DEF Meets
    <3>3. LastOf(b, i, p) = n - 1
      BY <3>1, <3>2, <1>2 DEF Unclosed
    <3>4. g = n
      BY <2>1, <2>2, <2>4, <3>1, <3>3
    <3>5. n - 1 \in FirstOf(b, i, p) .. LastOf(b, i, p) /\ (n - 1) + 1 = n
      BY <2>1, <3>3
    <3>6. Sym(strings[n], i) = NodeAt(b, i, p)
      BY <3>5, <1>3 DEF Spells
    <3>7. i <= Len(s)
      BY <3>1, <1>2
    <3> QED  BY <3>2, <3>4, <3>6, <3>7, <2>2, <1>2
  <2> QED  BY <2>3, <2>4
<1>4. CASE p \notin 1 .. N
  <2>1. l <= i /\ i <= Len(s) /\ p = N + 1
    BY <1>1, <1>4
  <2>2. NodeAt(c, i, p) = Sym(s, i) /\ FirstOf(c, i, p) = n /\ LastOf(c, i, p) = n
    BY <2>1 DEF Adds
  <2>3. g = n
    BY <2>2
  <2> QED  BY <2>1, <2>2, <2>3, <1>2
<1> QED  BY <1>3, <1>4

LEMMA UnclosedGrow ==
    ASSUME NEW b, NEW c, NEW n \in Nat, NEW l, NEW s, NEW i \in Nat, NEW strings,
           Meets(strings, n, l, s), Nodes(b, i, n), Adds(b, c, n, l, s, i),
           Unclosed(b, strings, n, i)
    PROVE  Unclosed(c, strings, n + 1, i)
<1> DEFINE N == Size(b, i)
<1> HIDE DEF Size, NodeAt, FirstOf, LastOf, Sym
<1>1. N \in Nat /\ Size(c, i) = IF l <= i /\ i <= Len(s) THEN N + 1 ELSE N
  BY DEF Nodes, Adds
<1>2. l \in Nat /\ Len(s) \in Nat /\ l < Len(s) /\ s = strings[n + 1] /\ (n = 0 => l = 0)
      /\ (n > 0 => l <= Len(strings[n]) /\ Len(strings[n]) \in Nat)
  BY DEF Meets
<1> SUFFICES ASSUME i <= Len(s)
             PROVE  Size(c, i) > 0 /\ LastOf(c, i, Size(c, i)) = n
  BY <1>2 DEF Unclosed
<1>3. CASE l <= i
  <2>1. Size(c, i) = N + 1 /\ LastOf(c, i, N + 1) = n
    BY <1>1, <1>3 DEF Adds
  <2> QED  BY <2>1, <1>1
<1>4. CASE ~(l <= i)
  <2>1. n > 0 /\ i <= Len(strings[n]) /\ i < l
    BY <1>2, <1>4
  <2>2. N > 0 /\ Size(c, i) = N
    BY <2>1, <1>1, <1>4 DEF Unclosed
  <2>3. N \in 1 .. N
    BY <2>2, <1>1
  <2>4. LastOf(c, i, N) = n
    BY <2>1, <2>3 DEF Adds
  <2> QED  BY <2>2, <2>4
<1> QED  BY <1>3, <1>4

LEMMA KidsGrow ==
    ASSUME NEW b, NEW c, NEW n \in Nat, NEW l \in Nat, NEW s, NEW i \in Nat, Len(s) \in Nat,
           Nodes(b, i, n), Nodes(b, i + 1, n), Adds(b, c, n, l, s, i), Adds(b, c, n, l, s, i + 1),
           Bears(b, c, l, s, i), Kids(b, i)
    PROVE  Kids(c, i)
<1> DEFINE N == Size(b, i)
           N1 == Size(c, i)
           M == Size(b, i + 1)
           M1 == Size(c, i + 1)
<1> HIDE DEF Size, NodeAt, FirstOf, LastOf, Sym, ChildAt
<1>1. N \in Nat /\ N1 = IF l <= i /\ i <= Len(s) THEN N + 1 ELSE N
  BY DEF Nodes, Adds
<1>2. M \in Nat /\ M1 = IF l <= i + 1 /\ i + 1 <= Len(s) THEN M + 1 ELSE M
  BY DEF Nodes, Adds
<1>3. /\ \A p \in 1 .. N : ChildAt(c, i, p) = ChildAt(b, i, p)
      /\ ChildAt(c, i, N + 1) = IF i < l THEN M1 ELSE M
      /\ l <= i /\ i <= Len(s) => ChildAt(c, i, N + 2) = M1
  BY DEF Bears
<1>4. /\ \A p \in 1 .. N + 1 : ChildAt(b, i, p) \in Nat
      /\ \A p, q \in 1 .. N + 1 : p <= q => ChildAt(b, i, p) <= ChildAt(b, i, q)
      /\ ChildAt(b, i, N + 1) = M
  BY DEF Kids
<1> HIDE DEF N, N1, M, M1
<1>5. ChildAt(c, i, N1 + 1) = M1
  <2>1. CASE l <= i /\ i <= Len(s)
    <3>1. N1 + 1 = N + 2
      BY <2>1, <1>1
    <3> QED  BY <2>1, <3>1, <1>3
  <2>2. CASE ~(l <= i /\ i <= Len(s))
    <3>1. N1 = N
      BY <2>2, <1>1
    <3>2. i < l \/ M1 = M
      BY <2>2, <1>2
    <3> QED  BY <3>1, <3>2, <1>3
  <2> QED  BY <2>1, <2>2
<1>6. \A p \in 1 .. N : ChildAt(b, i, p) \in Nat /\ ChildAt(b, i, p) <= M
  <2> SUFFICES ASSUME NEW p \in 1 .. N PROVE ChildAt(b, i, p) \in Nat /\ ChildAt(b, i, p) <= M
    OBVIOUS
  <2>1. p \in 1 .. N + 1 /\ N + 1 \in 1 .. N + 1 /\ p <= N + 1
    BY <1>1
  <2> QED  BY <2>1, <1>4
<1>7. M1 \in Nat /\ M <= M1
  BY <1>2
<1>8. \A p \in 1 .. N1 + 1 : p \in 1 .. N \/ p = N + 1 \/ (p = N + 2 /\ l <= i /\ i <= Len(s))
  BY <1>1
<1>9. \A p \in 1 .. N1 + 1 : ChildAt(c, i, p) \in Nat
  BY <1>2, <1>3, <1>6, <1>7, <1>8
<1>10. ASSUME NEW p \in 1 .. N1 + 1, NEW q \in 1 .. N1 + 1, p <= q
       PROVE  ChildAt(c, i, p) <= ChildAt(c, i, q)
  <2>1. CASE p \in 1 .. N /\ q \in 1 .. N
    <3>1. p \in 1 .. N + 1 /\ q \in 1 .. N + 1
      BY <2>1, <1>1
    <3>2. ChildAt(b, i, p) <= ChildAt(b, i, q)
      BY <3>1, <1>4, <1>10
    <3> QED  BY <3>2, <2>1, <1>3
  <2>2. CASE p \in 1 .. N /\ q \notin 1 .. N
    <3>1. ChildAt(c, i, p) = ChildAt(b, i, p) /\ ChildAt(b, i, p) <= M /\ ChildAt(b, i, p) \in Nat
      BY <2>2, <1>3, <1>6
    <3>2. ChildAt(c, i, q) \in {M, M1}
      BY <2>2, <1>3, <1>8
    <3> QED  BY <3>1, <3>2, <1>2, <1>7
  <2>3. CASE p \notin 1 .. N
    <3>1. p = q \/ (p = N + 1 /\ q = N + 2 /\ l <= i /\ i <= Len(s))
      BY <2>3, <1>1, <1>8, <1>10
    <3>2. CASE p = q
      BY <3>2, <1>9
    <3>3. CASE p = N + 1 /\ q = N + 2 /\ l <= i /\ i <= Len(s)
      BY <3>3, <1>2, <1>3, <1>7
    <3> QED  BY <3>1, <3>2, <3>3
  <2> QED  BY <2>1, <2>2, <2>3
<1> QED  BY <1>5, <1>9, <1>10 DEF Kids, N1, M1

\* The last node of a level that the next completion shares has children.
LEMMA LastParent ==
    ASSUME NEW b, NEW n \in Nat, NEW l, NEW s, NEW i \in Nat, NEW strings,
           Meets(strings, n, l, s), Nodes(b, i, n), i < l,
           Kids(b, i), Bred(b, i), Unclosed(b, strings, n, i), Spells(b, strings, i)
    PROVE  /\ Size(b, i) \in Nat /\ Size(b, i) \in 1 .. Size(b, i)
           /\ LastOf(b, i, Size(b, i)) = n - 1 /\ n > 0
           /\ NodeAt(b, i, Size(b, i)) # Terminator
           /\ Family(b, i + 1, ChildAt(b, i, Size(b, i)), Size(b, i + 1),
                     FirstOf(b, i, Size(b, i)), n - 1)
           /\ ChildAt(b, i, Size(b, i)) \in Nat /\ ChildAt(b, i, Size(b, i)) < Size(b, i + 1)
<1> DEFINE N == Size(b, i)
<1> HIDE DEF Size, NodeAt, FirstOf, LastOf, Sym, ChildAt
<1>1. /\ l \in Nat /\ Len(s) \in Nat /\ l < Len(s) /\ n > 0
      /\ Len(strings[n]) \in Nat /\ l <= Len(strings[n])
      /\ Sym(strings[n], i) = Sym(s, i) /\ Sym(s, i) # 0
  <2>1. l \in Nat /\ Len(s) \in Nat /\ l < Len(s) /\ (n = 0 => l = 0)
    BY DEF Meets
  <2>2. i \in 0 .. l - 1 /\ i \in 0 .. Len(s) - 1 /\ n > 0
    BY <2>1
  <2>3. /\ Len(strings[n]) \in Nat /\ l <= Len(strings[n])
        /\ Sym(strings[n], i) = Sym(s, i) /\ Sym(s, i) # 0
    BY <2>2 DEF Meets
  <2> QED  BY <2>1, <2>2, <2>3
<1>2. N \in Nat /\ N > 0 /\ LastOf(b, i, N) = n - 1
  <2>1. n > 0 /\ i <= Len(strings[n])
    BY <1>1
  <2> QED  BY <2>1 DEF Nodes, Unclosed
<1>3. N \in 1 .. N
  BY <1>2
<1>4. FirstOf(b, i, N) \in Nat /\ FirstOf(b, i, N) <= n - 1
  BY <1>2, <1>3 DEF Nodes
<1>5. NodeAt(b, i, N) = Sym(s, i)
  <2>1. n - 1 \in FirstOf(b, i, N) .. LastOf(b, i, N) /\ (n - 1) + 1 = n
    BY <1>2, <1>4
  <2>2. Sym(strings[n], i) = NodeAt(b, i, N)
    BY <2>1, <1>3 DEF Spells
  <2> QED  BY <2>2, <1>1
<1>6. NodeAt(b, i, N) # Terminator
  BY <1>1, <1>5 DEF Terminator
<1>7. ChildAt(b, i, N) \in Nat /\ ChildAt(b, i, N + 1) = Size(b, i + 1) /\ Size(b, i + 1) \in Nat
  <2>1. N \in 1 .. N + 1 /\ N + 1 \in 1 .. N + 1
    BY <1>2
  <2> QED  BY <2>1 DEF Kids
<1>8. Family(b, i + 1, ChildAt(b, i, N), Size(b, i + 1), FirstOf(b, i, N), n - 1)
  <2>1. Family(b, i + 1, ChildAt(b, i, N), ChildAt(b, i, N + 1), FirstOf(b, i, N), LastOf(b, i, N))
    BY <1>3, <1>6 DEF Bred
  <2> QED  BY <2>1, <1>2, <1>7
<1>9. ChildAt(b, i, N) < Size(b, i + 1)
  <2>1. n - 1 \in FirstOf(b, i, N) .. n - 1
    BY <1>1, <1>4
  <2>2. \E d \in ChildAt(b, i, N) + 1 .. Size(b, i + 1) :
           FirstOf(b, i + 1, d) <= n - 1 /\ n - 1 <= LastOf(b, i + 1, d)
    BY <2>1, <1>8 DEF Family
  <2> QED  BY <2>2, <1>7
<1> QED  BY <1>1, <1>2, <1>3, <1>6, <1>7, <1>8, <1>9

\* The symbol of the next completion follows the last node of its level.
LEMMA NextSymbol ==
    ASSUME NEW b, NEW n \in Nat, NEW l, NEW s, NEW strings,
           Meets(strings, n, l, s), Nodes(b, l, n), n > 0,
           Unclosed(b, strings, n, l), Spells(b, strings, l)
    PROVE  Size(b, l) \in Nat \ {0} /\ NodeAt(b, l, Size(b, l)) < Sym(s, l)
<1> DEFINE N == Size(b, l)
<1> HIDE DEF Size, NodeAt, FirstOf, LastOf, Sym, ChildAt
<1>1. /\ l \in Nat /\ Len(strings[n]) \in Nat /\ l <= Len(strings[n])
      /\ Sym(strings[n], l) < Sym(s, l)
  BY DEF Meets
<1>2. N \in Nat /\ N > 0 /\ LastOf(b, l, N) = n - 1
  BY <1>1 DEF Nodes, Unclosed
<1>3. N \in 1 .. N
  BY <1>2
<1>4. FirstOf(b, l, N) \in Nat /\ FirstOf(b, l, N) <= n - 1
  BY <1>2, <1>3 DEF Nodes
<1>5. n - 1 \in FirstOf(b, l, N) .. LastOf(b, l, N) /\ (n - 1) + 1 = n
  BY <1>2, <1>4
<1>6. Sym(strings[n], l) = NodeAt(b, l, N)
  BY <1>5, <1>3 DEF Spells
<1> QED  BY <1>1, <1>2, <1>6

LEMMA BredGrow ==
    ASSUME NEW b, NEW c, NEW n \in Nat, NEW l, NEW s, NEW i \in Nat, NEW strings,
           Meets(strings, n, l, s), Nodes(b, i, n), Nodes(b, i + 1, n),
           Adds(b, c, n, l, s, i), Adds(b, c, n, l, s, i + 1), Bears(b, c, l, s, i),
           Kids(b, i), Bred(b, i), Unclosed(b, strings, n, i), Unclosed(b, strings, n, i + 1),
           Spells(b, strings, i), Spells(b, strings, i + 1)
    PROVE  Bred(c, i)
<1> DEFINE N == Size(b, i)
           M == Size(b, i + 1)
           N1 == Size(c, i)
           M1 == Size(c, i + 1)
           j == i + 1
<1> HIDE DEF Size, NodeAt, FirstOf, LastOf, Sym, ChildAt
<1>1. N \in Nat /\ N1 = IF l <= i /\ i <= Len(s) THEN N + 1 ELSE N
  BY DEF Nodes, Adds
<1>2. M \in Nat /\ M1 = IF l <= j /\ j <= Len(s) THEN M + 1 ELSE M
  BY DEF Nodes, Adds
<1>3. /\ \A p \in 1 .. N : ChildAt(c, i, p) = ChildAt(b, i, p)
      /\ ChildAt(c, i, N + 1) = IF i < l THEN M1 ELSE M
      /\ l <= i /\ i <= Len(s) => ChildAt(c, i, N + 2) = M1
  BY DEF Bears
<1>4. /\ \A p \in 1 .. N + 1 : ChildAt(b, i, p) \in Nat
      /\ \A p, q \in 1 .. N + 1 : p <= q => ChildAt(b, i, p) <= ChildAt(b, i, q)
      /\ ChildAt(b, i, N + 1) = M
  BY DEF Kids
<1>5. l \in Nat /\ Len(s) \in Nat /\ l < Len(s) /\ (n = 0 => l = 0) /\ j \in Nat /\ Sym(s, Len(s)) = 0
      /\ \A x \in 0 .. Len(s) - 1 : Sym(s, x) \in Nat \ {0}
  BY DEF Meets
<1>6. i < l => /\ N \in 1 .. N
               /\ LastOf(b, i, N) = n - 1 /\ n > 0
               /\ NodeAt(b, i, N) # Terminator
               /\ Family(b, j, ChildAt(b, i, N), M, FirstOf(b, i, N), n - 1)
               /\ ChildAt(b, i, N) \in Nat /\ ChildAt(b, i, N) < M
  BY LastParent
<1>7. Nodes(b, j, n) /\ Adds(b, c, n, l, s, j) /\ Unclosed(b, strings, n, j) /\ Spells(b, strings, j)
  OBVIOUS
<1> HIDE DEF N, M, N1, M1, j
<1>71. j = i + 1 /\ M = Size(b, j) /\ M1 = Size(c, j)
  BY DEF j, M, M1
<1> SUFFICES ASSUME NEW p \in 1 .. N1, NodeAt(c, i, p) # Terminator
             PROVE  Family(c, j, ChildAt(c, i, p), ChildAt(c, i, p + 1), FirstOf(c, i, p), LastOf(c, i, p))
  BY DEF Bred, N1, j
<1>8. CASE p \in 1 .. N
  <2>1. /\ NodeAt(c, i, p) = NodeAt(b, i, p) /\ FirstOf(c, i, p) = FirstOf(b, i, p)
        /\ LastOf(c, i, p) = IF p = N /\ i < l THEN n ELSE LastOf(b, i, p)
        /\ ChildAt(c, i, p) = ChildAt(b, i, p)
    BY <1>3, <1>8 DEF Adds, N
  <2>2. FirstOf(b, i, p) \in Nat /\ FirstOf(b, i, p) < n
    BY <1>8 DEF Nodes, N
  <2>3. CASE p = N /\ i < l
    <3>1. Family(b, j, ChildAt(b, i, p), M, FirstOf(b, i, p), n - 1)
          /\ ChildAt(b, i, p) \in Nat /\ ChildAt(b, i, p) < M
      BY <2>3, <1>6
    <3>2. ChildAt(c, i, p + 1) = M1 /\ LastOf(c, i, p) = n
      BY <2>1, <2>3, <1>3
    <3> DEFINE lo == ChildAt(b, i, p)
               from == FirstOf(b, i, p)
    <3> HIDE DEF lo, from
    <3>3. Family(b, j, lo, Size(b, j), from, n - 1) /\ lo \in Nat /\ lo < Size(b, j)
          /\ from \in Nat /\ from <= n
      BY <3>1, <2>2, <1>71 DEF lo, from
    <3>4. CASE j < l
      <4>1. Family(c, j, lo, Size(b, j), from, n)
        BY <3>3, <3>4, <1>5, <1>7, FamilyStretched
      <4>2. M1 = M
        BY <3>4, <1>2, <1>5
      <4> QED  BY <4>1, <4>2, <3>2, <2>1, <1>71 DEF lo, from
    <3>5. CASE ~(j < l)
      <4>1. j = l /\ j <= Len(s) /\ n > 0 /\ M1 = M + 1 /\ j \in 0 .. Len(s) - 1 /\ l <= j
        BY <3>5, <2>3, <1>2, <1>5, <1>6, <1>71
      <4>2. NodeAt(b, j, Size(b, j)) < Sym(s, j)
        <5>1. Nodes(b, l, n) /\ Unclosed(b, strings, n, l) /\ Spells(b, strings, l)
          BY <4>1, <1>7
        <5>2. NodeAt(b, l, Size(b, l)) < Sym(s, l)
          BY <5>1, <4>1, NextSymbol
        <5> QED  BY <5>2, <4>1
      <4>3. Sym(s, j) \in Nat
        BY <4>1, <1>5
      <4>4. lo <= Size(b, j)
        BY <3>3, <1>2, <1>71
      <4>5. Family(c, j, lo, Size(b, j) + 1, from, n)
        BY <4>1, <4>2, <4>3, <4>4, <3>3, <1>5, <1>7, FamilyJoined
      <4> QED  BY <4>1, <4>5, <3>2, <2>1, <1>71 DEF lo, from
    <3> QED  BY <3>4, <3>5
  <2>4. CASE ~(p = N /\ i < l)
    <3>1. LastOf(c, i, p) = LastOf(b, i, p)
      BY <2>1, <2>4
    <3>2. ChildAt(c, i, p + 1) = ChildAt(b, i, p + 1)
      <4>1. CASE p = N
        <5>1. ~(i < l)
          BY <4>1, <2>4
        <5> QED  BY <4>1, <5>1, <1>3, <1>4
      <4>2. CASE p # N
        <5>1. p + 1 \in 1 .. N
          BY <4>2, <1>1, <1>8
        <5> QED  BY <5>1, <1>3
      <4> QED  BY <4>1, <4>2
    <3> DEFINE lo == ChildAt(b, i, p)
               hi == ChildAt(b, i, p + 1)
               from == FirstOf(b, i, p)
               to == LastOf(b, i, p)
    <3>3. Family(b, j, lo, hi, from, to)
      BY <2>1, <1>8, <1>71 DEF Bred, N
    <3>4. p \in 1 .. N + 1 /\ p + 1 \in 1 .. N + 1 /\ N + 1 \in 1 .. N + 1 /\ p + 1 <= N + 1
      BY <1>1, <1>8
    <3>5. lo \in Nat /\ hi \in Nat /\ hi <= M
      BY <3>4, <1>4
    <3>6. ASSUME j < l PROVE hi < M
      <4>1. i < l
        BY <3>6, <1>5, <1>71
      <4>2. p + 1 \in 1 .. N + 1 /\ N \in 1 .. N + 1 /\ p + 1 <= N
        BY <4>1, <2>4, <1>1, <1>8
      <4>3. hi <= ChildAt(b, i, N)
        BY <4>2, <1>4
      <4>4. ChildAt(b, i, N) \in Nat /\ ChildAt(b, i, N) < M
        BY <4>1, <1>6
      <4> QED  BY <4>3, <4>4, <3>5, <1>2
    <3> HIDE DEF lo, hi, from, to
    <3>7. hi <= Size(b, j) /\ (j < l => hi < Size(b, j))
      BY <3>5, <3>6, <1>71
    <3>8. Family(c, j, lo, hi, from, to)
      BY <3>3, <3>5, <3>7, <1>5, <1>7, FamilyKept
    <3> QED  BY <3>1, <3>2, <3>8, <2>1 DEF lo, hi, from, to
  <2> QED  BY <2>3, <2>4
<1>9. CASE p \notin 1 .. N
  <2>1. l <= i /\ i <= Len(s) /\ p = N + 1
    BY <1>1, <1>9
  <2>2. NodeAt(c, i, p) = Sym(s, i) /\ FirstOf(c, i, p) = n /\ LastOf(c, i, p) = n
    BY <2>1 DEF Adds, N
  <2>3. i < Len(s)
    <3>1. i # Len(s)
      BY <2>2, <1>5 DEF Terminator
    <3> QED  BY <3>1, <2>1, <1>5
  <2>4. ChildAt(c, i, p) = M /\ ChildAt(c, i, p + 1) = M1
    <3>1. ~(i < l) /\ p + 1 = N + 2
      BY <2>1, <1>1, <1>5
    <3> QED  BY <3>1, <2>1, <1>3
  <2>5. l <= j /\ j <= Len(s) /\ M1 = M + 1
    BY <2>1, <2>3, <1>2, <1>5, <1>71
  <2>6. Sym(s, j) \in Nat
    <3>1. j = Len(s) \/ j \in 0 .. Len(s) - 1
      BY <2>5, <1>5
    <3> QED  BY <3>1, <1>5
  <2>7. Family(b, j, M, Size(b, j), n, n - 1)
    <3>1. \A d \in M + 1 .. M : FALSE
      BY <1>2
    <3>2. \A g \in n .. n - 1 : FALSE
      OBVIOUS
    <3> QED  BY <3>1, <3>2, <1>71 DEF Family
  <2>8. M \in Nat /\ M <= Size(b, j) /\ ~(M < Size(b, j)) /\ n <= n
    BY <1>2, <1>71
  <2>9. Family(c, j, M, Size(b, j) + 1, n, n)
    BY <2>5, <2>6, <2>7, <2>8, <1>5, <1>7, FamilyJoined
  <2> QED  BY <2>2, <2>4, <2>5, <2>9, <1>71
<1> QED  BY <1>8, <1>9

LEMMA RootGrow ==
    ASSUME NEW b, NEW c, NEW n \in Nat, NEW l, NEW s, NEW strings,
           Meets(strings, n, l, s), Nodes(b, 0, n), Adds(b, c, n, l, s, 0),
           Unclosed(b, strings, n, 0), Spells(b, strings, 0),
           Family(b, 0, 0, Size(b, 0), 0, n - 1)
    PROVE  Family(c, 0, 0, Size(c, 0), 0, n)
<1> DEFINE N == Size(b, 0)
           N1 == Size(c, 0)
<1> HIDE DEF Size, NodeAt, FirstOf, LastOf, Sym
<1>1. N \in Nat /\ N1 = IF l <= 0 /\ 0 <= Len(s) THEN N + 1 ELSE N
  BY DEF Nodes, Adds
<1>2. /\ l \in Nat /\ Len(s) \in Nat /\ l < Len(s) /\ (n = 0 => l = 0)
      /\ \A x \in 0 .. Len(s) - 1 : Sym(s, x) \in Nat \ {0}
      /\ (n > 0 => Len(strings[n]) \in Nat)
  BY DEF Meets
<1> DEFINE z == 0
<1> HIDE DEF z
<1>3. z = 0 /\ z \in Nat /\ Nodes(b, z, n) /\ Adds(b, c, n, l, s, z)
      /\ Family(b, z, z, Size(b, z), z, n - 1)
  BY DEF z
<1>4. CASE l > 0
  <2>1. n > 0 /\ 0 <= Len(strings[n])
    BY <1>2, <1>4
  <2>2. z < Size(b, z) /\ z < l
    BY <2>1, <1>3, <1>4 DEF Unclosed
  <2>3. Family(c, z, z, Size(b, z), z, n)
    BY <2>2, <1>2, <1>3, FamilyStretched
  <2>4. N1 = N
    BY <1>1, <1>2, <1>4
  <2> QED  BY <2>3, <2>4, <1>3
<1>5. CASE l = 0
  <2>1. N1 = N + 1 /\ l <= z /\ z <= Len(s) /\ Sym(s, z) \in Nat
    BY <1>1, <1>2, <1>3, <1>5
  <2>2. ASSUME z < Size(b, z) PROVE NodeAt(b, z, Size(b, z)) < Sym(s, z)
    <3>1. N \in 1 .. N
      BY <2>2, <1>1, <1>3
    <3>2. n > 0
      BY <3>1 DEF Nodes
    <3>3. NodeAt(b, l, Size(b, l)) < Sym(s, l)
      BY <3>2, <1>5, NextSymbol
    <3> QED  BY <3>3, <1>3, <1>5
  <2>3. z <= Size(b, z) /\ z <= n
    BY <1>1, <1>3
  <2>4. Family(c, z, z, Size(b, z) + 1, z, n)
    BY <2>1, <2>2, <2>3, <1>2, <1>3, FamilyJoined
  <2> QED  BY <2>1, <2>4, <1>3
<1> QED  BY <1>2, <1>4, <1>5

LEMMA GrowsAt ==
    ASSUME NEW b, NEW c, NEW L, NEW n, NEW l, NEW s, Grows(b, c, L, n, l, s)
    PROVE  /\ \A i \in 0 .. L - 1 : Adds(b, c, n, l, s, i)
           /\ \A i \in 0 .. L - 2 : Bears(b, c, l, s, i)
<1> HIDE DEF Size, NodeAt, FirstOf, LastOf, Sym, ChildAt
<1>1. ASSUME NEW i \in 0 .. L - 1 PROVE Adds(b, c, n, l, s, i)
  BY DEF Grows, Adds
<1>2. ASSUME NEW i \in 0 .. L - 2 PROVE Bears(b, c, l, s, i)
  BY DEF Grows, Bears
<1> QED  BY <1>1, <1>2

LEMMA TreeGrows ==
    ASSUME NEW b, NEW c, NEW L \in Nat \ {0}, NEW n \in Nat, NEW l, NEW s, NEW strings,
           Meets(strings, n, l, s), Grows(b, c, L, n, l, s), Tree(b, L, strings, n)
    PROVE  Tree(c, L, strings, n + 1)
<1> HIDE DEF Size, NodeAt, FirstOf, LastOf, Sym, ChildAt
<1>1. /\ \A i \in 0 .. L - 1 : Adds(b, c, n, l, s, i)
      /\ \A i \in 0 .. L - 2 : Bears(b, c, l, s, i)
  BY GrowsAt
<1>2. /\ \A i \in 0 .. L - 1 :
          Nodes(b, i, n) /\ Spells(b, strings, i) /\ Unclosed(b, strings, n, i)
      /\ \A i \in 0 .. L - 2 : Kids(b, i) /\ Bred(b, i)
      /\ Family(b, 0, 0, Size(b, 0), 0, n - 1)
  BY DEF Tree
<1>3. /\ l \in Nat /\ Len(s) \in Nat /\ l < Len(s)
      /\ \A j \in 0 .. Len(s) : Sym(s, j) \in Nat
  <2>1. /\ l \in Nat /\ Len(s) \in Nat /\ l < Len(s) /\ Sym(s, Len(s)) = 0
        /\ \A j \in 0 .. Len(s) - 1 : Sym(s, j) \in Nat \ {0}
    BY DEF Meets
  <2>2. \A j \in 0 .. Len(s) : j = Len(s) \/ j \in 0 .. Len(s) - 1
    BY <2>1
  <2> QED  BY <2>1, <2>2
<1>4. ASSUME NEW i \in 0 .. L - 1
      PROVE  Nodes(c, i, n + 1) /\ Spells(c, strings, i) /\ Unclosed(c, strings, n + 1, i)
  <2>1. /\ Nodes(b, i, n) /\ Spells(b, strings, i) /\ Unclosed(b, strings, n, i)
        /\ Adds(b, c, n, l, s, i) /\ i \in Nat
    BY <1>1, <1>2
  <2>2. Nodes(c, i, n + 1)
    BY <2>1, <1>3, NodesGrow
  <2>3. Spells(c, strings, i)
    BY <2>1, SpellsGrow
  <2>4. Unclosed(c, strings, n + 1, i)
    BY <2>1, UnclosedGrow
  <2> QED  BY <2>2, <2>3, <2>4
<1>5. ASSUME NEW i \in 0 .. L - 2 PROVE Kids(c, i) /\ Bred(c, i)
  <2>1. i \in 0 .. L - 1 /\ i + 1 \in 0 .. L - 1 /\ i \in Nat
    OBVIOUS
  <2>2. /\ Nodes(b, i, n) /\ Spells(b, strings, i) /\ Unclosed(b, strings, n, i)
        /\ Nodes(b, i + 1, n) /\ Spells(b, strings, i + 1) /\ Unclosed(b, strings, n, i + 1)
        /\ Adds(b, c, n, l, s, i) /\ Adds(b, c, n, l, s, i + 1)
    BY <2>1, <1>1, <1>2
  <2>3. Kids(b, i) /\ Bred(b, i) /\ Bears(b, c, l, s, i)
    BY <1>1, <1>2
  <2>4. Kids(c, i)
    BY <2>1, <2>2, <2>3, <1>3, KidsGrow
  <2>5. Bred(c, i)
    BY <2>1, <2>2, <2>3, BredGrow
  <2> QED  BY <2>4, <2>5
<1>6. Family(c, 0, 0, Size(c, 0), 0, n)
  <2>1. 0 \in 0 .. L - 1
    OBVIOUS
  <2> QED  BY <2>1, <1>1, <1>2, RootGrow
<1>7. (n + 1) - 1 = n
  OBVIOUS
<1> QED  BY <1>4, <1>5, <1>6, <1>7 DEF Tree

LEMMA EmptyTree ==
    ASSUME NEW strings, NEW L \in Nat \ {0}
    PROVE  Shape(Empty(L), L, strings, 0) /\ Tree(Empty(L), L, strings, 0)
<1> DEFINE e == Empty(L)
           z == <<>>
           u == <<0>>
<1>1. z \in Seq(Nat) /\ Len(z) = 0 /\ u \in Seq(Nat) /\ Len(u) = 1 /\ u[1] = 0
  OBVIOUS
<1>2. /\ e.prev = <<Terminator>> /\ e.read = 0
      /\ e.nodes = [i \in 0 .. L - 1 |-> z] /\ e.lefts = [i \in 0 .. L - 1 |-> z]
      /\ e.ends = [i \in 0 .. L - 1 |-> z]
      /\ e.pointers = [i \in 0 .. L - 2 |-> u]
      /\ e.offsets = [i \in 0 .. L - 2 |-> 0]
  BY DEF Empty
<1> HIDE DEF e, z, u
<1>3. \A i \in 0 .. L - 1 : e.nodes[i] = z /\ e.lefts[i] = z /\ e.ends[i] = z
  BY <1>2
<1>4. \A i \in 0 .. L - 2 : e.pointers[i] = u /\ e.offsets[i] = 0 /\ e.nodes[i + 1] = z
  <2>1. \A i \in 0 .. L - 2 : i + 1 \in 0 .. L - 1
    OBVIOUS
  <2> QED  BY <2>1, <1>2, <1>3
<1>5. \A i : Open(strings, 0, i) = 0
  BY DEF Open
<1>6. Shape(e, L, strings, 0)
  <2>1. /\ e.read = 0 /\ e.prev = <<Terminator>>
        /\ DOMAIN e.nodes = 0 .. L - 1 /\ DOMAIN e.lefts = 0 .. L - 1 /\ DOMAIN e.ends = 0 .. L - 1
        /\ DOMAIN e.pointers = 0 .. L - 2 /\ DOMAIN e.offsets = 0 .. L - 2
    BY <1>2
  <2>2. ASSUME NEW i \in 0 .. L - 1
        PROVE  /\ e.nodes[i] \in Seq(Nat) /\ e.lefts[i] \in Seq(Nat) /\ e.ends[i] \in Seq(Nat)
               /\ Len(e.lefts[i]) = Len(e.nodes[i])
               /\ Len(e.nodes[i]) = Len(e.ends[i]) + Open(strings, 0, i)
    <3>1. e.nodes[i] = z /\ e.lefts[i] = z /\ e.ends[i] = z
      BY <1>3
    <3>2. Open(strings, 0, i) = 0 /\ Len(z) = Len(z) + 0
      BY <1>1, <1>5
    <3> QED  BY <3>1, <3>2, <1>1, Zenon
  <2>3. ASSUME NEW i \in 0 .. L - 2
        PROVE  /\ e.pointers[i] \in Seq(Nat) /\ e.offsets[i] \in Nat
               /\ Len(e.pointers[i]) = Len(e.ends[i]) + 1
               /\ e.pointers[i][Len(e.pointers[i])] + e.offsets[i] = Len(e.nodes[i + 1])
               /\ Open(strings, 0, i) = 0 => e.offsets[i] = 0
    <3>1. e.ends[i] = z /\ e.nodes[i + 1] = z /\ e.pointers[i] = u /\ e.offsets[i] = 0
      <4>1. i \in 0 .. L - 1
        OBVIOUS
      <4> QED  BY <4>1, <1>3, <1>4
    <3>2. 0 \in Nat /\ Len(u) = Len(z) + 1 /\ u[Len(u)] + 0 = Len(z)
      <4>1. u[Len(u)] = 0
        BY <1>1, Zenon
      <4> QED  BY <4>1, <1>1
    <3> QED  BY <3>1, <3>2, <1>1, Zenon
  <2> QED  BY <2>1, <2>2, <2>3 DEF Shape
<1>7. \A i \in 0 .. L - 1 : Size(e, i) = 0
  BY <1>1, <1>3 DEF Size
<1>8. ASSUME NEW i \in 0 .. L - 1
      PROVE  Nodes(e, i, 0) /\ Spells(e, strings, i) /\ Unclosed(e, strings, 0, i)
  <2>1. Size(e, i) = 0 /\ \A p \in 1 .. 0 : FALSE
    BY <1>7
  <2> QED  BY <2>1 DEF Nodes, Spells, Unclosed
<1>9. ASSUME NEW i \in 0 .. L - 2 PROVE Kids(e, i) /\ Bred(e, i)
  <2>1. Size(e, i) = 0 /\ Size(e, i + 1) = 0 /\ (\A p \in 1 .. 0 : FALSE)
        /\ \A p \in 1 .. 0 + 1 : p = 1
    <3>1. i \in 0 .. L - 1 /\ i + 1 \in 0 .. L - 1
      OBVIOUS
    <3> QED  BY <3>1, <1>7
  <2>2. ChildAt(e, i, 1) = 0
    BY <1>1, <1>4 DEF ChildAt
  <2>3. Bred(e, i)
    BY <2>1 DEF Bred
  <2>4. Kids(e, i)
    <3>1. \A p \in 1 .. Size(e, i) + 1 : p = 1
      BY <2>1
    <3>2. Size(e, i) + 1 = 1
      BY <2>1
    <3> HIDE DEF ChildAt, Size
    <3>3. \A p \in 1 .. Size(e, i) + 1 : ChildAt(e, i, p) = 0
      BY <3>1, <2>2
    <3>4. ChildAt(e, i, Size(e, i) + 1) = Size(e, i + 1)
      BY <3>2, <2>1, <2>2
    <3> QED  BY <3>3, <3>4 DEF Kids
  <2> QED  BY <2>3, <2>4
<1>10. Family(e, 0, 0, Size(e, 0), 0, 0 - 1)
  <2>1. Size(e, 0) = 0 /\ (\A d \in 0 + 1 .. 0 : FALSE) /\ \A g \in 0 .. 0 - 1 : FALSE
    BY <1>7
  <2> QED  BY <2>1 DEF Family
<1>11. Tree(e, L, strings, 0)
  BY <1>8, <1>9, <1>10 DEF Tree
<1> QED  BY <1>6, <1>11 DEF e

\* The builder, and the trie it ends with.
BuiltUpTo(B, strings, L, n) ==
    B = [i \in 0 .. n |-> IF i = 0 THEN Empty(L) ELSE Read(B[i - 1], strings[i])]

LEMMA BuiltExists ==
    ASSUME NEW strings, NEW L, NEW n \in Nat
    PROVE  \E A : BuiltUpTo(A, strings, L, n)
<1> DEFINE S == {i \in Nat : \E A : BuiltUpTo(A, strings, L, i)}
<1>1. 0 \in S
  <2> DEFINE A == [i \in 0 .. 0 |-> Empty(L)]
  <2>1. A = [i \in 0 .. 0 |-> IF i = 0 THEN Empty(L) ELSE Read(A[i - 1], strings[i])]
    OBVIOUS
  <2> QED  BY <2>1 DEF BuiltUpTo
<1>2. ASSUME NEW i \in Nat, i \in S PROVE i + 1 \in S
  <2>1. PICK A : BuiltUpTo(A, strings, L, i)
    BY <1>2
  <2> DEFINE Step(F, j) == IF j = 0 THEN Empty(L) ELSE Read(F[j - 1], strings[j])
             B == [j \in 0 .. i + 1 |-> IF j <= i THEN A[j] ELSE Step(A, j)]
  <2>2. A = [j \in 0 .. i |-> Step(A, j)]
    BY <2>1 DEF BuiltUpTo
  <2>3. \A j \in 0 .. i : A[j] = Step(A, j)
    BY <2>2
  <2>4. \A j \in 0 .. i + 1 : B[j] = Step(B, j)
    <3> SUFFICES ASSUME NEW j \in 0 .. i + 1 PROVE B[j] = Step(B, j)
      OBVIOUS
    <3>1. B[j] = Step(A, j)
      BY <2>3
    <3>2. CASE j = 0
      BY <3>1, <3>2
    <3>3. CASE j # 0
      <4>1. j - 1 \in 0 .. i + 1 /\ j - 1 <= i
        BY <3>3
      <4>2. B[j - 1] = A[j - 1]
        BY <4>1
      <4> QED  BY <3>1, <4>2, <3>3
    <3> QED  BY <3>2, <3>3
  <2>5. B = [j \in 0 .. i + 1 |-> Step(B, j)]
    <3>1. B = [j \in 0 .. i + 1 |-> B[j]]
      OBVIOUS
    <3> HIDE DEF B, Step
    <3> QED  BY <3>1, <2>4, Zenon
  <2>6. BuiltUpTo(B, strings, L, i + 1)
    BY <2>5 DEF BuiltUpTo
  <2> QED  BY <2>6
<1>3. Nat \subseteq S
  <2> HIDE DEF S
  <2> QED  BY <1>1, <1>2, Everywhere
<1> QED  BY <1>3

EndOf(b, i) == IF i < Len(b.prev) THEN Append(b.ends[i], b.read - 1) ELSE b.ends[i]
PointersOf(b) == [i \in DOMAIN b.pointers |-> Append(b.pointers[i], Len(b.nodes[i + 1]))]
TrieOf(b) ==
    [pointers |-> PointersOf(b),
     nodes |-> [i \in DOMAIN b.nodes |->
         IF i = 0 THEN b.nodes[i] ELSE Summed(b.nodes[i], PointersOf(b)[i - 1])],
     lefts |-> b.lefts,
     sizes |-> [i \in DOMAIN b.ends |-> Sizes(b.lefts[i], EndOf(b, i))]]

LEMMA LevelsIs ==
    ASSUME NEW strings, Ordered(strings), Spelled(strings)
    PROVE  /\ Levels(strings) \in Nat \ {0, 1}
           /\ \A z \in 1 .. Len(strings) : Len(strings[z]) \in Nat /\ Len(strings[z]) <= Levels(strings) - 1
<1> DEFINE N == Len(strings)
           T == {Len(strings[i]) : i \in DOMAIN strings}
<1>1. /\ N \in Nat \ {0} /\ DOMAIN strings = 1 .. N
      /\ \A z \in 1 .. N : strings[z] \in Texts
  BY OrderedIs
<1>2. \A z \in 1 .. N : Len(strings[z]) \in Nat /\ Len(strings[z]) > 0
  BY <1>1, LenText DEF Spelled
<1> HIDE DEF N
<1> DEFINE S == {n \in Nat : n <= N => \E m \in Nat : \A z \in 1 .. n : Len(strings[z]) <= m}
<1>3. 0 \in S
  OBVIOUS
<1>4. ASSUME NEW n \in 0 .. N - 1, n \in S PROVE n + 1 \in S
  <2>1. PICK m \in Nat : \A z \in 1 .. n : Len(strings[z]) <= m
    BY <1>1, <1>4
  <2>2. n + 1 \in 1 .. N
    BY <1>1
  <2>3. Len(strings[n + 1]) \in Nat
    BY <2>2, <1>2
  <2> DEFINE g == m + Len(strings[n + 1])
  <2>4. g \in Nat /\ \A z \in 1 .. n + 1 : Len(strings[z]) <= g
    <3>1. g \in Nat
      BY <2>3
    <3>2. ASSUME NEW z \in 1 .. n + 1 PROVE Len(strings[z]) <= g
      <4>1. CASE z = n + 1
        BY <4>1, <2>3
      <4>2. CASE z # n + 1
        <5>1. z \in 1 .. n /\ z \in 1 .. N
          BY <4>2, <1>1
        <5>2. Len(strings[z]) <= m /\ Len(strings[z]) \in Nat
          BY <5>1, <2>1, <1>2
        <5> QED  BY <5>2, <2>3
      <4> QED  BY <4>1, <4>2
    <3> QED  BY <3>1, <3>2
  <2>5. \E x \in Nat : \A z \in 1 .. n + 1 : Len(strings[z]) <= x
    <3> HIDE DEF g
    <3> QED  BY <2>4
  <2> HIDE DEF g
  <2> QED  BY <2>5, <1>1
<1>5. 0 .. N \subseteq S
  <2> HIDE DEF S
  <2> QED  BY <1>1, <1>3, <1>4, UpTo
<1>6. PICK m \in Nat : \A z \in 1 .. N : Len(strings[z]) <= m
  <2>1. N \in 0 .. N
    BY <1>1
  <2> HIDE DEF S
  <2>2. N \in S
    BY <2>1, <1>5
  <2> QED  BY <2>2, <1>1 DEF S
<1>7. T \in SUBSET (0 .. m) /\ Len(strings[1]) \in T /\ 1 \in 1 .. N
  BY <1>1, <1>2, <1>6
<1>8. Levels(strings) = Max(T) + 1
  BY DEF Levels
<1>9. \A z \in 1 .. N : Len(strings[z]) \in T
  BY <1>1
<1> HIDE DEF T
<1>10. Max(T) \in T /\ \A c \in T : c <= Max(T)
  BY <1>7, MaxIs
<1>11. Max(T) \in Nat
  <2>1. \A c \in T : c \in Nat
    BY <1>2, <1>1 DEF T
  <2> QED  BY <2>1, <1>10
<1>12. Max(T) >= 1
  BY <1>2, <1>7, <1>10, <1>11
<1> QED  BY <1>2, <1>8, <1>9, <1>10, <1>11, <1>12 DEF N

LEMMA TrieIs ==
    ASSUME NEW strings, Ordered(strings), Spelled(strings)
    PROVE  \E b : /\ Trie(strings) = TrieOf(b)
                  /\ Shape(b, Levels(strings), strings, Len(strings))
                  /\ Tree(b, Levels(strings), strings, Len(strings))
<1> DEFINE N == Len(strings)
           L == Levels(strings)
           Eq(A) == A = [n \in 0 .. Len(strings) |->
                            IF n = 0 THEN Empty(Levels(strings)) ELSE Read(A[n - 1], strings[n])]
           B == CHOOSE A : Eq(A)
<1>1. N \in Nat \ {0}
  BY OrderedIs
<1>2. \E A : Eq(A)
  <2>1. PICK A : BuiltUpTo(A, strings, L, N)
    BY <1>1, BuiltExists
  <2>2. Eq(A)
    BY <2>1 DEF BuiltUpTo
  <2> HIDE DEF Eq
  <2> QED  BY <2>2
<1>3. Eq(B)
  <2> HIDE DEF Eq
  <2> QED  BY <1>2, Zenon
<1>4. Trie(strings) = TrieOf(B[N])
  BY DEF Trie, TrieOf, PointersOf, EndOf
<1> HIDE DEF B
<1>5. \A n \in 0 .. N : B[n] = IF n = 0 THEN Empty(L) ELSE Read(B[n - 1], strings[n])
  BY <1>3, Zenon
<1> HIDE DEF Eq
<1>6. L \in Nat \ {0}
  BY LevelsIs
<1> HIDE DEF L, N
<1> DEFINE S == {n \in Nat : n <= N => Shape(B[n], L, strings, n) /\ Tree(B[n], L, strings, n)}
<1>7. 0 \in S
  <2>1. B[0] = Empty(L)
    BY <1>1, <1>5
  <2>2. Shape(Empty(L), L, strings, 0) /\ Tree(Empty(L), L, strings, 0)
    BY <1>6, EmptyTree
  <2> QED  BY <2>1, <2>2
<1>8. ASSUME NEW n \in 0 .. N - 1, n \in S PROVE n + 1 \in S
  <2> DEFINE b == B[n]
             c == B[n + 1]
             s == strings[n + 1]
             l == Shared(strings, n)
  <2>1. Shape(b, L, strings, n) /\ Tree(b, L, strings, n) /\ n \in Nat /\ L \in Nat
    BY <1>1, <1>6, <1>8
  <2>2. c = Read(b, s)
    <3>1. n + 1 \in 0 .. N /\ n + 1 # 0 /\ (n + 1) - 1 = n
      BY <1>1
    <3> QED  BY <3>1, <1>5
  <2>3. n \in 0 .. Len(strings) - 1
    BY DEF N
  <2>4. ReadStep(b, c, L, strings, n, l, s)
    BY <2>1, <2>2, <2>3, ReadIs
  <2>5. Shape(c, L, strings, n + 1) /\ Grows(b, c, L, n, l, s)
    BY <2>1, <2>3, <2>4, ShapeGrows
  <2>6. Meets(strings, n, l, s)
    BY <2>3, MeetsIs
  <2> HIDE DEF b, c, s, l
  <2>7. Tree(c, L, strings, n + 1)
    BY <2>1, <2>5, <2>6, <1>6, TreeGrows
  <2> QED  BY <2>5, <2>7 DEF c
<1>9. 0 .. N \subseteq S
  <2> HIDE DEF S
  <2> QED  BY <1>1, <1>7, <1>8, UpTo
<1>10. Shape(B[N], L, strings, N) /\ Tree(B[N], L, strings, N)
  <2>1. N \in S
    BY <1>1, <1>9
  <2> QED  BY <2>1, <1>1
<1> QED  BY <1>4, <1>10 DEF N, L

-----------------------------------------------------------------------------
\* The last value of the pointers before a node, ...
BeforeOf(pointers, p) == Max({0} \cup {q \in Range(pointers) : q < p})

LEMMA BeforeOfIs ==
    ASSUME NEW pointers \in Seq(Nat), NEW p \in Nat \ {0}
    PROVE  /\ BeforeOf(pointers, p) \in 0 .. p - 1
           /\ BeforeOf(pointers, p) = 0 \/ BeforeOf(pointers, p) \in Range(pointers)
           /\ \A q \in Range(pointers) : q < p => q <= BeforeOf(pointers, p)
<1> DEFINE S == {0} \cup {q \in Range(pointers) : q < p}
<1>1. \A q \in Range(pointers) : q \in Nat
  BY DEF Range
<1>2. S \in SUBSET (0 .. p - 1) /\ S # {} /\ p - 1 \in Nat
  BY <1>1
<1>3. \A q \in S : q = 0 \/ q \in Range(pointers)
  OBVIOUS
<1>4. \A q \in Range(pointers) : q < p => q \in S
  OBVIOUS
<1> HIDE DEF S
<1>5. Max(S) \in S /\ \A c \in S : c <= Max(S)
  BY <1>2, MaxIs
<1>6. BeforeOf(pointers, p) = Max(S)
  BY DEF BeforeOf, S
<1>7. Max(S) \in 0 .. p - 1
  BY <1>2, <1>5
<1> QED  BY <1>3, <1>4, <1>5, <1>6, <1>7

\* ... and the sums of the nodes.
SummedUpTo(V, nodes, pointers, n) ==
    V = [p \in 0 .. n |-> IF p = 0 THEN 0 ELSE nodes[p] + V[BeforeOf(pointers, p)]]

LEMMA SummedExists ==
    ASSUME NEW nodes, NEW pointers \in Seq(Nat), NEW n \in Nat
    PROVE  \E A : SummedUpTo(A, nodes, pointers, n)
<1> DEFINE S == {i \in Nat : \E A : SummedUpTo(A, nodes, pointers, i)}
<1>1. 0 \in S
  <2> DEFINE A == [i \in 0 .. 0 |-> 0]
  <2>1. A = [p \in 0 .. 0 |-> IF p = 0 THEN 0 ELSE nodes[p] + A[BeforeOf(pointers, p)]]
    OBVIOUS
  <2> QED  BY <2>1 DEF SummedUpTo
<1>2. ASSUME NEW i \in Nat, i \in S PROVE i + 1 \in S
  <2>1. PICK A : SummedUpTo(A, nodes, pointers, i)
    BY <1>2
  <2> DEFINE Step(F, p) == IF p = 0 THEN 0 ELSE nodes[p] + F[BeforeOf(pointers, p)]
             B == [j \in 0 .. i + 1 |-> IF j <= i THEN A[j] ELSE Step(A, j)]
  <2>2. A = [j \in 0 .. i |-> Step(A, j)]
    BY <2>1 DEF SummedUpTo
  <2>3. \A j \in 0 .. i : A[j] = Step(A, j)
    BY <2>2
  <2>4. \A j \in 0 .. i + 1 : B[j] = Step(B, j)
    <3> SUFFICES ASSUME NEW j \in 0 .. i + 1 PROVE B[j] = Step(B, j)
      OBVIOUS
    <3>1. B[j] = Step(A, j)
      BY <2>3
    <3>2. CASE j = 0
      BY <3>1, <3>2
    <3>3. CASE j # 0
      <4> DEFINE q == BeforeOf(pointers, j)
      <4>1. q \in 0 .. j - 1
        BY <3>3, BeforeOfIs
      <4> HIDE DEF q
      <4>2. q \in 0 .. i + 1 /\ q <= i
        BY <4>1
      <4>3. B[q] = A[q]
        BY <4>2
      <4> QED  BY <3>1, <3>3, <4>3 DEF q
    <3> QED  BY <3>2, <3>3
  <2>5. B = [j \in 0 .. i + 1 |-> Step(B, j)]
    <3>1. B = [j \in 0 .. i + 1 |-> B[j]]
      OBVIOUS
    <3> HIDE DEF B, Step
    <3> QED  BY <3>1, <2>4, Zenon
  <2>6. SummedUpTo(B, nodes, pointers, i + 1)
    BY <2>5 DEF SummedUpTo
  <2> QED  BY <2>6
<1>3. Nat \subseteq S
  <2> HIDE DEF S
  <2> QED  BY <1>1, <1>2, Everywhere
<1> QED  BY <1>3

LEMMA SummedIs ==
    ASSUME NEW nodes \in Seq(Nat), NEW pointers \in Seq(Nat)
    PROVE  LET v == Summed(nodes, pointers)
           IN  /\ DOMAIN v = 1 .. Len(nodes)
               /\ \A p \in 1 .. Len(nodes) :
                     /\ v[p] \in Nat
                     /\ v[p] = nodes[p] + IF BeforeOf(pointers, p) = 0 THEN 0
                                          ELSE v[BeforeOf(pointers, p)]
<1> DEFINE n == Len(nodes)
           Eq(A) == A = [p \in 0 .. Len(nodes) |->
                            IF p = 0 THEN 0
                            ELSE nodes[p] + A[Max({0} \cup {q \in Range(pointers) : q < p})]]
           V == CHOOSE A : Eq(A)
           v == Summed(nodes, pointers)
<1>1. n \in Nat /\ DOMAIN nodes = 1 .. n /\ \A p \in 1 .. n : nodes[p] \in Nat
  OBVIOUS
<1>2. \E A : Eq(A)
  <2>1. PICK A : SummedUpTo(A, nodes, pointers, n)
    BY <1>1, SummedExists
  <2>2. Eq(A)
    BY <2>1 DEF SummedUpTo, BeforeOf
  <2> HIDE DEF Eq
  <2> QED  BY <2>2
<1>3. Eq(V)
  <2> HIDE DEF Eq
  <2> QED  BY <1>2, Zenon
<1>4. v = [p \in DOMAIN nodes |-> V[p]]
  BY DEF Summed
<1> HIDE DEF V
<1>5. \A p \in 0 .. n : V[p] = IF p = 0 THEN 0 ELSE nodes[p] + V[BeforeOf(pointers, p)]
  <2>1. V = [p \in 0 .. n |-> IF p = 0 THEN 0 ELSE nodes[p] + V[BeforeOf(pointers, p)]]
    BY <1>3 DEF BeforeOf
  <2> QED  BY <2>1, Zenon
<1> HIDE DEF Eq, v, n
<1>6. DOMAIN v = 1 .. n /\ \A p \in 1 .. n : v[p] = V[p]
  BY <1>1, <1>4
<1>7. \A p \in 1 .. n : BeforeOf(pointers, p) \in 0 .. p - 1
  <2>1. \A p \in 1 .. n : p \in Nat \ {0}
    BY <1>1
  <2> QED  BY <2>1, BeforeOfIs
<1> DEFINE S == {m \in Nat : \A p \in 0 .. m : p <= n => V[p] \in Nat}
<1>8. 0 \in S
  <2>1. \A p \in 0 .. 0 : p = 0
    OBVIOUS
  <2>2. V[0] = 0
    BY <1>1, <1>5
  <2> QED  BY <2>1, <2>2
<1>9. ASSUME NEW m \in Nat, m \in S PROVE m + 1 \in S
  <2>1. \A p \in 0 .. m : p <= n => V[p] \in Nat
    BY <1>9
  <2>2. ASSUME NEW p \in 0 .. m + 1, p <= n PROVE V[p] \in Nat
    <3>1. CASE p \in 0 .. m
      BY <3>1, <2>1, <2>2
    <3>2. CASE p \notin 0 .. m
      <4> DEFINE q == BeforeOf(pointers, p)
      <4>1. p = m + 1 /\ p \in 1 .. n /\ p \in 0 .. n /\ p # 0
        BY <3>2, <2>2, <1>1
      <4>2. q \in 0 .. p - 1
        BY <4>1, <1>7
      <4>3. V[p] = nodes[p] + V[q]
        BY <4>1, <1>5
      <4> HIDE DEF q
      <4>4. q \in 0 .. m /\ q <= n
        BY <4>1, <4>2, <1>1
      <4>5. V[q] \in Nat /\ nodes[p] \in Nat
        BY <4>1, <4>4, <2>1, <1>1
      <4> QED  BY <4>3, <4>5
    <3> QED  BY <3>1, <3>2
  <2> HIDE DEF S
  <2>3. \A p \in 0 .. m + 1 : p <= n => V[p] \in Nat
    BY <2>2
  <2> QED  BY <2>3 DEF S
<1>10. Nat \subseteq S
  <2> HIDE DEF S
  <2> QED  BY <1>8, <1>9, Everywhere
<1>11. \A p \in 0 .. n : V[p] \in Nat
  <2>1. n \in S
    BY <1>1, <1>10
  <2> QED  BY <2>1, <1>1
<1>12. ASSUME NEW p \in 1 .. n
       PROVE  /\ v[p] \in Nat
              /\ v[p] = nodes[p] + IF BeforeOf(pointers, p) = 0 THEN 0 ELSE v[BeforeOf(pointers, p)]
  <2> DEFINE q == BeforeOf(pointers, p)
  <2>1. q \in 0 .. p - 1 /\ p \in 0 .. n /\ p # 0
    BY <1>1, <1>7
  <2>2. v[p] = V[p] /\ V[p] = nodes[p] + V[q] /\ V[p] \in Nat
    BY <2>1, <1>5, <1>6, <1>11
  <2> HIDE DEF q
  <2>3. CASE q = 0
    <3>1. V[0] = 0
      BY <1>1, <1>5
    <3>2. V[q] = V[0]
      BY <2>3, Zenon
    <3> QED  BY <2>2, <2>3, <3>1, <3>2 DEF q
  <2>4. CASE q # 0
    <3>1. q \in 1 .. n
      BY <2>1, <2>4, <1>1
    <3> QED  BY <2>2, <2>4, <3>1, <1>6 DEF q
  <2> QED  BY <2>3, <2>4
<1> QED  BY <1>6, <1>12 DEF v, n

\* The sums of the numbers of completions, less one, below the nodes.
SizedUpTo(S, lefts, ends, n) ==
    S = [p \in 0 .. n |-> IF p = 0 THEN 0 ELSE S[p - 1] + ends[p] - lefts[p]]

LEMMA SizedExists ==
    ASSUME NEW lefts, NEW ends, NEW n \in Nat
    PROVE  \E A : SizedUpTo(A, lefts, ends, n)
<1> DEFINE S == {i \in Nat : \E A : SizedUpTo(A, lefts, ends, i)}
<1>1. 0 \in S
  <2> DEFINE A == [i \in 0 .. 0 |-> 0]
  <2>1. A = [p \in 0 .. 0 |-> IF p = 0 THEN 0 ELSE A[p - 1] + ends[p] - lefts[p]]
    OBVIOUS
  <2> QED  BY <2>1 DEF SizedUpTo
<1>2. ASSUME NEW i \in Nat, i \in S PROVE i + 1 \in S
  <2>1. PICK A : SizedUpTo(A, lefts, ends, i)
    BY <1>2
  <2> DEFINE Step(F, p) == IF p = 0 THEN 0 ELSE F[p - 1] + ends[p] - lefts[p]
             B == [j \in 0 .. i + 1 |-> IF j <= i THEN A[j] ELSE Step(A, j)]
  <2>2. A = [j \in 0 .. i |-> Step(A, j)]
    BY <2>1 DEF SizedUpTo
  <2>3. \A j \in 0 .. i : A[j] = Step(A, j)
    BY <2>2
  <2>4. \A j \in 0 .. i + 1 : B[j] = Step(B, j)
    <3> SUFFICES ASSUME NEW j \in 0 .. i + 1 PROVE B[j] = Step(B, j)
      OBVIOUS
    <3>1. B[j] = Step(A, j)
      BY <2>3
    <3>2. CASE j = 0
      BY <3>1, <3>2
    <3>3. CASE j # 0
      <4>1. j - 1 \in 0 .. i + 1 /\ j - 1 <= i
        BY <3>3
      <4>2. B[j - 1] = A[j - 1]
        BY <4>1
      <4> QED  BY <3>1, <4>2, <3>3
    <3> QED  BY <3>2, <3>3
  <2>5. B = [j \in 0 .. i + 1 |-> Step(B, j)]
    <3>1. B = [j \in 0 .. i + 1 |-> B[j]]
      OBVIOUS
    <3> HIDE DEF B, Step
    <3> QED  BY <3>1, <2>4, Zenon
  <2>6. SizedUpTo(B, lefts, ends, i + 1)
    BY <2>5 DEF SizedUpTo
  <2> QED  BY <2>6
<1>3. Nat \subseteq S
  <2> HIDE DEF S
  <2> QED  BY <1>1, <1>2, Everywhere
<1> QED  BY <1>3

LEMMA SizesAre ==
    ASSUME NEW lefts \in Seq(Nat), NEW ends \in Seq(Nat), Len(lefts) = Len(ends)
    PROVE  \A p \in 1 .. Len(ends) :
              /\ Sizes(lefts, ends)[p] \in Int
              /\ p > 1 => Sizes(lefts, ends)[p - 1] \in Int
              /\ Sizes(lefts, ends)[p] = (IF p = 1 THEN 0 ELSE Sizes(lefts, ends)[p - 1])
                                         + ends[p] - lefts[p]
<1> DEFINE n == Len(ends)
           Eq(A) == A = [p \in 0 .. Len(ends) |->
                            IF p = 0 THEN 0 ELSE A[p - 1] + ends[p] - lefts[p]]
           V == CHOOSE A : Eq(A)
           v == Sizes(lefts, ends)
<1>1. /\ n \in Nat /\ DOMAIN ends = 1 .. n
      /\ \A p \in 1 .. n : ends[p] \in Nat /\ lefts[p] \in Nat
  OBVIOUS
<1>2. \E A : Eq(A)
  <2>1. PICK A : SizedUpTo(A, lefts, ends, n)
    BY <1>1, SizedExists
  <2>2. Eq(A)
    BY <2>1 DEF SizedUpTo
  <2> HIDE DEF Eq
  <2> QED  BY <2>2
<1>3. Eq(V)
  <2> HIDE DEF Eq
  <2> QED  BY <1>2, Zenon
<1>4. v = [p \in DOMAIN ends |-> V[p]]
  BY DEF Sizes
<1> HIDE DEF V
<1>5. \A p \in 0 .. n : V[p] = IF p = 0 THEN 0 ELSE V[p - 1] + ends[p] - lefts[p]
  BY <1>3, Zenon
<1> HIDE DEF Eq, v, n
<1>6. \A p \in 1 .. n : v[p] = V[p]
  BY <1>1, <1>4
<1> DEFINE S == {m \in Nat : m <= n => V[m] \in Int}
<1>7. 0 \in S
  BY <1>1, <1>5
<1>8. ASSUME NEW m \in 0 .. n - 1, m \in S PROVE m + 1 \in S
  <2>1. m \in Nat /\ m <= n /\ m + 1 \in 1 .. n /\ m + 1 \in 0 .. n /\ m + 1 # 0 /\ (m + 1) - 1 = m
    BY <1>1, <1>8
  <2>2. V[m] \in Int /\ ends[m + 1] \in Nat /\ lefts[m + 1] \in Nat
    BY <2>1, <1>1, <1>8
  <2>3. V[m + 1] = V[(m + 1) - 1] + ends[m + 1] - lefts[m + 1]
    BY <2>1, <1>5
  <2> QED  BY <2>1, <2>2, <2>3
<1>9. 0 .. n \subseteq S
  <2> HIDE DEF S
  <2> QED  BY <1>1, <1>7, <1>8, UpTo
<1>10. \A p \in 0 .. n : V[p] \in Int
  BY <1>1, <1>9
<1>11. ASSUME NEW p \in 1 .. n
       PROVE  /\ v[p] \in Int
              /\ p > 1 => v[p - 1] \in Int
              /\ v[p] = (IF p = 1 THEN 0 ELSE v[p - 1]) + ends[p] - lefts[p]
  <2>1. p \in 0 .. n /\ p # 0 /\ p \in Nat
    BY <1>1
  <2>2. v[p] = V[p] /\ V[p] \in Int /\ V[p] = V[p - 1] + ends[p] - lefts[p]
    BY <2>1, <1>5, <1>6, <1>10
  <2>3. CASE p = 1
    <3>1. p - 1 = 0 /\ V[0] = 0
      BY <2>3, <1>1, <1>5
    <3>2. V[p - 1] = V[0]
      BY <3>1, Zenon
    <3> QED  BY <2>2, <2>3, <3>1, <3>2
  <2>4. CASE p # 1
    <3>1. p - 1 \in 1 .. n /\ p - 1 \in 0 .. n
      BY <2>1, <2>4, <1>1
    <3>2. v[p - 1] = V[p - 1] /\ V[p - 1] \in Int
      BY <3>1, <1>6, <1>10
    <3> QED  BY <2>2, <2>4, <3>2
  <2> QED  BY <2>3, <2>4
<1> QED  BY <1>11 DEF v, n

-----------------------------------------------------------------------------
\* What the trie holds of the builder: the last completions of the nodes, ...
LEMMA EndOfIs ==
    ASSUME NEW b, NEW L, NEW strings, NEW n \in Nat \ {0}, Len(strings[n]) \in Nat,
           Shape(b, L, strings, n), strings[n] \in Texts, NEW i \in 0 .. L - 1, L \in Nat
    PROVE  /\ EndOf(b, i) \in Seq(Nat) /\ Len(EndOf(b, i)) = Size(b, i)
           /\ \A p \in 1 .. Size(b, i) : EndOf(b, i)[p] = LastOf(b, i, p)
<1> DEFINE u == b.ends[i]
           v == EndOf(b, i)
           T == Len(strings[n])
           cond == i < Len(b.prev)
           E == Len(u)
           x == b.read - 1
<1>1. /\ b.read = n /\ b.prev = Append(strings[n], Terminator)
      /\ u \in Seq(Nat) /\ Len(b.nodes[i]) = E + Open(strings, n, i)
  BY DEF Shape
<1>2. Len(b.prev) = T + 1
  BY <1>1, Unappended DEF Terminator
<1>3. Open(strings, n, i) = IF i <= T THEN 1 ELSE 0
  BY DEF Open
<1>4. cond <=> i <= T
  BY <1>2
<1>5. v = IF cond THEN Append(u, x) ELSE u
  BY DEF EndOf
<1>6. cond \in BOOLEAN /\ x \in Nat
  BY <1>1
<1> HIDE DEF u, v, cond, x
<1>7. /\ v \in Seq(Nat) /\ E \in Nat
      /\ Len(v) = IF cond THEN E + 1 ELSE E
      /\ \A p \in 1 .. E : v[p] = u[p]
      /\ cond => v[E + 1] = x
  BY <1>1, <1>5, <1>6, Appended
<1>8. Size(b, i) = IF cond THEN E + 1 ELSE E
  BY <1>1, <1>3, <1>4, <1>7 DEF Size
<1>9. ASSUME NEW p \in 1 .. Size(b, i) PROVE v[p] = LastOf(b, i, p)
  <2>1. LastOf(b, i, p) = IF p <= E THEN u[p] ELSE x
    BY DEF LastOf, u, x
  <2>2. p \in 1 .. E \/ (cond /\ p = E + 1)
    BY <1>7, <1>8
  <2> HIDE DEF E
  <2> QED  BY <2>1, <2>2, <1>7
<1> QED  BY <1>7, <1>8, <1>9 DEF v

\* ... their first children, ...
LEMMA PointersOfIs ==
    ASSUME NEW b, NEW L \in Nat, NEW strings, NEW n \in Nat, Shape(b, L, strings, n),
           NEW i \in 0 .. L - 2, Kids(b, i)
    PROVE  /\ PointersOf(b)[i] \in Seq(Nat)
           /\ \A p \in 1 .. Size(b, i) + 1 : PointersOf(b)[i][p] = ChildAt(b, i, p)
           /\ \A q \in Range(PointersOf(b)[i]) :
                 \E p \in 1 .. Size(b, i) + 1 : q = ChildAt(b, i, p)
<1> DEFINE u == b.pointers[i]
           v == PointersOf(b)[i]
           E == Len(b.ends[i])
           P == Len(u)
           o == Open(strings, n, i)
           N == Size(b, i)
           M == Size(b, i + 1)
<1>1. i \in 0 .. L - 1 /\ i + 1 \in 0 .. L - 1
  OBVIOUS
<1>2. u \in Seq(Nat) /\ P = E + 1 /\ DOMAIN b.pointers = 0 .. L - 2
  BY DEF Shape
<1>3. b.ends[i] \in Seq(Nat) /\ N = E + o
  <2>1. b.ends[i] \in Seq(Nat) /\ Len(b.nodes[i]) = Len(b.ends[i]) + Open(strings, n, i)
    BY <1>1 DEF Shape
  <2> QED  BY <2>1 DEF Size
<1>4. b.nodes[i + 1] \in Seq(Nat)
  BY <1>1 DEF Shape
<1>5. E \in Nat /\ M \in Nat
  BY <1>3, <1>4 DEF Size
<1>6. o \in {0, 1}
  BY DEF Open
<1>7. v = Append(u, M)
  BY <1>2 DEF PointersOf, Size
<1>8. \A p : ChildAt(b, i, p) = IF p <= P THEN u[p] ELSE M
  BY DEF ChildAt, Size
<1>9. ChildAt(b, i, N + 1) = M
  BY DEF Kids
<1> HIDE DEF u, v, E, P, o, N, M
<1>10. /\ v \in Seq(Nat) /\ Len(v) = P + 1 /\ v[P + 1] = M
       /\ \A p \in 1 .. P : v[p] = u[p]
  BY <1>2, <1>5, <1>7, AppendProperties DEF P
<1>11. ASSUME NEW p \in 1 .. N + 1 PROVE v[p] = ChildAt(b, i, p)
  <2>1. p \in 1 .. P \/ (p = P + 1 /\ ~(p <= P))
    BY <1>2, <1>3, <1>5, <1>6
  <2> QED  BY <2>1, <1>8, <1>10
<1>12. ASSUME NEW q \in Range(v) PROVE \E p \in 1 .. N + 1 : q = ChildAt(b, i, p)
  <2>1. DOMAIN v = 1 .. P + 1
    BY <1>10
  <2>2. PICK x \in 1 .. P + 1 : q = v[x]
    BY <2>1 DEF Range
  <2>3. CASE x <= P
    <3>1. x \in 1 .. P /\ x \in 1 .. N + 1
      BY <2>3, <1>2, <1>3, <1>5, <1>6
    <3> QED  BY <3>1, <2>2, <1>8, <1>10
  <2>4. CASE ~(x <= P)
    <3>1. x = P + 1 /\ N + 1 \in 1 .. N + 1
      BY <2>4, <1>2, <1>3, <1>5, <1>6
    <3> QED  BY <3>1, <2>2, <1>9, <1>10
  <2> QED  BY <2>3, <2>4
<1> QED  BY <1>10, <1>11, <1>12 DEF v, N

\* ... the sums of their symbols, ...
Upper(t, i, lo) == IF lo = 0 THEN 0 ELSE Node(t, i, lo - 1)

Siblings(t, b, i, lo, hi) ==
    /\ lo \in Nat /\ hi \in Nat /\ hi <= Size(b, i) /\ Upper(t, i, lo) \in Nat
    /\ \A p \in lo .. hi - 1 : Node(t, i, p) = NodeAt(b, i, p + 1) + Upper(t, i, lo)

LEMMA SiblingsHeld ==
    ASSUME NEW b, NEW L \in Nat, NEW strings, NEW n \in Nat, Shape(b, L, strings, n),
           NEW i \in 0 .. L - 2, Kids(b, i), NEW t,
           t.nodes[i + 1] = Summed(b.nodes[i + 1], PointersOf(b)[i]),
           NEW p \in 1 .. Size(b, i)
    PROVE  Siblings(t, b, i + 1, ChildAt(b, i, p), ChildAt(b, i, p + 1))
<1> DEFINE N == Size(b, i)
           M == Size(b, i + 1)
           lo == ChildAt(b, i, p)
           hi == ChildAt(b, i, p + 1)
           ns == b.nodes[i + 1]
           pt == PointersOf(b)[i]
           v == t.nodes[i + 1]
<1>1. i + 1 \in 0 .. L - 1 /\ i \in 0 .. L - 1
  OBVIOUS
<1>2. ns \in Seq(Nat) /\ b.nodes[i] \in Seq(Nat) /\ N = Len(b.nodes[i]) /\ M = Len(ns)
  BY <1>1 DEF Shape, Size
<1>3. N \in Nat /\ M \in Nat
  BY <1>2, LenProperties
<1>4. /\ pt \in Seq(Nat)
      /\ \A x \in 1 .. N + 1 : pt[x] = ChildAt(b, i, x)
      /\ \A q \in Range(pt) : \E x \in 1 .. N + 1 : q = ChildAt(b, i, x)
  BY PointersOfIs
<1>5. /\ \A x \in 1 .. N + 1 : ChildAt(b, i, x) \in Nat
      /\ \A x, y \in 1 .. N + 1 : x <= y => ChildAt(b, i, x) <= ChildAt(b, i, y)
      /\ ChildAt(b, i, N + 1) = M
  BY DEF Kids
<1>6. v = Summed(ns, pt)
  OBVIOUS
<1> HIDE DEF N, M, ns, pt, v
<1>7. \A d \in 1 .. M :
         /\ v[d] \in Nat
         /\ v[d] = ns[d] + IF BeforeOf(pt, d) = 0 THEN 0 ELSE v[BeforeOf(pt, d)]
  BY <1>2, <1>4, <1>6, SummedIs
<1>8. p \in 1 .. N + 1 /\ p + 1 \in 1 .. N + 1 /\ N + 1 \in 1 .. N + 1 /\ p \in Nat
  BY <1>3 DEF N
<1>9. lo \in Nat /\ hi \in Nat /\ hi <= M /\ lo <= hi
  <2>1. p <= p + 1 /\ p + 1 <= N + 1
    BY <1>8
  <2> QED  BY <2>1, <1>5, <1>8
<1>10. lo \in Range(pt)
  <2>1. ChildAt(b, i, N + 1) = M /\ pt[p] = lo
    BY <1>4, <1>5, <1>8
  <2>2. p \in DOMAIN pt
    <3>1. Len(pt) >= N + 1
      <4>1. DOMAIN PointersOf(b) = 0 .. L - 2
        BY DEF Shape, PointersOf
      <4>2. PointersOf(b)[i] = Append(b.pointers[i], Len(b.nodes[i + 1]))
        BY DEF Shape, PointersOf
      <4>3. b.pointers[i] \in Seq(Nat) /\ Len(b.pointers[i]) = Len(b.ends[i]) + 1
        BY DEF Shape
      <4>4. Len(b.nodes[i]) = Len(b.ends[i]) + Open(strings, n, i) /\ b.ends[i] \in Seq(Nat)
        BY <1>1 DEF Shape
      <4>5. Open(strings, n, i) \in {0, 1}
        BY DEF Open
      <4> DEFINE u == b.pointers[i]
      <4>6. Len(Append(u, M)) = Len(u) + 1
        <5>1. u \in Seq(Nat) /\ M \in Nat
          BY <4>3, <1>3
        <5> HIDE DEF u
        <5> QED  BY <5>1, AppendProperties
      <4>7. pt = Append(u, M)
        BY <4>2, <1>2 DEF pt, ns
      <4>8. Len(b.ends[i]) \in Nat
        BY <4>4
      <4>9. Len(pt) = Len(u) + 1
        BY <4>6, <4>7
      <4> DEFINE E == Len(b.ends[i])
                 o == Open(strings, n, i)
                 P == Len(u)
                 Z == Len(pt)
      <4>10. Z = P + 1 /\ P = E + 1 /\ E \in Nat /\ o \in {0, 1} /\ N = E + o
        BY <4>3, <4>4, <4>5, <4>8, <4>9, <1>2
      <4> HIDE DEF E, o, P, Z
      <4>11. Z >= N + 1
        BY <4>10
      <4> QED  BY <4>11 DEF Z
    <3>2. DOMAIN pt = 1 .. Len(pt) /\ Len(pt) \in Nat
      BY <1>4
    <3> QED  BY <3>1, <3>2, <1>3, <1>8
  <2> QED  BY <2>1, <2>2 DEF Range
<1>11. /\ \A d : Node(t, i + 1, d) = v[d + 1] /\ NodeAt(b, i + 1, d) = ns[d]
       /\ M = Size(b, i + 1)
  BY DEF Node, NodeAt, v, ns, M
<1>12. Upper(t, i + 1, lo) = IF lo = 0 THEN 0 ELSE v[lo]
  <2>1. lo # 0 => Node(t, i + 1, lo - 1) = v[lo]
    <3>1. (lo - 1) + 1 = lo
      BY <1>9
    <3> QED  BY <3>1, <1>11
  <2> QED  BY <2>1 DEF Upper
<1> HIDE DEF lo, hi
<1>13. Upper(t, i + 1, lo) \in Nat
  BY <1>3, <1>7, <1>9, <1>12
<1>14. ASSUME NEW d \in lo .. hi - 1
       PROVE  Node(t, i + 1, d) = NodeAt(b, i + 1, d + 1) + Upper(t, i + 1, lo)
  <2> DEFINE B == BeforeOf(pt, d + 1)
  <2>1. d \in Nat /\ d + 1 \in 1 .. M /\ lo < d + 1 /\ d < hi /\ d + 1 \in Nat \ {0}
    BY <1>3, <1>9
  <2>2. /\ B \in 0 .. (d + 1) - 1 /\ (B = 0 \/ B \in Range(pt))
        /\ \A q \in Range(pt) : q < d + 1 => q <= B
    BY <2>1, <1>4, BeforeOfIs
  <2> HIDE DEF B
  <2>3. lo <= B /\ B \in Nat /\ B < hi
    BY <2>1, <2>2, <1>9, <1>10
  <2>4. B <= lo
    <3>1. CASE B = 0
      BY <3>1, <1>9
    <3>2. CASE B # 0
      <4>1. PICK x \in 1 .. N + 1 : B = ChildAt(b, i, x)
        BY <3>2, <2>2, <1>4
      <4>2. x \in Nat /\ (x <= p \/ p + 1 <= x)
        BY <1>8
      <4>3. CASE x <= p
        BY <4>1, <4>3, <1>5, <1>8 DEF lo
      <4>4. CASE p + 1 <= x
        <5>1. hi <= B
          BY <4>1, <4>4, <1>5, <1>8 DEF hi
        <5> QED  BY <5>1, <2>3, <1>9
      <4> QED  BY <4>2, <4>3, <4>4
    <3> QED  BY <3>1, <3>2
  <2>5. B = lo
    BY <2>3, <2>4, <1>9
  <2>6. v[d + 1] = ns[d + 1] + IF lo = 0 THEN 0 ELSE v[lo]
    BY <2>1, <2>5, <1>7 DEF B
  <2> QED  BY <2>6, <1>11, <1>12
<1>15. lo \in Nat /\ hi \in Nat /\ hi <= Size(b, i + 1)
  BY <1>9, <1>11
<1> QED  BY <1>13, <1>14, <1>15 DEF Siblings, lo, hi

LEMMA RootsHeld ==
    ASSUME NEW b, NEW n, Nodes(b, 0, n), NEW t, t.nodes[0] = b.nodes[0]
    PROVE  Siblings(t, b, 0, 0, Size(b, 0))
<1>1. Upper(t, 0, 0) = 0
  BY DEF Upper
<1>2. Size(b, 0) \in Nat /\ \A p \in 1 .. Size(b, 0) : NodeAt(b, 0, p) \in Nat
  BY DEF Nodes
<1>3. \A p : Node(t, 0, p) = NodeAt(b, 0, p + 1)
  BY DEF Node, NodeAt
<1>4. \A p \in 0 .. Size(b, 0) - 1 : p + 1 \in 1 .. Size(b, 0)
  BY <1>2
<1> HIDE DEF Size, NodeAt
<1> QED  BY <1>1, <1>2, <1>3, <1>4 DEF Siblings

\* ... and their completions.
LEMMA BelowIs ==
    ASSUME NEW b, NEW L \in Nat, NEW strings, NEW n \in Nat \ {0}, Len(strings[n]) \in Nat,
           Shape(b, L, strings, n), strings[n] \in Texts, NEW i \in 0 .. L - 1, Nodes(b, i, n),
           NEW t, t.lefts = b.lefts, t.sizes[i] = Sizes(b.lefts[i], EndOf(b, i)),
           NEW p \in 0 .. Size(b, i) - 1
    PROVE  FirstBelow(t, i, p) = FirstOf(b, i, p + 1) /\ PastBelow(t, i, p) = LastOf(b, i, p + 1) + 1
<1> DEFINE ls == b.lefts[i]
           es == EndOf(b, i)
           ss == t.sizes[i]
           q == p + 1
<1>1. ls \in Seq(Nat) /\ Len(ls) = Size(b, i)
  BY DEF Shape, Size
<1>2. es \in Seq(Nat) /\ Len(es) = Size(b, i) /\ \A x \in 1 .. Size(b, i) : es[x] = LastOf(b, i, x)
  BY EndOfIs
<1>3. Size(b, i) \in Nat /\ \A x \in 1 .. Size(b, i) : LastOf(b, i, x) \in Nat /\ FirstOf(b, i, x) \in Nat
  BY DEF Nodes
<1>4. p \in Nat /\ q \in 1 .. Size(b, i) /\ q - 1 = p /\ (p = 0 <=> q = 1) /\ (q > 1 <=> p # 0)
  BY <1>3
<1>5. ss = Sizes(ls, es)
  OBVIOUS
<1>6. FirstBelow(t, i, p) = ls[q] /\ ls[q] = FirstOf(b, i, q)
  BY DEF FirstBelow, FirstOf
<1>7. PastBelow(t, i, p) = FirstBelow(t, i, p) + ss[q] - (IF p = 0 THEN 0 ELSE ss[p]) + 1
  BY DEF PastBelow
<1> HIDE DEF ls, es, ss, q, Size, LastOf, FirstOf
<1>8. /\ ss[q] \in Int /\ (q > 1 => ss[q - 1] \in Int)
      /\ ss[q] = (IF q = 1 THEN 0 ELSE ss[q - 1]) + es[q] - ls[q]
  <2>1. Len(ls) = Len(es) /\ q \in 1 .. Len(es)
    BY <1>1, <1>2, <1>4
  <2>2. \A x \in 1 .. Len(es) :
           /\ Sizes(ls, es)[x] \in Int
           /\ x > 1 => Sizes(ls, es)[x - 1] \in Int
           /\ Sizes(ls, es)[x] = (IF x = 1 THEN 0 ELSE Sizes(ls, es)[x - 1]) + es[x] - ls[x]
    BY <2>1, <1>1, <1>2, SizesAre
  <2> QED  BY <2>1, <2>2, <1>5
<1>9. ss[q] = (IF p = 0 THEN 0 ELSE ss[p]) + es[q] - ls[q] /\ (p # 0 => ss[p] \in Int)
  BY <1>4, <1>8
<1> DEFINE w == IF p = 0 THEN 0 ELSE ss[p]
<1>10. w \in Int /\ ss[q] = w + es[q] - ls[q] /\ PastBelow(t, i, p) = ls[q] + ss[q] - w + 1
  BY <1>6, <1>7, <1>9
<1>11. es[q] = LastOf(b, i, q) /\ es[q] \in Nat /\ ls[q] \in Nat
  BY <1>2, <1>3, <1>4, <1>6
<1> HIDE DEF w
<1>12. PastBelow(t, i, p) = es[q] + 1
  BY <1>8, <1>10, <1>11
<1> QED  BY <1>6, <1>11, <1>12 DEF q

-----------------------------------------------------------------------------
(***************************************************************************)
(* The search on a level whose nodes are in order.                         *)
(***************************************************************************)
InOrder(t, i, lo, hi) ==
    /\ \A p \in lo .. hi : Node(t, i, p) \in Nat
    /\ \A p, q \in lo .. hi : p < q => Node(t, i, p) < Node(t, i, q)

Least(t, i, bound, l, h) ==
    LET T == {p \in l .. h : Node(t, i, p) >= bound} IN IF T = {} THEN NotFound ELSE Min(T)

IsLeast(t, i, bound, l, h, x) ==
    \/ x = NotFound /\ \A p \in l .. h : Node(t, i, p) < bound
    \/ /\ x \in l .. h /\ Node(t, i, x) >= bound
       /\ \A p \in l .. x - 1 : Node(t, i, p) < bound

LEMMA LeastIs ==
    ASSUME NEW t, NEW i, NEW bound \in Int, NEW lo \in Nat, NEW hi \in Int, InOrder(t, i, lo, hi),
           NEW l \in lo .. hi + 1, NEW h \in lo - 1 .. hi
    PROVE  IsLeast(t, i, bound, l, h, Least(t, i, bound, l, h))
<1> DEFINE T == {p \in l .. h : Node(t, i, p) >= bound}
           x == Least(t, i, bound, l, h)
<1>1. \A p \in l .. h : Node(t, i, p) \in Nat
  BY DEF InOrder
<1>2. x = IF T = {} THEN NotFound ELSE Min(T)
  BY DEF Least
<1> HIDE DEF x
<1>3. CASE T = {}
  <2>1. \A p \in l .. h : Node(t, i, p) < bound
    BY <1>1, <1>3
  <2> QED  BY <2>1, <1>2, <1>3 DEF IsLeast, x
<1>4. CASE T # {}
  <2>1. T \in SUBSET Nat
    OBVIOUS
  <2> HIDE DEF T
  <2>2. Min(T) \in T /\ \A c \in T : Min(T) <= c
    BY <2>1, <1>4, MinIs
  <2>3. x \in T /\ \A c \in T : x <= c
    BY <2>2, <1>2, <1>4
  <2>4. x \in l .. h /\ Node(t, i, x) >= bound
    BY <2>3 DEF T
  <2>5. ASSUME NEW p \in l .. x - 1 PROVE Node(t, i, p) < bound
    <3>1. p \in l .. h /\ p \notin T
      BY <2>3, <2>4
    <3>2. ~(Node(t, i, p) >= bound)
      BY <3>1 DEF T
    <3> QED  BY <3>1, <3>2, <1>1
  <2> QED  BY <2>4, <2>5 DEF IsLeast, x
<1> QED  BY <1>3, <1>4

LEMMA LeastUnique ==
    ASSUME NEW t, NEW i, NEW bound \in Int, NEW lo \in Nat, NEW hi \in Int, InOrder(t, i, lo, hi),
           NEW l \in lo .. hi + 1, NEW h \in lo - 1 .. hi, NEW x, NEW y,
           IsLeast(t, i, bound, l, h, x), IsLeast(t, i, bound, l, h, y)
    PROVE  x = y
<1>1. \A p \in l .. h : Node(t, i, p) \in Nat
  BY DEF InOrder
<1>2. NotFound \notin l .. h
  BY DEF NotFound
<1>3. CASE x = NotFound
  <2>1. \A p \in l .. h : Node(t, i, p) < bound
    BY <1>2, <1>3 DEF IsLeast
  <2>2. ASSUME y # NotFound PROVE FALSE
    <3>1. y \in l .. h /\ Node(t, i, y) >= bound
      BY <2>2 DEF IsLeast
    <3> QED  BY <3>1, <2>1, <1>1
  <2> QED  BY <2>2, <1>3
<1>4. CASE x # NotFound
  <2>1. x \in l .. h /\ Node(t, i, x) >= bound /\ \A p \in l .. x - 1 : Node(t, i, p) < bound
    BY <1>4 DEF IsLeast
  <2>2. y # NotFound
    <3>1. ASSUME y = NotFound PROVE FALSE
      <4>1. \A p \in l .. h : Node(t, i, p) < bound
        BY <1>2, <3>1 DEF IsLeast
      <4> QED  BY <4>1, <2>1, <1>1
    <3> QED  BY <3>1
  <2>3. y \in l .. h /\ Node(t, i, y) >= bound /\ \A p \in l .. y - 1 : Node(t, i, p) < bound
    BY <2>2 DEF IsLeast
  <2>4. ~(x < y)
    <3>1. x < y => x \in l .. y - 1
      BY <2>1, <2>3
    <3> QED  BY <3>1, <2>1, <2>3, <1>1
  <2>5. ~(y < x)
    <3>1. y < x => y \in l .. x - 1
      BY <2>1, <2>3
    <3> QED  BY <3>1, <2>1, <2>3, <1>1
  <2> QED  BY <2>1, <2>3, <2>4, <2>5
<1> QED  BY <1>3, <1>4

\* A step of the halving leaves the least.
LeastHalved(t, i, bound, lo, hi, l, h, pos) ==
    /\ pos \in l + 1 .. h /\ pos + 1 \in lo .. hi + 1 /\ pos - 1 \in lo - 1 .. hi
    /\ Least(t, i, bound, l, h) =
          IF Node(t, i, pos) = bound THEN pos
          ELSE IF Node(t, i, pos) < bound THEN Least(t, i, bound, pos + 1, h)
          ELSE IF bound > Node(t, i, pos - 1) THEN pos
          ELSE Least(t, i, bound, l, pos - 1)

LEMMA LeastStep ==
    ASSUME NEW t, NEW i, NEW bound \in Int, NEW lo \in Nat, NEW hi \in Int, InOrder(t, i, lo, hi),
           NEW l \in lo .. hi + 1, NEW h \in lo - 1 .. hi, h - l > SearchThreshold
    PROVE  LeastHalved(t, i, bound, lo, hi, l, h, (l + h) \div 2)
<1> DEFINE pos == (l + h) \div 2
           x == Least(t, i, bound, l, h)
<1>1. pos \in l + 1 .. h
  <2>1. h - l >= 2
    BY SearchThresholdAssumption
  <2> QED  BY <2>1
<1> HIDE DEF pos
<1>2. pos \in Nat /\ pos + 1 \in lo .. hi + 1 /\ pos - 1 \in lo - 1 .. hi /\ pos - 1 \in l .. h /\ pos \in l .. h
      /\ pos - 1 \in lo .. hi /\ pos \in lo .. hi
  BY <1>1
<1>3. /\ \A p \in lo .. hi : Node(t, i, p) \in Nat
      /\ \A p, q \in lo .. hi : p < q => Node(t, i, p) < Node(t, i, q)
  BY DEF InOrder
<1>4. \A p \in l .. h : p \in lo .. hi
  OBVIOUS
<1>5. IsLeast(t, i, bound, l, h, x)
  BY LeastIs
<1>6. CASE Node(t, i, pos) = bound
  <2>1. \A p \in l .. pos - 1 : p \in lo .. hi /\ p < pos
    BY <1>1
  <2>2. \A p \in l .. pos - 1 : Node(t, i, p) < bound
    BY <2>1, <1>2, <1>3, <1>6
  <2>3. Node(t, i, pos) >= bound
    BY <1>6
  <2>4. IsLeast(t, i, bound, l, h, pos)
    BY <2>2, <2>3, <1>2 DEF IsLeast
  <2>5. x = pos
    BY <2>4, <1>5, LeastUnique
  <2> QED  BY <2>5, <1>1, <1>2, <1>6 DEF LeastHalved, pos
<1>7. CASE ~(Node(t, i, pos) = bound) /\ Node(t, i, pos) < bound
  <2> DEFINE y == Least(t, i, bound, pos + 1, h)
  <2>1. IsLeast(t, i, bound, pos + 1, h, y)
    BY <1>2, LeastIs
  <2>2. ASSUME NEW p \in l .. pos PROVE Node(t, i, p) < bound
    <3>1. p \in lo .. hi /\ (p = pos \/ p < pos)
      BY <1>1
    <3> QED  BY <3>1, <1>2, <1>3, <1>7
  <2> HIDE DEF y
  <2>3. ASSUME y = NotFound PROVE IsLeast(t, i, bound, l, h, y)
    <3>1. NotFound \notin pos + 1 .. h
      BY <1>2 DEF NotFound
    <3>2. \A p \in pos + 1 .. h : Node(t, i, p) < bound
      BY <3>1, <2>1, <2>3 DEF IsLeast
    <3>3. \A p \in l .. h : p \in l .. pos \/ p \in pos + 1 .. h
      BY <1>1
    <3>4. \A p \in l .. h : Node(t, i, p) < bound
      BY <3>2, <3>3, <2>2
    <3> QED  BY <3>4, <2>3 DEF IsLeast
  <2>4. ASSUME y # NotFound PROVE IsLeast(t, i, bound, l, h, y)
    <3>1. y \in pos + 1 .. h /\ Node(t, i, y) >= bound /\ \A p \in pos + 1 .. y - 1 : Node(t, i, p) < bound
      BY <2>1, <2>4 DEF IsLeast
    <3>2. \A p \in l .. y - 1 : p \in l .. pos \/ p \in pos + 1 .. y - 1
      BY <1>1, <3>1
    <3>3. \A p \in l .. y - 1 : Node(t, i, p) < bound
      BY <3>1, <3>2, <2>2
    <3>4. y \in l .. h
      BY <3>1, <1>1
    <3> QED  BY <3>1, <3>3, <3>4 DEF IsLeast
  <2>5. IsLeast(t, i, bound, l, h, y)
    BY <2>3, <2>4
  <2>6. x = y
    BY <2>5, <1>5, LeastUnique
  <2> QED  BY <2>6, <1>1, <1>2, <1>7 DEF LeastHalved, pos, y
<1>8. CASE ~(Node(t, i, pos) = bound) /\ ~(Node(t, i, pos) < bound) /\ bound > Node(t, i, pos - 1)
  <2>1. Node(t, i, pos) \in Nat /\ Node(t, i, pos - 1) \in Nat
    BY <1>2, <1>3
  <2>2. Node(t, i, pos) >= bound
    BY <2>1, <1>8
  <2>3. ASSUME NEW p \in l .. pos - 1 PROVE Node(t, i, p) < bound
    <3>1. p \in lo .. hi /\ (p = pos - 1 \/ p < pos - 1)
      BY <1>1
    <3>2. Node(t, i, p) \in Nat /\ Node(t, i, p) <= Node(t, i, pos - 1)
      BY <3>1, <1>2, <1>3
    <3> QED  BY <3>2, <2>1, <1>8
  <2>4. IsLeast(t, i, bound, l, h, pos)
    BY <2>2, <2>3, <1>2 DEF IsLeast
  <2>5. x = pos
    BY <2>4, <1>5, LeastUnique
  <2> QED  BY <2>5, <1>1, <1>2, <1>8 DEF LeastHalved, pos
<1>9. CASE ~(Node(t, i, pos) = bound) /\ ~(Node(t, i, pos) < bound) /\ ~(bound > Node(t, i, pos - 1))
  <2> DEFINE y == Least(t, i, bound, l, pos - 1)
  <2>1. IsLeast(t, i, bound, l, pos - 1, y)
    BY <1>2, LeastIs
  <2>2. Node(t, i, pos - 1) \in Nat /\ pos - 1 \in l .. pos - 1
    BY <1>1, <1>2, <1>3
  <2> HIDE DEF y
  <2>3. ~\A p \in l .. pos - 1 : Node(t, i, p) < bound
    BY <2>2, <1>9
  <2>4. /\ y \in l .. pos - 1 /\ Node(t, i, y) >= bound
        /\ \A p \in l .. y - 1 : Node(t, i, p) < bound
    BY <2>1, <2>3 DEF IsLeast
  <2>5. y \in l .. h
    BY <2>4, <1>1
  <2>6. IsLeast(t, i, bound, l, h, y)
    BY <2>4, <2>5 DEF IsLeast
  <2>7. x = y
    BY <2>6, <1>5, LeastUnique
  <2> QED  BY <2>7, <1>1, <1>2, <1>9 DEF LeastHalved, pos, y
<1> QED  BY <1>6, <1>7, <1>8, <1>9

LEMMA NextGeqIs ==
    ASSUME NEW t, NEW i, NEW bound \in Int, NEW lo \in Nat, NEW hi \in Int, hi >= lo - 1,
           InOrder(t, i, lo, hi)
    PROVE  IsLeast(t, i, bound, lo, hi, NextGeqNode(t, i, bound, lo, hi))
<1> DEFINE D == (lo .. hi + 1) \X (lo - 1 .. hi)
           Scan(s) == {p \in s[1] .. s[2] : Node(t, i, p) >= bound}
           Mid(s) == (s[1] + s[2]) \div 2
           Eq(A) == A = [s \in D |->
                            IF s[2] - s[1] <= SearchThreshold
                            THEN IF Scan(s) = {} THEN NotFound ELSE Min(Scan(s))
                            ELSE IF Node(t, i, Mid(s)) = bound THEN Mid(s)
                            ELSE IF Node(t, i, Mid(s)) < bound THEN A[<<Mid(s) + 1, s[2]>>]
                            ELSE IF bound > Node(t, i, Mid(s) - 1) THEN Mid(s)
                            ELSE A[<<s[1], Mid(s) - 1>>]]
           W == [s \in D |-> Least(t, i, bound, s[1], s[2])]
           F == CHOOSE A : Eq(A)
<1>1. ASSUME NEW l \in lo .. hi + 1, NEW h \in lo - 1 .. hi, ~(h - l <= SearchThreshold)
      PROVE  LET pos == (l + h) \div 2
             IN  /\ pos \in l + 1 .. h /\ pos + 1 \in lo .. hi + 1 /\ pos - 1 \in lo - 1 .. hi
                 /\ Least(t, i, bound, l, h) =
                       IF Node(t, i, pos) = bound THEN pos
                       ELSE IF Node(t, i, pos) < bound THEN Least(t, i, bound, pos + 1, h)
                       ELSE IF bound > Node(t, i, pos - 1) THEN pos
                       ELSE Least(t, i, bound, l, pos - 1)
  <2>1. h - l > SearchThreshold
    BY <1>1, SearchThresholdAssumption
  <2> HIDE DEF Least, Node, Eq, W, F, Scan, Mid, D
  <2>2. LeastHalved(t, i, bound, lo, hi, l, h, (l + h) \div 2)
    BY <2>1, LeastStep
  <2> QED  BY <2>2, Zenon DEF LeastHalved
<1>2. Eq(W)
  <2>1. ASSUME NEW l \in lo .. hi + 1, NEW h \in lo - 1 .. hi
        PROVE  Least(t, i, bound, l, h) =
                  IF h - l <= SearchThreshold
                  THEN IF Scan(<<l, h>>) = {} THEN NotFound ELSE Min(Scan(<<l, h>>))
                  ELSE IF Node(t, i, Mid(<<l, h>>)) = bound THEN Mid(<<l, h>>)
                  ELSE IF Node(t, i, Mid(<<l, h>>)) < bound THEN W[<<Mid(<<l, h>>) + 1, h>>]
                  ELSE IF bound > Node(t, i, Mid(<<l, h>>) - 1) THEN Mid(<<l, h>>)
                  ELSE W[<<l, Mid(<<l, h>>) - 1>>]
    <3>1. CASE h - l <= SearchThreshold
      BY <3>1 DEF Least
    <3>2. CASE ~(h - l <= SearchThreshold)
      <4> DEFINE m == (l + h) \div 2
      <4>1. /\ m \in l + 1 .. h /\ m + 1 \in lo .. hi + 1 /\ m - 1 \in lo - 1 .. hi
            /\ Least(t, i, bound, l, h) =
                  IF Node(t, i, m) = bound THEN m
                  ELSE IF Node(t, i, m) < bound THEN Least(t, i, bound, m + 1, h)
                  ELSE IF bound > Node(t, i, m - 1) THEN m
                  ELSE Least(t, i, bound, l, m - 1)
        BY <3>2, <1>1
      <4>2. Mid(<<l, h>>) = m
        OBVIOUS
      <4> HIDE DEF m, Mid, Scan
      <4>3. W[<<m + 1, h>>] = Least(t, i, bound, m + 1, h) /\ W[<<l, m - 1>>] = Least(t, i, bound, l, m - 1)
        BY <4>1
      <4> HIDE DEF W, Least, Node
      <4> QED  BY <4>1, <4>2, <4>3, <3>2
    <3> QED  BY <3>1, <3>2
  <2> HIDE DEF Least, Node, Scan, Mid
  <2>2. \A s \in D : W[s] = IF s[2] - s[1] <= SearchThreshold
                            THEN IF Scan(s) = {} THEN NotFound ELSE Min(Scan(s))
                            ELSE IF Node(t, i, Mid(s)) = bound THEN Mid(s)
                            ELSE IF Node(t, i, Mid(s)) < bound THEN W[<<Mid(s) + 1, s[2]>>]
                            ELSE IF bound > Node(t, i, Mid(s) - 1) THEN Mid(s)
                            ELSE W[<<s[1], Mid(s) - 1>>]
    <3> SUFFICES ASSUME NEW s \in D
                 PROVE  W[s] = IF s[2] - s[1] <= SearchThreshold
                               THEN IF Scan(s) = {} THEN NotFound ELSE Min(Scan(s))
                               ELSE IF Node(t, i, Mid(s)) = bound THEN Mid(s)
                               ELSE IF Node(t, i, Mid(s)) < bound THEN W[<<Mid(s) + 1, s[2]>>]
                               ELSE IF bound > Node(t, i, Mid(s) - 1) THEN Mid(s)
                               ELSE W[<<s[1], Mid(s) - 1>>]
      OBVIOUS
    <3>1. PICK l \in lo .. hi + 1, h \in lo - 1 .. hi : s = <<l, h>>
      OBVIOUS
    <3>2. s[1] = l /\ s[2] = h /\ W[s] = Least(t, i, bound, l, h)
      BY <3>1
    <3> HIDE DEF W
    <3> QED  BY <3>1, <3>2, <2>1
  <2>3. W = [s \in D |-> W[s]]
    OBVIOUS
  <2> HIDE DEF W
  <2> QED  BY <2>2, <2>3, Zenon
<1>3. Eq(F)
  <2> HIDE DEF Eq, W
  <2> QED  BY <1>2, Zenon
<1>4. NextGeqNode(t, i, bound, lo, hi) = F[<<lo, hi>>]
  BY DEF NextGeqNode
<1> HIDE DEF F, W
<1>5. \A l \in lo .. hi + 1, h \in lo - 1 .. hi :
        LET m == (l + h) \div 2
        IN  F[<<l, h>>] = IF h - l <= SearchThreshold THEN Least(t, i, bound, l, h)
                      ELSE IF Node(t, i, m) = bound THEN m
                      ELSE IF Node(t, i, m) < bound THEN F[<<m + 1, h>>]
                      ELSE IF bound > Node(t, i, m - 1) THEN m
                      ELSE F[<<l, m - 1>>]
  <2> SUFFICES ASSUME NEW l \in lo .. hi + 1, NEW h \in lo - 1 .. hi
               PROVE  LET m == (l + h) \div 2
                      IN  F[<<l, h>>] = IF h - l <= SearchThreshold THEN Least(t, i, bound, l, h)
                                    ELSE IF Node(t, i, m) = bound THEN m
                                    ELSE IF Node(t, i, m) < bound THEN F[<<m + 1, h>>]
                                    ELSE IF bound > Node(t, i, m - 1) THEN m
                                    ELSE F[<<l, m - 1>>]
    OBVIOUS
  <2> DEFINE s == <<l, h>>
  <2>1. s \in D /\ s[1] = l /\ s[2] = h /\ Mid(s) = (l + h) \div 2
    OBVIOUS
  <2>2. Least(t, i, bound, l, h) = IF Scan(s) = {} THEN NotFound ELSE Min(Scan(s))
    BY <2>1 DEF Least
  <2> HIDE DEF Least, Node, Scan, Mid, s
  <2>3. F[s] = IF s[2] - s[1] <= SearchThreshold
               THEN IF Scan(s) = {} THEN NotFound ELSE Min(Scan(s))
               ELSE IF Node(t, i, Mid(s)) = bound THEN Mid(s)
               ELSE IF Node(t, i, Mid(s)) < bound THEN F[<<Mid(s) + 1, s[2]>>]
               ELSE IF bound > Node(t, i, Mid(s) - 1) THEN Mid(s)
               ELSE F[<<s[1], Mid(s) - 1>>]
    BY <2>1, <1>3, Zenon
  <2> HIDE DEF Eq
  <2> QED  BY <2>1, <2>2, <2>3 DEF s
<1> HIDE DEF Eq, Least, Node, Scan, Mid
<1> DEFINE S == {n \in Nat : \A l \in lo .. hi + 1, h \in lo - 1 .. hi :
                                h + 1 - l <= n => F[<<l, h>>] = Least(t, i, bound, l, h)}
<1>6. 0 \in S
  <2>1. ASSUME NEW l \in lo .. hi + 1, NEW h \in lo - 1 .. hi, h + 1 - l <= 0
        PROVE  F[<<l, h>>] = Least(t, i, bound, l, h)
    <3>1. h - l <= SearchThreshold
      BY <2>1, SearchThresholdAssumption
    <3> QED  BY <3>1, <1>5
  <2> QED  BY <2>1
<1>7. ASSUME NEW n \in Nat, n \in S PROVE n + 1 \in S
  <2> SUFFICES ASSUME NEW l \in lo .. hi + 1, NEW h \in lo - 1 .. hi, h + 1 - l <= n + 1
               PROVE  F[<<l, h>>] = Least(t, i, bound, l, h)
    <3>1. n + 1 \in Nat
      OBVIOUS
    <3> HIDE DEF D
    <3> QED  BY <3>1
  <2>1. CASE h - l <= SearchThreshold
    BY <2>1, <1>5
  <2>2. CASE ~(h - l <= SearchThreshold)
    <3> DEFINE m == (l + h) \div 2
    <3>1. /\ m \in l + 1 .. h /\ m + 1 \in lo .. hi + 1 /\ m - 1 \in lo - 1 .. hi
          /\ Least(t, i, bound, l, h) =
                IF Node(t, i, m) = bound THEN m
                ELSE IF Node(t, i, m) < bound THEN Least(t, i, bound, m + 1, h)
                ELSE IF bound > Node(t, i, m - 1) THEN m
                ELSE Least(t, i, bound, l, m - 1)
      BY <2>2, <1>1
    <3>2. F[<<l, h>>] = IF Node(t, i, m) = bound THEN m
                    ELSE IF Node(t, i, m) < bound THEN F[<<m + 1, h>>]
                    ELSE IF bound > Node(t, i, m - 1) THEN m
                    ELSE F[<<l, m - 1>>]
      BY <2>2, <1>5
    <3> HIDE DEF m
    <3>3. h + 1 - (m + 1) <= n /\ (m - 1) + 1 - l <= n
      BY <3>1
    <3>4. /\ F[<<m + 1, h>>] = Least(t, i, bound, m + 1, h)
          /\ F[<<l, m - 1>>] = Least(t, i, bound, l, m - 1)
      BY <3>1, <3>3, <1>7
    <3> QED  BY <3>1, <3>2, <3>4
  <2> QED  BY <2>1, <2>2
<1>8. Nat \subseteq S
  <2> HIDE DEF S
  <2> QED  BY <1>6, <1>7, Everywhere
<1>9. lo \in lo .. hi + 1 /\ hi \in lo - 1 .. hi
  OBVIOUS
<1>10. F[<<lo, hi>>] = Least(t, i, bound, lo, hi)
  <2> DEFINE n == hi + 1 - lo
  <2>1. n \in Nat /\ hi + 1 - lo <= n
    OBVIOUS
  <2>2. n \in S
    <3> HIDE DEF S, n
    <3> QED  BY <2>1, <1>8
  <2>3. \A l \in lo .. hi + 1, h \in lo - 1 .. hi :
            h + 1 - l <= n => F[<<l, h>>] = Least(t, i, bound, l, h)
    BY <2>2
  <2> HIDE DEF n, S
  <2> QED  BY <2>1, <2>3, <1>9
<1>11. IsLeast(t, i, bound, lo, hi, Least(t, i, bound, lo, hi))
  BY <1>9, LeastIs
<1> QED  BY <1>4, <1>10, <1>11

\* A family of siblings in the trie: their sums are in order, ...
LEMMA SiblingsInOrder ==
    ASSUME NEW b, NEW i, NEW n, Nodes(b, i, n), NEW t, NEW lo, NEW hi, NEW from, NEW to,
           Siblings(t, b, i, lo, hi), Family(b, i, lo, hi, from, to)
    PROVE  /\ InOrder(t, i, lo, hi - 1)
           /\ \A p \in lo .. hi - 1 : NodeAt(b, i, p + 1) \in Nat
<1> DEFINE U == Upper(t, i, lo)
<1> HIDE DEF U, NodeAt, FirstOf, LastOf, Size
<1>1. /\ lo \in Nat /\ hi \in Nat /\ hi <= Size(b, i) /\ U \in Nat
      /\ \A p \in lo .. hi - 1 : Node(t, i, p) = NodeAt(b, i, p + 1) + U
  BY DEF Siblings, U
<1>2. \A p \in 1 .. Size(b, i) : NodeAt(b, i, p) \in Nat
  BY DEF Nodes
<1>3. Size(b, i) \in Nat
  BY DEF Nodes
<1>4. \A p \in lo .. hi - 1 : p + 1 \in 1 .. Size(b, i) /\ p + 1 \in lo + 1 .. hi
  BY <1>1, <1>3
<1>5. \A p \in lo .. hi - 1 : NodeAt(b, i, p + 1) \in Nat
  BY <1>2, <1>4
<1>6. \A p \in lo .. hi - 1 : Node(t, i, p) \in Nat
  BY <1>1, <1>5
<1>7. ASSUME NEW p \in lo .. hi - 1, NEW q \in lo .. hi - 1, p < q
      PROVE  Node(t, i, p) < Node(t, i, q)
  <2>1. p + 1 \in lo + 1 .. hi /\ q + 1 \in lo + 1 .. hi /\ p + 1 < q + 1
    BY <1>1, <1>4, <1>7
  <2>2. NodeAt(b, i, p + 1) < NodeAt(b, i, q + 1)
    BY <2>1 DEF Family
  <2>3. NodeAt(b, i, p + 1) \in Nat /\ NodeAt(b, i, q + 1) \in Nat
    BY <1>5
  <2> QED  BY <2>2, <2>3, <1>1
<1> QED  BY <1>5, <1>6, <1>7 DEF InOrder

\* ... so that a term is found among them, ...
LEMMA TermFound ==
    ASSUME NEW b, NEW i, NEW n, Nodes(b, i, n), NEW t, NEW lo, NEW hi, NEW from, NEW to,
           Siblings(t, b, i, lo, hi), Family(b, i, lo, hi, from, to), NEW term \in Nat,
           NEW r, r.begin = lo, r.end = hi
    PROVE  LET x == FindTerm(t, i, r, term)
           IN  \/ x = NotFound /\ \A p \in lo .. hi - 1 : NodeAt(b, i, p + 1) # term
               \/ x \in lo .. hi - 1 /\ NodeAt(b, i, x + 1) = term
<1> DEFINE U == Upper(t, i, lo)
           x == FindTerm(t, i, r, term)
           T == {p \in lo .. hi - 1 : Node(t, i, p) = term + U}
<1>1. /\ lo \in Nat /\ hi \in Nat /\ U \in Nat
      /\ \A p \in lo .. hi - 1 : Node(t, i, p) = NodeAt(b, i, p + 1) + U
  BY DEF Siblings
<1>2. \A p \in lo .. hi - 1 : NodeAt(b, i, p + 1) \in Nat
  BY SiblingsInOrder
<1>3. PreviousUpper(t, i, r) = U
  BY DEF PreviousUpper, Upper
<1>4. x = IF T = {} THEN NotFound ELSE Min(T)
  BY <1>3 DEF FindTerm
<1> HIDE DEF U, x, NodeAt, Node
<1>5. \A p \in lo .. hi - 1 : p \in T <=> NodeAt(b, i, p + 1) = term
  BY <1>1, <1>2
<1>6. T \in SUBSET Nat /\ T \in SUBSET (lo .. hi - 1)
  BY <1>1
<1> HIDE DEF T
<1>7. CASE T = {}
  BY <1>4, <1>5, <1>7 DEF x
<1>8. CASE T # {}
  <2>1. Min(T) \in T
    BY <1>6, <1>8, MinIs
  <2>2. x \in T
    BY <2>1, <1>4, <1>8
  <2>3. x \in lo .. hi - 1 /\ NodeAt(b, i, x + 1) = term
    BY <2>2, <1>5, <1>6
  <2> QED  BY <2>3 DEF x
<1> QED  BY <1>7, <1>8

\* ... and a range of terms.
LEMMA RangeFound ==
    ASSUME NEW b, NEW i, NEW n, Nodes(b, i, n), NEW t, NEW lo, NEW hi, lo <= hi, NEW from, NEW to,
           Siblings(t, b, i, lo, hi), Family(b, i, lo, hi, from, to),
           NEW lex, lex.begin \in Nat, lex.end \in Nat, lex.begin <= lex.end,
           NEW r, r.begin = lo, r.end = hi
    PROVE  LET q == FindRange(t, i, r, lex)
           IN  /\ q.begin \in lo .. hi /\ q.end \in lo .. hi /\ q.begin <= q.end
               /\ \A p \in lo .. hi - 1 :
                     p \in q.begin .. q.end - 1 <=> NodeAt(b, i, p + 1) \in lex.begin .. lex.end
<1> DEFINE U == Upper(t, i, lo)
           B == lex.begin + U
           E == lex.end + U
           x == NextGeqNode(t, i, lex.begin + U, lo, hi - 1)
           y == NextGeqNode(t, i, lex.end + U, x, hi - 1)
           q == FindRange(t, i, r, lex)
<1>1. /\ lo \in Nat /\ hi \in Nat /\ U \in Nat
      /\ \A p \in lo .. hi - 1 : Node(t, i, p) = NodeAt(b, i, p + 1) + U
  BY DEF Siblings
<1>2. \A p \in lo .. hi - 1 : NodeAt(b, i, p + 1) \in Nat
  BY SiblingsInOrder
<1>3. PreviousUpper(t, i, r) = U
  BY DEF PreviousUpper, Upper
<1>4. q = IF x = NotFound \/ Node(t, i, x) > E THEN [begin |-> hi, end |-> hi]
          ELSE IF lex.begin = lex.end THEN [begin |-> x, end |-> x + 1]
          ELSE IF y = NotFound THEN [begin |-> x, end |-> hi]
          ELSE IF Node(t, i, y) = E THEN [begin |-> x, end |-> y + 1]
          ELSE [begin |-> x, end |-> y]
  BY <1>3 DEF FindRange
<1>5. InOrder(t, i, lo, hi - 1)
  BY SiblingsInOrder
<1>6. B \in Nat /\ E \in Nat /\ B <= E /\ (lex.begin = lex.end <=> B = E)
  BY <1>1
<1> HIDE DEF U, NodeAt, Node
<1>7. \A p \in lo .. hi - 1 : /\ Node(t, i, p) \in Nat
                              /\ NodeAt(b, i, p + 1) \in lex.begin .. lex.end
                                    <=> B <= Node(t, i, p) /\ Node(t, i, p) <= E
  BY <1>1, <1>2
<1>8. \A p, s \in lo .. hi - 1 : p < s => Node(t, i, p) < Node(t, i, s)
  BY <1>5 DEF InOrder
<1>9. IsLeast(t, i, B, lo, hi - 1, x)
  <2> DEFINE h == hi - 1
  <2>1. h \in Int /\ h >= lo - 1 /\ B \in Int /\ InOrder(t, i, lo, h)
    BY <1>1, <1>5, <1>6
  <2> HIDE DEF h, B
  <2>2. IsLeast(t, i, B, lo, h, NextGeqNode(t, i, B, lo, h))
    BY <2>1, <1>1, NextGeqIs
  <2> QED  BY <2>2 DEF h, B
<1> DEFINE In(p) == B <= Node(t, i, p) /\ Node(t, i, p) <= E
<1> SUFFICES /\ q.begin \in lo .. hi /\ q.end \in lo .. hi /\ q.begin <= q.end
             /\ \A p \in lo .. hi - 1 : p \in q.begin .. q.end - 1 <=> In(p)
  <2> HIDE DEF q, B, E
  <2>1. ASSUME NEW p \in lo .. hi - 1 PROVE NodeAt(b, i, p + 1) \in lex.begin .. lex.end <=> In(p)
    BY <1>7
  <2> HIDE DEF In
  <2>2. \A p \in lo .. hi - 1 :
            p \in q.begin .. q.end - 1 <=> NodeAt(b, i, p + 1) \in lex.begin .. lex.end
    BY <2>1
  <2> QED  BY <2>2 DEF q
<1>10. \A p \in lo .. hi - 1 : Node(t, i, p) \in Nat
  BY <1>7
<1>11. NotFound \notin lo .. hi - 1
  BY <1>1 DEF NotFound
<1>12. x # NotFound =>
         /\ x \in lo .. hi - 1 /\ Node(t, i, x) >= B
         /\ \A p \in lo .. x - 1 : Node(t, i, p) < B
  <2> HIDE DEF x, B
  <2> QED  BY <1>9 DEF IsLeast
<1>13. x = NotFound => \A p \in lo .. hi - 1 : Node(t, i, p) < B
  <2> HIDE DEF x, B
  <2> QED  BY <1>9, <1>11 DEF IsLeast
<1>14. ASSUME x # NotFound PROVE IsLeast(t, i, E, x, hi - 1, y)
  <2> DEFINE h == hi - 1
  <2>1. x \in lo .. h /\ h \in Int
    BY <1>1, <1>12, <1>14
  <2>2. x \in Nat /\ h >= x - 1 /\ E \in Int
    BY <2>1, <1>1, <1>6
  <2>3. InOrder(t, i, x, h)
    <3>1. \A p \in x .. h : p \in lo .. h
      BY <2>1, <1>1
    <3> HIDE DEF x
    <3> QED  BY <3>1, <1>5 DEF InOrder
  <2> HIDE DEF h, x, E
  <2>4. IsLeast(t, i, E, x, h, NextGeqNode(t, i, E, x, h))
    BY <2>1, <2>2, <2>3, NextGeqIs
  <2> QED  BY <2>4 DEF h, E
<1> HIDE DEF x, y, q, B, E
<1>15. x # NotFound => (y # NotFound =>
         /\ y \in x .. hi - 1 /\ Node(t, i, y) >= E
         /\ \A p \in x .. y - 1 : Node(t, i, p) < E)
  BY <1>14 DEF IsLeast
<1>16. ASSUME x # NotFound, y = NotFound PROVE \A p \in x .. hi - 1 : Node(t, i, p) < E
  <2>1. NotFound \notin x .. hi - 1
    BY <1>1, <1>12, <1>16 DEF NotFound
  <2> QED  BY <2>1, <1>14, <1>16 DEF IsLeast
<1>17. CASE x = NotFound
  <2>1. q.begin = hi /\ q.end = hi
    BY <1>4, <1>17
  <2>2. ASSUME NEW p \in lo .. hi - 1 PROVE ~In(p) /\ p \notin hi .. hi - 1
    BY <1>1, <1>6, <1>10, <1>13, <1>17
  <2> HIDE DEF In
  <2> QED  BY <2>1, <2>2, <1>1
<1>18. CASE x # NotFound /\ Node(t, i, x) > E
  <2>1. q.begin = hi /\ q.end = hi
    BY <1>4, <1>18
  <2>2. ASSUME NEW p \in lo .. hi - 1 PROVE ~In(p) /\ p \notin hi .. hi - 1
    <3>1. p \notin hi .. hi - 1
      BY <1>1
    <3>2. x \in lo .. hi - 1
      BY <1>12, <1>18
    <3>3. CASE p < x
      <4>1. p \in lo .. x - 1
        BY <3>2, <3>3, <1>1
      <4> QED  BY <3>1, <4>1, <1>6, <1>10, <1>12, <1>18
    <3>4. CASE ~(p < x)
      <4>1. Node(t, i, x) <= Node(t, i, p)
        <5>1. p = x \/ x < p
          BY <3>2, <3>4, <1>1
        <5> QED  BY <5>1, <3>2, <1>8, <1>10
      <4> QED  BY <3>1, <3>2, <4>1, <1>6, <1>10, <1>18
    <3> QED  BY <3>3, <3>4
  <2> HIDE DEF In
  <2> QED  BY <2>1, <2>2, <1>1
<1>19. CASE x # NotFound /\ ~(Node(t, i, x) > E)
  <2>1. /\ x \in lo .. hi - 1 /\ Node(t, i, x) >= B /\ Node(t, i, x) <= E
        /\ \A p \in lo .. x - 1 : Node(t, i, p) < B
    BY <1>6, <1>10, <1>12, <1>19
  <2>2. \A p \in lo .. hi - 1 : In(p) => x <= p
    <3> SUFFICES ASSUME NEW p \in lo .. hi - 1, In(p), p < x PROVE FALSE
      BY <2>1, <1>1
    <3>1. p \in lo .. x - 1
      BY <2>1, <1>1
    <3> QED  BY <3>1, <2>1, <1>6, <1>10
  <2>3. \A p \in lo .. hi - 1 : x <= p => B <= Node(t, i, p)
    <3> SUFFICES ASSUME NEW p \in lo .. hi - 1, x <= p PROVE B <= Node(t, i, p)
      OBVIOUS
    <3>1. p = x \/ x < p
      BY <2>1, <1>1
    <3>2. Node(t, i, x) <= Node(t, i, p)
      BY <3>1, <2>1, <1>8, <1>10
    <3> QED  BY <3>2, <2>1, <1>6, <1>10
  <2>4. \A p \in lo .. hi - 1 : In(p) <=> x <= p /\ Node(t, i, p) <= E
    BY <2>2, <2>3
  <2> HIDE DEF In
  <2>5. CASE lex.begin = lex.end
    <3>1. q.begin = x /\ q.end = x + 1
      BY <1>4, <1>19, <2>5
    <3>2. Node(t, i, x) = E
      BY <2>1, <2>5, <1>6, <1>10
    <3>3. ASSUME NEW p \in lo .. hi - 1 PROVE In(p) <=> p = x
      <4>1. CASE p = x
        BY <4>1, <2>1, <2>4, <1>1
      <4>2. CASE p # x
        <5>1. p < x \/ x < p
          BY <4>2, <2>1, <1>1
        <5>2. x < p => E < Node(t, i, p)
          BY <3>2, <2>1, <1>8
        <5> QED  BY <5>1, <5>2, <4>2, <2>1, <2>4, <1>1, <1>6, <1>10
      <4> QED  BY <4>1, <4>2
    <3>4. \A p \in lo .. hi - 1 : p \in x .. (x + 1) - 1 <=> p = x
      BY <2>1, <1>1
    <3> QED  BY <3>1, <3>3, <3>4, <2>1, <1>1
  <2>6. CASE lex.begin # lex.end /\ y = NotFound
    <3>1. q.begin = x /\ q.end = hi
      BY <1>4, <1>19, <2>6
    <3>2. ASSUME NEW p \in lo .. hi - 1 PROVE In(p) <=> p \in x .. hi - 1
      <4>1. p \in x .. hi - 1 <=> x <= p
        BY <2>1, <1>1
      <4>2. p \in x .. hi - 1 => Node(t, i, p) < E
        BY <2>6, <1>16, <1>19
      <4> QED  BY <4>1, <4>2, <2>4, <1>6, <1>10
    <3> QED  BY <3>1, <3>2, <2>1, <1>1
  <2>7. CASE lex.begin # lex.end /\ y # NotFound
    <3>1. /\ y \in x .. hi - 1 /\ Node(t, i, y) >= E /\ y \in lo .. hi - 1
          /\ \A p \in x .. y - 1 : Node(t, i, p) < E
      BY <2>1, <2>7, <1>1, <1>15, <1>19
    <3>2. \A p \in lo .. hi - 1 : y < p => E < Node(t, i, p)
      <4> SUFFICES ASSUME NEW p \in lo .. hi - 1, y < p PROVE E < Node(t, i, p)
        OBVIOUS
      <4>1. Node(t, i, y) < Node(t, i, p)
        BY <3>1, <1>8
      <4> QED  BY <4>1, <3>1, <1>6, <1>10
    <3>3. CASE Node(t, i, y) = E
      <4>1. q.begin = x /\ q.end = y + 1
        BY <1>4, <1>19, <2>7, <3>3
      <4>2. ASSUME NEW p \in lo .. hi - 1 PROVE In(p) <=> p \in x .. (y + 1) - 1
        <5>1. p \in x .. (y + 1) - 1 <=> x <= p /\ p <= y
          BY <2>1, <3>1, <1>1
        <5>2. CASE p < y
          <6>1. x <= p => p \in x .. y - 1
            BY <5>2, <2>1, <3>1, <1>1
          <6> QED  BY <6>1, <5>1, <5>2, <2>1, <2>4, <3>1, <1>1, <1>6, <1>10
        <5>3. CASE p = y
          BY <5>1, <5>3, <2>4, <3>1, <3>3, <1>1, <1>6
        <5>4. CASE y < p
          BY <5>1, <5>4, <2>4, <3>1, <3>2, <1>1, <1>6, <1>10
        <5> QED  BY <5>2, <5>3, <5>4, <3>1, <1>1
      <4>3. x <= y + 1 /\ y + 1 \in lo .. hi /\ x \in lo .. hi
        BY <2>1, <3>1, <1>1
      <4> QED  BY <4>1, <4>2, <4>3
    <3>4. CASE Node(t, i, y) # E
      <4>1. q.begin = x /\ q.end = y
        BY <1>4, <1>19, <2>7, <3>4
      <4>2. ASSUME NEW p \in lo .. hi - 1 PROVE In(p) <=> p \in x .. y - 1
        <5>1. p \in x .. y - 1 <=> x <= p /\ p < y
          BY <2>1, <3>1, <1>1
        <5>2. CASE p < y
          <6>1. x <= p => p \in x .. y - 1
            BY <5>2, <2>1, <3>1, <1>1
          <6> QED  BY <6>1, <5>1, <5>2, <2>1, <2>4, <3>1, <1>1, <1>6, <1>10
        <5>3. CASE p = y
          <6>1. ~(Node(t, i, p) <= E)
            BY <5>3, <3>1, <3>4, <1>6, <1>10
          <6> QED  BY <6>1, <5>1, <5>3, <2>4, <3>1, <1>1
        <5>4. CASE y < p
          BY <5>1, <5>4, <2>4, <3>1, <3>2, <1>1, <1>6, <1>10
        <5> QED  BY <5>2, <5>3, <5>4, <3>1, <1>1
      <4>3. x <= y /\ y \in lo .. hi /\ x \in lo .. hi
        BY <2>1, <3>1, <1>1
      <4> QED  BY <4>1, <4>2, <4>3
    <3> QED  BY <3>3, <3>4
  <2> QED  BY <2>5, <2>6, <2>7
<1> QED  BY <1>17, <1>18, <1>19

-----------------------------------------------------------------------------
\* All of the trie.
TrieHolds(t, b, L, strings, n) ==
    /\ Tree(b, L, strings, n)
    /\ Len(t.nodes[0]) = Size(b, 0) /\ Siblings(t, b, 0, 0, Size(b, 0))
    /\ \A i \in 0 .. L - 2 : \A p \in 1 .. Size(b, i) :
          /\ Siblings(t, b, i + 1, ChildAt(b, i, p), ChildAt(b, i, p + 1))
          /\ t.pointers[i][p] = ChildAt(b, i, p) /\ t.pointers[i][p + 1] = ChildAt(b, i, p + 1)
    /\ \A i \in 0 .. L - 1 : \A p \in 0 .. Size(b, i) - 1 :
          FirstBelow(t, i, p) = FirstOf(b, i, p + 1) /\ PastBelow(t, i, p) = LastOf(b, i, p + 1) + 1

LEMMA TrieGrown ==
    ASSUME NEW strings, Ordered(strings), Spelled(strings)
    PROVE  \E b : TrieHolds(Trie(strings), b, Levels(strings), strings, Len(strings))
<1> DEFINE t == Trie(strings)
           L == Levels(strings)
           n == Len(strings)
<1>1. PICK b : t = TrieOf(b) /\ Shape(b, L, strings, n) /\ Tree(b, L, strings, n)
  BY TrieIs
<1>2. L \in Nat \ {0, 1}
  BY LevelsIs
<1>3. n \in Nat \ {0} /\ strings[n] \in Texts /\ Len(strings[n]) \in Nat
  <2>1. Len(strings) \in Nat \ {0} /\ \A x \in 1 .. Len(strings) : strings[x] \in Texts
    BY OrderedIs
  <2>2. n \in 1 .. n
    BY <2>1
  <2>3. strings[n] \in Texts
    BY <2>1, <2>2
  <2> QED  BY <2>1, <2>3, LenText
<1>4. /\ DOMAIN b.nodes = 0 .. L - 1 /\ DOMAIN b.ends = 0 .. L - 1
  BY <1>1 DEF Shape
<1>5. /\ \A i \in 0 .. L - 1 : Nodes(b, i, n)
      /\ \A i \in 0 .. L - 2 : Kids(b, i)
  BY <1>1 DEF Tree
<1>6. /\ t.pointers = PointersOf(b)
      /\ t.nodes = [i \in DOMAIN b.nodes |->
                       IF i = 0 THEN b.nodes[i] ELSE Summed(b.nodes[i], PointersOf(b)[i - 1])]
      /\ t.lefts = b.lefts
      /\ t.sizes = [i \in DOMAIN b.ends |-> Sizes(b.lefts[i], EndOf(b, i))]
  BY <1>1 DEF TrieOf
<1> HIDE DEF t, L, n
<1>7. t.nodes[0] = b.nodes[0]
  <2>1. 0 \in 0 .. L - 1
    BY <1>2
  <2> QED  BY <2>1, <1>4, <1>6
<1>8. \A i \in 0 .. L - 2 : t.nodes[i + 1] = Summed(b.nodes[i + 1], PointersOf(b)[i])
  <2> SUFFICES ASSUME NEW i \in 0 .. L - 2
               PROVE  t.nodes[i + 1] = Summed(b.nodes[i + 1], PointersOf(b)[i])
    OBVIOUS
  <2>1. i + 1 \in 0 .. L - 1 /\ i + 1 # 0 /\ (i + 1) - 1 = i
    BY <1>2
  <2> QED  BY <2>1, <1>4, <1>6
<1>9. \A i \in 0 .. L - 1 : t.sizes[i] = Sizes(b.lefts[i], EndOf(b, i))
  BY <1>4, <1>6
<1>10. Len(t.nodes[0]) = Size(b, 0) /\ Siblings(t, b, 0, 0, Size(b, 0))
  <2>1. Nodes(b, 0, n)
    <3>1. 0 \in 0 .. L - 1
      BY <1>2
    <3> QED  BY <3>1, <1>5
  <2>2. Len(t.nodes[0]) = Size(b, 0)
    BY <1>7 DEF Size
  <2> QED  BY <2>1, <2>2, <1>7, RootsHeld
<1>11. ASSUME NEW i \in 0 .. L - 2, NEW p \in 1 .. Size(b, i)
       PROVE  /\ Siblings(t, b, i + 1, ChildAt(b, i, p), ChildAt(b, i, p + 1))
              /\ t.pointers[i][p] = ChildAt(b, i, p) /\ t.pointers[i][p + 1] = ChildAt(b, i, p + 1)
  <2> HIDE DEF Size, ChildAt
  <2>1. Siblings(t, b, i + 1, ChildAt(b, i, p), ChildAt(b, i, p + 1))
    BY <1>1, <1>2, <1>3, <1>5, <1>8, SiblingsHeld
  <2>2. \A x \in 1 .. Size(b, i) + 1 : PointersOf(b)[i][x] = ChildAt(b, i, x)
    BY <1>1, <1>2, <1>3, <1>5, PointersOfIs
  <2>3. p \in 1 .. Size(b, i) + 1 /\ p + 1 \in 1 .. Size(b, i) + 1
    <3>1. i \in 0 .. L - 1
      BY <1>2
    <3>2. Size(b, i) \in Nat
      BY <3>1, <1>5 DEF Nodes
    <3> QED  BY <3>2
  <2> QED  BY <2>1, <2>2, <2>3, <1>6
<1>12. ASSUME NEW i \in 0 .. L - 1, NEW p \in 0 .. Size(b, i) - 1
       PROVE  FirstBelow(t, i, p) = FirstOf(b, i, p + 1) /\ PastBelow(t, i, p) = LastOf(b, i, p + 1) + 1
  <2>1. L \in Nat /\ Nodes(b, i, n) /\ t.sizes[i] = Sizes(b.lefts[i], EndOf(b, i))
        /\ t.lefts = b.lefts /\ Shape(b, L, strings, n)
    BY <1>1, <1>2, <1>5, <1>6, <1>9
  <2> HIDE DEF Size, FirstBelow, PastBelow, FirstOf, LastOf
  <2> QED  BY <2>1, <1>3, BelowIs
<1>13. TrieHolds(t, b, L, strings, n)
  <2> HIDE DEF Size, ChildAt, FirstOf, LastOf
  <2> QED  BY <1>1, <1>10, <1>11, <1>12 DEF TrieHolds
<1> QED  BY <1>13 DEF t, L, n

-----------------------------------------------------------------------------
(***************************************************************************)
(* The way down from the first level.                                      *)
(***************************************************************************)
BelowOf(t, sought, r, i) ==
    LET pos == FindTerm(t, i - 1, r, sought[i])
    IN  IF IsInvalid(r) \/ pos = NotFound THEN InvalidRange
        ELSE [begin |-> t.pointers[i - 1][pos + 1], end |-> t.pointers[i - 1][pos + 2]]

DescendedTo(R, t, sought, n) ==
    R = [i \in 0 .. n |-> IF i = 0 THEN [begin |-> 0, end |-> Len(t.nodes[0])]
                          ELSE BelowOf(t, sought, R[i - 1], i)]

LEMMA DescentExists ==
    ASSUME NEW t, NEW sought, NEW n \in Nat
    PROVE  \E A : DescendedTo(A, t, sought, n)
<1> DEFINE S == {i \in Nat : \E A : DescendedTo(A, t, sought, i)}
           Start == [begin |-> 0, end |-> Len(t.nodes[0])]
<1>1. 0 \in S
  <2> DEFINE A == [i \in 0 .. 0 |-> Start]
  <2>1. A = [i \in 0 .. 0 |-> IF i = 0 THEN Start ELSE BelowOf(t, sought, A[i - 1], i)]
    OBVIOUS
  <2> QED  BY <2>1 DEF DescendedTo
<1>2. ASSUME NEW i \in Nat, i \in S PROVE i + 1 \in S
  <2>1. PICK A : DescendedTo(A, t, sought, i)
    BY <1>2
  <2> DEFINE Step(F, j) == IF j = 0 THEN Start ELSE BelowOf(t, sought, F[j - 1], j)
             B == [j \in 0 .. i + 1 |-> IF j <= i THEN A[j] ELSE Step(A, j)]
  <2>2. A = [j \in 0 .. i |-> Step(A, j)]
    BY <2>1 DEF DescendedTo
  <2>3. \A j \in 0 .. i : A[j] = Step(A, j)
    BY <2>2
  <2>4. \A j \in 0 .. i + 1 : B[j] = Step(B, j)
    <3> SUFFICES ASSUME NEW j \in 0 .. i + 1 PROVE B[j] = Step(B, j)
      OBVIOUS
    <3>1. B[j] = Step(A, j)
      BY <2>3
    <3>2. CASE j = 0
      BY <3>1, <3>2
    <3>3. CASE j # 0
      <4>1. j - 1 \in 0 .. i + 1 /\ j - 1 <= i
        BY <3>3
      <4>2. B[j - 1] = A[j - 1]
        BY <4>1
      <4> QED  BY <3>1, <4>2, <3>3
    <3> QED  BY <3>2, <3>3
  <2>5. B = [j \in 0 .. i + 1 |-> Step(B, j)]
    <3>1. B = [j \in 0 .. i + 1 |-> B[j]]
      OBVIOUS
    <3> HIDE DEF B, Step
    <3> QED  BY <3>1, <2>4, Zenon
  <2>6. DescendedTo(B, t, sought, i + 1)
    BY <2>5 DEF DescendedTo
  <2> QED  BY <2>6
<1>3. Nat \subseteq S
  <2> HIDE DEF S
  <2> QED  BY <1>1, <1>2, Everywhere
<1> QED  BY <1>3

LEMMA ChildrenAre ==
    ASSUME NEW t, NEW sought, Len(sought) \in Nat
    PROVE  \E R : /\ Children(t, sought) = R[Len(sought)]
                  /\ R[0] = [begin |-> 0, end |-> Len(t.nodes[0])]
                  /\ \A i \in 1 .. Len(sought) : R[i] = BelowOf(t, sought, R[i - 1], i)
<1> DEFINE n == Len(sought)
           Start == [begin |-> 0, end |-> Len(t.nodes[0])]
           Eq(A) == A = [i \in 0 .. Len(sought) |->
                            IF i = 0 THEN [begin |-> 0, end |-> Len(t.nodes[0])]
                            ELSE IF IsInvalid(A[i - 1])
                                    \/ FindTerm(t, i - 1, A[i - 1], sought[i]) = NotFound
                            THEN InvalidRange
                            ELSE [begin |-> t.pointers[i - 1][FindTerm(t, i - 1, A[i - 1], sought[i]) + 1],
                                  end |-> t.pointers[i - 1][FindTerm(t, i - 1, A[i - 1], sought[i]) + 2]]]
           K == CHOOSE A : Eq(A)
<1>1. \E A : Eq(A)
  <2>1. PICK A : DescendedTo(A, t, sought, n)
    BY DescentExists
  <2>2. Eq(A)
    BY <2>1 DEF DescendedTo, BelowOf
  <2> HIDE DEF Eq
  <2> QED  BY <2>2
<1>2. Eq(K)
  <2> HIDE DEF Eq
  <2> QED  BY <1>1, Zenon
<1>3. Children(t, sought) = K[n]
  BY DEF Children
<1> HIDE DEF K
<1>4. DescendedTo(K, t, sought, n)
  BY <1>2 DEF DescendedTo, BelowOf
<1> HIDE DEF Eq
<1>5. \A i \in 0 .. n : K[i] = IF i = 0 THEN Start ELSE BelowOf(t, sought, K[i - 1], i)
  BY <1>4, Zenon DEF DescendedTo
<1>6. K[0] = Start
  BY <1>5
<1>7. \A i \in 1 .. n : K[i] = BelowOf(t, sought, K[i - 1], i)
  BY <1>5
<1> QED  BY <1>3, <1>6, <1>7

\* A string that begins with the first i symbols of the prefix, and where the
\* descent is after as many.
Begun(s, sought, i) == i <= Len(s) /\ \A j \in 1 .. i : s[j] = sought[j]

Whole(strings, n, sought, i, from, to) ==
    \A g \in 0 .. n - 1 : from <= g /\ g <= to <=> Begun(strings[g + 1], sought, i)

Reached(t, b, L, strings, n, sought, i, r) ==
    \/ r = InvalidRange /\ \A g \in 0 .. n - 1 : ~Begun(strings[g + 1], sought, i)
    \/ /\ i <= L - 1 /\ r.begin <= r.end /\ Siblings(t, b, i, r.begin, r.end)
       /\ \E from \in Nat, to \in Nat :
             /\ to < n /\ Family(b, i, r.begin, r.end, from, to)
             /\ Whole(strings, n, sought, i, from, to)

LEMMA SpelledIs ==
    ASSUME NEW strings, Ordered(strings), Spelled(strings), NEW g \in 0 .. Len(strings) - 1
    PROVE  LET s == strings[g + 1]
           IN  /\ Len(s) \in Nat \ {0} /\ Len(s) <= Levels(strings) - 1
               /\ \A i \in Nat : i < Len(s) => s[i + 1] \in Nat \ {0} /\ Sym(s, i) = s[i + 1]
               /\ \A i \in Nat : ~(i < Len(s)) => Sym(s, i) = 0
<1> DEFINE s == strings[g + 1]
<1>1. Len(strings) \in Nat /\ g + 1 \in 1 .. Len(strings)
  BY OrderedIs
<1>2. Len(s) \in Nat /\ Len(s) <= Levels(strings) - 1
  BY <1>1, LevelsIs
<1>3. Len(s) > 0 /\ \A i \in 1 .. Len(s) : s[i] \in Nat \ {0}
  BY <1>1 DEF Spelled
<1> HIDE DEF s
<1>4. ASSUME NEW i \in Nat, i < Len(s) PROVE s[i + 1] \in Nat \ {0} /\ Sym(s, i) = s[i + 1]
  <2>1. i + 1 \in 1 .. Len(s)
    BY <1>2, <1>4
  <2> QED  BY <2>1, <1>3, <1>4 DEF Sym
<1>5. ASSUME NEW i \in Nat, ~(i < Len(s)) PROVE Sym(s, i) = 0
  BY <1>5 DEF Sym, Terminator
<1> QED  BY <1>2, <1>3, <1>4, <1>5 DEF s

\* The node a completion passes on a level it shares with a family.
OnNode(b, i, strings, lo, hi, g) ==
    \E d \in lo + 1 .. hi :
        /\ d \in 1 .. Size(b, i) /\ FirstOf(b, i, d) <= g /\ g <= LastOf(b, i, d)
        /\ NodeAt(b, i, d) = Sym(strings[g + 1], i)

LEMMA NodeOn ==
    ASSUME NEW b, NEW i, NEW strings, NEW n, Nodes(b, i, n), Spells(b, strings, i),
           NEW lo \in Nat, NEW hi \in Nat, hi <= Size(b, i), NEW from \in Nat, NEW to \in Nat,
           Family(b, i, lo, hi, from, to), NEW g \in from .. to
    PROVE  OnNode(b, i, strings, lo, hi, g)
<1> HIDE DEF Size, FirstOf, LastOf, NodeAt, Sym
<1>1. PICK d \in lo + 1 .. hi : FirstOf(b, i, d) <= g /\ g <= LastOf(b, i, d)
  BY DEF Family
<1>2. d \in 1 .. Size(b, i)
  BY DEF Nodes
<1>3. FirstOf(b, i, d) \in Nat /\ LastOf(b, i, d) \in Nat
  BY <1>2 DEF Nodes
<1>4. g \in FirstOf(b, i, d) .. LastOf(b, i, d)
  BY <1>1, <1>3
<1>5. NodeAt(b, i, d) = Sym(strings[g + 1], i)
  BY <1>2, <1>4 DEF Spells
<1> QED  BY <1>1, <1>2, <1>5 DEF OnNode

LEMMA BegunNext ==
    ASSUME NEW s, Len(s) \in Nat, NEW sought, NEW i \in Nat
    PROVE  Begun(s, sought, i + 1) <=> Begun(s, sought, i) /\ i < Len(s) /\ s[i + 1] = sought[i + 1]
<1>1. \A j \in 1 .. i + 1 : j \in 1 .. i \/ j = i + 1
  OBVIOUS
<1>2. (\A j \in 1 .. i : j \in 1 .. i + 1) /\ i + 1 \in 1 .. i + 1
  OBVIOUS
<1>3. i + 1 <= Len(s) <=> i < Len(s)
  OBVIOUS
<1> QED  BY <1>1, <1>2, <1>3 DEF Begun

LEMMA Descends1 ==
    ASSUME NEW strings, Ordered(strings), Spelled(strings), NEW t, NEW b,
           TrieHolds(t, b, Levels(strings), strings, Len(strings)),
           NEW sought, NEW i \in Nat, sought[i + 1] \in Nat \ {0}, NEW r,
           Reached(t, b, Levels(strings), strings, Len(strings), sought, i, r)
    PROVE  Reached(t, b, Levels(strings), strings, Len(strings), sought, i + 1,
                   BelowOf(t, sought, r, i + 1))
<1> DEFINE L == Levels(strings)
           n == Len(strings)
           term == sought[i + 1]
           pos == FindTerm(t, i, r, term)
           o == BelowOf(t, sought, r, i + 1)
<1>1. o = IF IsInvalid(r) \/ pos = NotFound THEN InvalidRange
          ELSE [begin |-> t.pointers[i][pos + 1], end |-> t.pointers[i][pos + 2]]
  <2>1. (i + 1) - 1 = i
    OBVIOUS
  <2> QED  BY <2>1 DEF BelowOf
<1>2. L \in Nat \ {0, 1} /\ n \in Nat \ {0}
  BY LevelsIs, OrderedIs
<1>3. \A g \in 0 .. n - 1 :
         /\ Len(strings[g + 1]) \in Nat \ {0} /\ Len(strings[g + 1]) <= L - 1
         /\ \A j \in Nat : j < Len(strings[g + 1]) =>
               strings[g + 1][j + 1] \in Nat \ {0} /\ Sym(strings[g + 1], j) = strings[g + 1][j + 1]
         /\ \A j \in Nat : ~(j < Len(strings[g + 1])) => Sym(strings[g + 1], j) = 0
  BY SpelledIs
<1>4. \A g \in 0 .. n - 1 :
         Begun(strings[g + 1], sought, i + 1) <=>
             /\ Begun(strings[g + 1], sought, i)
             /\ i < Len(strings[g + 1]) /\ strings[g + 1][i + 1] = term
  <2> SUFFICES ASSUME NEW g \in 0 .. n - 1
               PROVE  Begun(strings[g + 1], sought, i + 1) <=>
                          /\ Begun(strings[g + 1], sought, i)
                          /\ i < Len(strings[g + 1]) /\ strings[g + 1][i + 1] = term
    OBVIOUS
  <2> DEFINE s == strings[g + 1]
  <2>1. Len(s) \in Nat
    BY <1>3
  <2> HIDE DEF s
  <2>2. Begun(s, sought, i + 1) <=> Begun(s, sought, i) /\ i < Len(s) /\ s[i + 1] = sought[i + 1]
    BY <2>1, BegunNext
  <2> QED  BY <2>2 DEF s, term
<1> HIDE DEF L, n, term, pos, o
<1>5. CASE r = InvalidRange /\ \A g \in 0 .. n - 1 : ~Begun(strings[g + 1], sought, i)
  <2>1. IsInvalid(r)
    BY <1>5 DEF IsInvalid, InvalidRange
  <2>2. o = InvalidRange
    BY <2>1, <1>1
  <2>3. \A g \in 0 .. n - 1 : ~Begun(strings[g + 1], sought, i + 1)
    BY <1>4, <1>5
  <2> QED  BY <2>2, <2>3 DEF Reached, n, o
<1>6. ASSUME i <= L - 1, r.begin <= r.end, Siblings(t, b, i, r.begin, r.end),
             NEW from \in Nat, NEW to \in Nat, to < n, Family(b, i, r.begin, r.end, from, to),
             Whole(strings, n, sought, i, from, to)
      PROVE  Reached(t, b, L, strings, n, sought, i + 1, o)
  <2> DEFINE lo == r.begin
             hi == r.end
  <2>1. lo \in Nat /\ hi \in Nat /\ hi <= Size(b, i) /\ ~IsInvalid(r)
    BY <1>6 DEF Siblings, IsInvalid
  <2>2. Nodes(b, i, n) /\ Spells(b, strings, i)
    <3>1. i \in 0 .. L - 1
      BY <1>2, <1>6
    <3> QED  BY <3>1 DEF TrieHolds, Tree, L, n
  <2>3. \/ pos = NotFound /\ \A p \in lo .. hi - 1 : NodeAt(b, i, p + 1) # term
        \/ pos \in lo .. hi - 1 /\ NodeAt(b, i, pos + 1) = term
    <3>1. term \in Nat
      BY DEF term
    <3>2. LET x == FindTerm(t, i, r, term)
          IN  \/ x = NotFound /\ \A p \in lo .. hi - 1 : NodeAt(b, i, p + 1) # term
              \/ x \in lo .. hi - 1 /\ NodeAt(b, i, x + 1) = term
      <4> HIDE DEF NodeAt, FindTerm, Siblings, Family, Nodes
      <4> QED  BY <3>1, <2>2, <1>6, TermFound
    <3> QED  BY <3>2 DEF pos
  <2> HIDE DEF NodeAt, FirstOf, LastOf, Size, Sym, ChildAt
  <2>4. \A g \in 0 .. n - 1 : from <= g /\ g <= to <=> Begun(strings[g + 1], sought, i)
    BY <1>6 DEF Whole
  <2>7. Family(b, i, lo, hi, from, to)
    BY <1>6
  <2> HIDE DEF lo, hi
  <2>8. ASSUME NEW g \in from .. to
        PROVE  OnNode(b, i, strings, lo, hi, g)
    BY <2>1, <2>2, <2>7, <1>6, NodeOn
  <2>5. CASE pos = NotFound /\ \A p \in lo .. hi - 1 : NodeAt(b, i, p + 1) # term
    <3>1. ASSUME NEW g \in 0 .. n - 1, Begun(strings[g + 1], sought, i + 1) PROVE FALSE
      <4>1. /\ Begun(strings[g + 1], sought, i) /\ i < Len(strings[g + 1])
            /\ strings[g + 1][i + 1] = term
        BY <3>1, <1>4
      <4>2. g \in from .. to
        BY <4>1, <2>4
      <4>3. PICK d \in lo + 1 .. hi : NodeAt(b, i, d) = Sym(strings[g + 1], i)
        BY <4>2, <2>8 DEF OnNode
      <4>4. Sym(strings[g + 1], i) = term
        BY <4>1, <1>3
      <4>5. d - 1 \in lo .. hi - 1 /\ (d - 1) + 1 = d
        BY <2>1
      <4> QED  BY <4>3, <4>4, <4>5, <2>5
    <3>2. o = InvalidRange
      BY <2>5, <1>1
    <3> QED  BY <3>1, <3>2 DEF Reached
  <2>6. CASE pos # NotFound
    <3> DEFINE d == pos + 1
               F == FirstOf(b, i, d)
               E == LastOf(b, i, d)
    <3>1. pos \in lo .. hi - 1 /\ NodeAt(b, i, d) = term
      BY <2>3, <2>6
    <3>2. d \in lo + 1 .. hi /\ d \in 1 .. Size(b, i) /\ pos + 2 = d + 1 /\ pos \in Nat
      <4>1. Size(b, i) \in Nat
        BY <2>2 DEF Nodes
      <4> QED  BY <3>1, <4>1, <2>1
    <3> HIDE DEF d
    <3>3. F \in Nat /\ E \in Nat /\ F <= E /\ E < n
      BY <3>2, <2>2 DEF Nodes
    <3>4. from <= F /\ E <= to
      BY <3>2, <2>7 DEF Family
    <3>5. term \in Nat \ {0}
      BY DEF term
    <3>6. \A g \in 0 .. n - 1 : F <= g /\ g <= E => Sym(strings[g + 1], i) = term
      <4> SUFFICES ASSUME NEW g \in 0 .. n - 1, F <= g, g <= E PROVE Sym(strings[g + 1], i) = term
        OBVIOUS
      <4>1. g \in F .. E
        BY <3>3
      <4>2. Sym(strings[g + 1], i) = NodeAt(b, i, d)
        BY <4>1, <3>2, <2>2 DEF Spells
      <4> QED  BY <4>2, <3>1
    <3>7. i \in 0 .. L - 2 /\ i + 1 <= L - 1
      <4>1. F \in 0 .. n - 1
        BY <3>3, <1>2
      <4>2. Sym(strings[F + 1], i) # 0
        BY <4>1, <3>3, <3>5, <3>6
      <4>3. i < Len(strings[F + 1]) /\ Len(strings[F + 1]) <= L - 1 /\ Len(strings[F + 1]) \in Nat
        BY <4>1, <4>2, <1>3
      <4> QED  BY <4>3, <1>2
    <3>8. /\ Siblings(t, b, i + 1, ChildAt(b, i, d), ChildAt(b, i, d + 1))
          /\ t.pointers[i][d] = ChildAt(b, i, d) /\ t.pointers[i][d + 1] = ChildAt(b, i, d + 1)
      BY <3>2, <3>7 DEF TrieHolds, L
    <3>9. o = [begin |-> ChildAt(b, i, d), end |-> ChildAt(b, i, d + 1)]
      <4>1. o = [begin |-> t.pointers[i][d], end |-> t.pointers[i][d + 1]]
        BY <3>2, <2>1, <2>6, <1>1 DEF d
      <4> QED  BY <4>1, <3>8
    <3>10. Kids(b, i) /\ Bred(b, i)
      BY <3>7 DEF TrieHolds, Tree, L
    <3>11. Family(b, i + 1, ChildAt(b, i, d), ChildAt(b, i, d + 1), F, E)
      BY <3>1, <3>2, <3>5, <3>10 DEF Bred, Terminator
    <3>12. ChildAt(b, i, d) <= ChildAt(b, i, d + 1)
      <4>1. d \in 1 .. Size(b, i) + 1 /\ d + 1 \in 1 .. Size(b, i) + 1 /\ d <= d + 1
        <5>1. Size(b, i) \in Nat
          BY <2>2 DEF Nodes
        <5> QED  BY <3>2, <5>1
      <4> QED  BY <4>1, <3>10 DEF Kids
    <3>13. ASSUME NEW g \in 0 .. n - 1
           PROVE  F <= g /\ g <= E <=> Begun(strings[g + 1], sought, i + 1)
      <4>1. ASSUME F <= g, g <= E PROVE Begun(strings[g + 1], sought, i + 1)
        <5>1. from <= g /\ g <= to
          BY <4>1, <3>3, <3>4
        <5>2. Begun(strings[g + 1], sought, i)
          BY <5>1, <2>4
        <5>3. Sym(strings[g + 1], i) = term
          BY <4>1, <3>6
        <5>4. i < Len(strings[g + 1]) /\ strings[g + 1][i + 1] = term
          <6>1. i < Len(strings[g + 1])
            BY <5>3, <3>5, <1>3
          <6> QED  BY <6>1, <5>3, <1>3
        <5> QED  BY <5>2, <5>4, <1>4
      <4>2. ASSUME Begun(strings[g + 1], sought, i + 1) PROVE F <= g /\ g <= E
        <5>1. /\ Begun(strings[g + 1], sought, i) /\ i < Len(strings[g + 1])
              /\ strings[g + 1][i + 1] = term
          BY <4>2, <1>4
        <5>2. g \in from .. to
          BY <5>1, <2>4
        <5>3. PICK e \in lo + 1 .. hi :
                 /\ FirstOf(b, i, e) <= g /\ g <= LastOf(b, i, e)
                 /\ NodeAt(b, i, e) = Sym(strings[g + 1], i)
          BY <5>2, <2>8 DEF OnNode
        <5>4. NodeAt(b, i, e) = term
          BY <5>1, <5>3, <1>3
        <5>5. ~(d < e) /\ ~(e < d)
          <6>1. \A x, y \in lo + 1 .. hi : x < y => NodeAt(b, i, x) < NodeAt(b, i, y)
            BY <2>7 DEF Family
          <6> QED  BY <6>1, <5>4, <3>1, <3>2, <3>5
        <5>6. d = e
          BY <5>5, <3>2, <2>1
        <5> QED  BY <5>3, <5>6
      <4> QED  BY <4>1, <4>2
    <3>14. Whole(strings, n, sought, i + 1, F, E)
      <4> HIDE DEF F, E
      <4> QED  BY <3>13 DEF Whole
    <3>15. o.begin = ChildAt(b, i, d) /\ o.end = ChildAt(b, i, d + 1)
      BY <3>9
    <3> DEFINE j == i + 1
    <3>16. /\ j <= L - 1 /\ o.begin <= o.end /\ Siblings(t, b, j, o.begin, o.end)
           /\ F \in Nat /\ E \in Nat /\ E < n /\ Family(b, j, o.begin, o.end, F, E)
           /\ Whole(strings, n, sought, j, F, E)
      <4> HIDE DEF F, E
      <4> QED  BY <3>3, <3>7, <3>8, <3>11, <3>12, <3>14, <3>15
    <3> HIDE DEF F, E, j
    <3>17. Reached(t, b, L, strings, n, sought, j, o)
      BY <3>16 DEF Reached
    <3> QED  BY <3>17 DEF j
  <2> QED  BY <2>1, <2>3, <2>5, <2>6 DEF NotFound
<1> QED
  <2>1. Reached(t, b, L, strings, n, sought, i, r)
    BY DEF L, n
  <2>2. \/ r = InvalidRange /\ \A g \in 0 .. n - 1 : ~Begun(strings[g + 1], sought, i)
        \/ /\ i <= L - 1 /\ r.begin <= r.end /\ Siblings(t, b, i, r.begin, r.end)
           /\ \E from \in Nat, to \in Nat :
                 /\ to < n /\ Family(b, i, r.begin, r.end, from, to)
                 /\ Whole(strings, n, sought, i, from, to)
    BY <2>1 DEF Reached
  <2> QED  BY <2>2, <1>5, <1>6 DEF L, n, o

LEMMA Descended ==
    ASSUME NEW strings, Ordered(strings), Spelled(strings), NEW t, NEW b,
           TrieHolds(t, b, Levels(strings), strings, Len(strings)),
           NEW sought \in Seq(Nat \ {0})
    PROVE  Reached(t, b, Levels(strings), strings, Len(strings), sought, Len(sought),
                   Children(t, sought))
<1> DEFINE L == Levels(strings)
           n == Len(strings)
           m == Len(sought)
<1>1. m \in Nat /\ \A i \in 1 .. m : sought[i] \in Nat \ {0}
  BY LenProperties, ElementOfSeq
<1>2. PICK R : /\ Children(t, sought) = R[m]
               /\ R[0] = [begin |-> 0, end |-> Len(t.nodes[0])]
               /\ \A i \in 1 .. m : R[i] = BelowOf(t, sought, R[i - 1], i)
  BY <1>1, ChildrenAre
<1>3. L \in Nat \ {0, 1} /\ n \in Nat \ {0}
  BY LevelsIs, OrderedIs
<1>4. TrieHolds(t, b, L, strings, n)
  OBVIOUS
<1> DEFINE Held1(i) == Reached(t, b, Levels(strings), strings, Len(strings), sought, i, R[i])
           S == {i \in Nat : Held1(i)}
<1>5. 0 \in S
  <2> DEFINE r == R[0]
             z == Size(b, 0)
             last == n - 1
  <2>1. \A g \in 0 .. n - 1 : Len(strings[g + 1]) \in Nat
    BY SpelledIs
  <2> HIDE DEF L, n
  <2>2. Nodes(b, 0, n)
    <3>1. 0 \in 0 .. L - 1
      BY <1>3
    <3> QED  BY <3>1, <1>4 DEF TrieHolds, Tree
  <2>3. z \in Nat
    BY <2>2 DEF Nodes
  <2>4. r.begin = 0 /\ r.end = z
    BY <1>2, <1>4 DEF TrieHolds
  <2>5. Siblings(t, b, 0, 0, z) /\ Family(b, 0, 0, z, 0, last)
    <3> HIDE DEF Siblings, Family, Size
    <3> QED  BY <1>4 DEF TrieHolds, Tree
  <2>6. last \in Nat /\ last < n
    BY <1>3
  <2>7. \A g \in 0 .. n - 1 : 0 <= g /\ g <= last <=> Begun(strings[g + 1], sought, 0)
    <3> SUFFICES ASSUME NEW g \in 0 .. n - 1
                 PROVE  0 <= g /\ g <= last <=> Begun(strings[g + 1], sought, 0)
      OBVIOUS
    <3>1. 0 <= g /\ g <= last
      BY <1>3
    <3>2. 0 <= Len(strings[g + 1])
      BY <2>1
    <3>3. Begun(strings[g + 1], sought, 0)
      BY <3>2 DEF Begun
    <3> QED  BY <3>1, <3>3
  <2>8. Whole(strings, n, sought, 0, 0, last)
    <3> HIDE DEF last
    <3> QED  BY <2>7 DEF Whole
  <2>9. 0 <= L - 1 /\ 0 <= z
    BY <1>3, <2>3
  <2>10. Siblings(t, b, 0, r.begin, r.end) /\ Family(b, 0, r.begin, r.end, 0, last) /\ r.begin <= r.end
    <3> HIDE DEF r, z, last
    <3> QED  BY <2>4, <2>5, <2>9
  <2>11. Reached(t, b, L, strings, n, sought, 0, r)
    <3> HIDE DEF r, z, last
    <3> QED  BY <2>6, <2>8, <2>9, <2>10 DEF Reached
  <2> QED  BY <2>11 DEF L, n
<1>6. ASSUME NEW i \in 0 .. m - 1, i \in S PROVE i + 1 \in S
  <2> DEFINE r == R[i]
             j == i + 1
             o == R[j]
  <2>1. j \in 1 .. m /\ j - 1 = i /\ i \in Nat /\ j \in Nat
    BY <1>1
  <2>2. sought[i + 1] \in Nat \ {0}
    BY <1>1, <2>1
  <2>3. o = BelowOf(t, sought, r, i + 1)
    <3>1. R[j] = BelowOf(t, sought, R[j - 1], j)
      BY <1>2, <2>1
    <3> QED  BY <3>1, <2>1
  <2>4. Reached(t, b, Levels(strings), strings, Len(strings), sought, i, r)
    BY <1>6
  <2> HIDE DEF r, o
  <2>5. Reached(t, b, Levels(strings), strings, Len(strings), sought, i + 1,
                BelowOf(t, sought, r, i + 1))
    BY <2>1, <2>2, <2>4, Descends1
  <2>6. Reached(t, b, Levels(strings), strings, Len(strings), sought, j, o)
    BY <2>3, <2>5
  <2> QED  BY <2>1, <2>6 DEF o
<1>7. 0 .. m \subseteq S
  <2> HIDE DEF S, m
  <2> QED  BY <1>1, <1>5, <1>6, UpTo
<1>8. m \in S
  <2> HIDE DEF S
  <2>1. m \in 0 .. m
    BY <1>1
  <2> QED  BY <1>7, <2>1
<1>9. Held1(m)
  <2> HIDE DEF Held1
  <2> QED  BY <1>8
<1> QED  BY <1>9, <1>2

LEMMA GoesOnIs ==
    ASSUME NEW s, Len(s) \in Nat, NEW sought, Len(sought) \in Nat, NEW lex
    PROVE  GoesOn(s, sought, lex) <=>
               /\ Begun(s, sought, Len(sought)) /\ Len(sought) < Len(s)
               /\ s[Len(sought) + 1] \in lex.begin .. lex.end
<1>1. Len(s) > Len(sought) <=> Len(sought) < Len(s)
  OBVIOUS
<1>2. Len(sought) < Len(s) => Len(sought) <= Len(s)
  OBVIOUS
<1> QED  BY <1>1, <1>2 DEF GoesOn, Begun

\* locate_prefix() of the trie finds exactly the completions that begin with
\* the prefix and go on with a term of the range, for every set of completions
\* its builder reads and every threshold of the scan of a level.
THEOREM TrieLocated ==
    ASSUME NEW strings, Ordered(strings), Spelled(strings),
           NEW prefix1 \in Seq(Nat \ {0}), NEW q,
           q.begin \in Nat \ {0}, q.end \in Nat, q.begin <= q.end
    PROVE  LET o == LocatePrefix(Trie(strings), prefix1, q)
           IN  /\ o.begin \in Nat /\ o.end \in Nat
               /\ \A x \in Nat :
                     x \in o.begin .. o.end - 1 <=>
                         x + 1 \in 1 .. Len(strings) /\ GoesOn(strings[x + 1], prefix1, q)
<1> DEFINE t == Trie(strings)
           L == Levels(strings)
           n == Len(strings)
           i == Len(prefix1)
           r == Children(t, prefix1)
           f == FindRange(t, i, r, q)
           o == LocatePrefix(t, prefix1, q)
<1>1. PICK b : TrieHolds(t, b, L, strings, n)
  BY TrieGrown
<1>2. L \in Nat \ {0, 1} /\ n \in Nat \ {0} /\ i \in Nat
  BY LevelsIs, OrderedIs, LenProperties
<1>3. Reached(t, b, L, strings, n, prefix1, i, r)
  <2> HIDE DEF t
  <2> QED  BY <1>1, Descended
<1>4. o = IF IsInvalid(r) \/ f.begin = f.end THEN InvalidRange
          ELSE [begin |-> FirstBelow(t, i, f.begin), end |-> PastBelow(t, i, f.end - 1)]
  BY DEF LocatePrefix
<1>5. \A g \in 0 .. n - 1 :
         /\ Len(strings[g + 1]) \in Nat
         /\ \A j \in Nat : j < Len(strings[g + 1]) => Sym(strings[g + 1], j) = strings[g + 1][j + 1]
         /\ \A j \in Nat : ~(j < Len(strings[g + 1])) => Sym(strings[g + 1], j) = 0
  BY SpelledIs
<1>6. \A g \in 0 .. n - 1 :
         GoesOn(strings[g + 1], prefix1, q) <=>
             Begun(strings[g + 1], prefix1, i) /\ Sym(strings[g + 1], i) \in q.begin .. q.end
  <2> SUFFICES ASSUME NEW g \in 0 .. n - 1
               PROVE  GoesOn(strings[g + 1], prefix1, q) <=>
                          Begun(strings[g + 1], prefix1, i) /\ Sym(strings[g + 1], i) \in q.begin .. q.end
    OBVIOUS
  <2> DEFINE s == strings[g + 1]
  <2>1. Len(s) \in Nat /\ (i < Len(s) => Sym(s, i) = s[i + 1]) /\ (~(i < Len(s)) => Sym(s, i) = 0)
    BY <1>2, <1>5
  <2>2. 0 \notin q.begin .. q.end
    OBVIOUS
  <2> HIDE DEF s
  <2>3. GoesOn(s, prefix1, q) <=> Begun(s, prefix1, i) /\ i < Len(s) /\ s[i + 1] \in q.begin .. q.end
    BY <1>2, <2>1, GoesOnIs
  <2>4. GoesOn(s, prefix1, q) <=> Begun(s, prefix1, i) /\ Sym(s, i) \in q.begin .. q.end
    BY <2>1, <2>2, <2>3
  <2> QED  BY <2>4 DEF s
<1> DEFINE Goes(g) == GoesOn(strings[g + 1], prefix1, q)
<1>7. SUFFICES /\ o.begin \in Nat /\ o.end \in Nat
               /\ \A g \in Nat : g \in o.begin .. o.end - 1 <=> g \in 0 .. n - 1 /\ Goes(g)
  <2>1. \A g \in Nat : g \in 0 .. n - 1 <=> g + 1 \in 1 .. n
    BY <1>2
  <2> HIDE DEF o, t
  <2>2. ASSUME NEW x \in Nat
        PROVE  x \in o.begin .. o.end - 1 <=>
                   x + 1 \in 1 .. Len(strings) /\ GoesOn(strings[x + 1], prefix1, q)
    <3>1. x \in o.begin .. o.end - 1 <=> x \in 0 .. n - 1 /\ Goes(x)
      BY <1>7
    <3> QED  BY <3>1, <2>1
  <2>3. o.begin \in Nat /\ o.end \in Nat
    BY <1>7
  <2> QED  BY <2>2, <2>3 DEF o, t
<1> HIDE DEF t, L, n, r, f, o, Goes
<1>8. ASSUME o = InvalidRange, \A g \in 0 .. n - 1 : ~Goes(g)
      PROVE  /\ o.begin \in Nat /\ o.end \in Nat
             /\ \A g \in Nat : g \in o.begin .. o.end - 1 <=> g \in 0 .. n - 1 /\ Goes(g)
  <2>1. o.begin = 1 /\ o.end = 0
    BY <1>8 DEF InvalidRange
  <2>2. \A g \in Nat : g \notin 1 .. 0 - 1
    OBVIOUS
  <2> QED  BY <2>1, <2>2, <1>8
<1>9. CASE r = InvalidRange /\ \A g \in 0 .. n - 1 : ~Begun(strings[g + 1], prefix1, i)
  <2>1. o = InvalidRange
    BY <1>9, <1>4 DEF IsInvalid, InvalidRange
  <2>2. \A g \in 0 .. n - 1 : ~Goes(g)
    BY <1>6, <1>9 DEF Goes
  <2> QED  BY <2>1, <2>2, <1>8
<1>10. ASSUME i <= L - 1, r.begin <= r.end, Siblings(t, b, i, r.begin, r.end),
              NEW from \in Nat, NEW to \in Nat, to < n, Family(b, i, r.begin, r.end, from, to),
              Whole(strings, n, prefix1, i, from, to)
       PROVE  /\ o.begin \in Nat /\ o.end \in Nat
              /\ \A g \in Nat : g \in o.begin .. o.end - 1 <=> g \in 0 .. n - 1 /\ Goes(g)
  <2> DEFINE lo == r.begin
             hi == r.end
             u == f.begin
             v == f.end
  <2>1. lo \in Nat /\ hi \in Nat /\ hi <= Size(b, i) /\ ~IsInvalid(r) /\ lo <= hi
    BY <1>10 DEF Siblings, IsInvalid
  <2>2. Nodes(b, i, n) /\ Spells(b, strings, i) /\ i \in 0 .. L - 1
    <3>1. i \in 0 .. L - 1
      BY <1>2, <1>10
    <3> QED  BY <3>1, <1>1 DEF TrieHolds, Tree
  <2> HIDE DEF NodeAt, FirstOf, LastOf, Size, Sym, FirstBelow, PastBelow
  <2>3. Family(b, i, lo, hi, from, to) /\ Siblings(t, b, i, lo, hi)
    BY <1>10
  <2>4. \A g \in 0 .. n - 1 : from <= g /\ g <= to <=> Begun(strings[g + 1], prefix1, i)
    BY <1>10 DEF Whole
  <2>5. LET x == FindRange(t, i, r, q)
        IN  /\ x.begin \in lo .. hi /\ x.end \in lo .. hi /\ x.begin <= x.end
            /\ \A p \in lo .. hi - 1 :
                  p \in x.begin .. x.end - 1 <=> NodeAt(b, i, p + 1) \in q.begin .. q.end
    <3>1. q.begin \in Nat /\ q.end \in Nat /\ q.begin <= q.end /\ r.begin = lo /\ r.end = hi
      OBVIOUS
    <3> HIDE DEF lo, hi, FindRange
    <3> QED  BY <3>1, <2>1, <2>2, <2>3, RangeFound
  <2>6. /\ u \in lo .. hi /\ v \in lo .. hi /\ u <= v
        /\ \A p \in lo .. hi - 1 : p \in u .. v - 1 <=> NodeAt(b, i, p + 1) \in q.begin .. q.end
    BY <2>5 DEF f
  <2>7. o = IF u = v THEN InvalidRange
            ELSE [begin |-> FirstBelow(t, i, u), end |-> PastBelow(t, i, v - 1)]
    BY <1>4, <2>1
  <2> HIDE DEF lo, hi, u, v
  <2>8. ASSUME NEW g \in from .. to
        PROVE  OnNode(b, i, strings, lo, hi, g)
    BY <2>1, <2>2, <2>3, NodeOn
  <2>9. ASSUME NEW g \in 0 .. n - 1, Goes(g)
        PROVE  \E d \in u + 1 .. v : FirstOf(b, i, d) <= g /\ g <= LastOf(b, i, d)
    <3>1. Begun(strings[g + 1], prefix1, i) /\ Sym(strings[g + 1], i) \in q.begin .. q.end
      BY <2>9, <1>6 DEF Goes
    <3>2. g \in from .. to
      BY <3>1, <2>4
    <3>3. PICK d \in lo + 1 .. hi :
             /\ FirstOf(b, i, d) <= g /\ g <= LastOf(b, i, d)
             /\ NodeAt(b, i, d) = Sym(strings[g + 1], i)
      BY <3>2, <2>8 DEF OnNode
    <3>4. d - 1 \in lo .. hi - 1 /\ (d - 1) + 1 = d
      BY <2>1
    <3>5. NodeAt(b, i, (d - 1) + 1) \in q.begin .. q.end
      BY <3>1, <3>3, <3>4
    <3>6. d - 1 \in u .. v - 1
      BY <3>4, <3>5, <2>6
    <3>7. d \in u + 1 .. v
      BY <3>6, <2>6, <2>1
    <3> QED  BY <3>3, <3>7
  <2>10. CASE u = v
    <3>1. u + 1 .. v = {}
      BY <2>10, <2>6, <2>1
    <3>2. \A g \in 0 .. n - 1 : ~Goes(g)
      BY <3>1, <2>9
    <3>3. o = InvalidRange
      BY <2>7, <2>10
    <3> QED  BY <3>2, <3>3, <1>8
  <2>11. CASE u # v
    <3> DEFINE d1 == u + 1
               w == v - 1
               F == FirstOf(b, i, d1)
               E == LastOf(b, i, v)
    <3>1. /\ u < v /\ u \in Nat /\ v \in Nat /\ w \in Nat /\ w + 1 = v
          /\ d1 \in lo + 1 .. hi /\ v \in lo + 1 .. hi /\ d1 <= v
      BY <2>1, <2>6, <2>11
    <3>2. Size(b, i) \in Nat
      BY <2>2 DEF Nodes
    <3>3. /\ u \in 0 .. Size(b, i) - 1 /\ w \in 0 .. Size(b, i) - 1
          /\ d1 \in 1 .. Size(b, i) /\ v \in 1 .. Size(b, i)
      BY <3>1, <3>2, <2>1
    <3>4. F \in Nat /\ E \in Nat /\ F <= LastOf(b, i, d1) /\ LastOf(b, i, d1) \in Nat /\ E < n
      BY <3>3, <2>2 DEF Nodes
    <3>5. FirstBelow(t, i, u) = F /\ PastBelow(t, i, w) = E + 1
      <4>1. \A p \in 0 .. Size(b, i) - 1 :
               FirstBelow(t, i, p) = FirstOf(b, i, p + 1) /\ PastBelow(t, i, p) = LastOf(b, i, p + 1) + 1
        BY <1>1, <2>2 DEF TrieHolds
      <4>2. PastBelow(t, i, w) = LastOf(b, i, w + 1) + 1 /\ FirstBelow(t, i, u) = F
        BY <4>1, <3>3
      <4> QED  BY <4>2, <3>1
    <3>6. o.begin = F /\ o.end = E + 1
      BY <2>7, <2>11, <3>5
    <3>7. from <= F /\ E <= to
      BY <3>1, <2>3 DEF Family
    <3>8. \A d, e \in lo + 1 .. hi :
             d < e => LastOf(b, i, d) < FirstOf(b, i, e)
      BY <2>3 DEF Family
    <3>9. \A d \in lo + 1 .. hi :
             /\ d \in Nat /\ FirstOf(b, i, d) \in Nat /\ LastOf(b, i, d) \in Nat
             /\ FirstOf(b, i, d) <= LastOf(b, i, d)
      <4> SUFFICES ASSUME NEW d \in lo + 1 .. hi
                   PROVE  /\ d \in Nat /\ FirstOf(b, i, d) \in Nat /\ LastOf(b, i, d) \in Nat
                          /\ FirstOf(b, i, d) <= LastOf(b, i, d)
        OBVIOUS
      <4>1. d \in 1 .. Size(b, i)
        BY <2>1, <3>2
      <4> QED  BY <4>1, <2>2 DEF Nodes
    <3>10. ASSUME NEW g \in 0 .. n - 1, Goes(g) PROVE F <= g /\ g <= E
      <4>1. PICK d \in u + 1 .. v : FirstOf(b, i, d) <= g /\ g <= LastOf(b, i, d)
        BY <3>10, <2>9
      <4>2. d \in lo + 1 .. hi /\ d1 <= d /\ d <= v
        BY <3>1, <2>1
      <4>3. F <= FirstOf(b, i, d)
        <5>1. CASE d1 = d
          BY <5>1, <3>9, <4>2
        <5>2. CASE d1 < d
          <6>1. LastOf(b, i, d1) < FirstOf(b, i, d)
            BY <5>2, <4>2, <3>1, <3>8
          <6> QED  BY <6>1, <3>4, <3>9, <4>2
        <5> QED  BY <5>1, <5>2, <4>2, <3>1
      <4>4. LastOf(b, i, d) <= E
        <5>1. CASE d = v
          BY <5>1, <3>9, <4>2
        <5>2. CASE d < v
          <6>1. LastOf(b, i, d) < FirstOf(b, i, v) /\ FirstOf(b, i, v) <= E
            BY <5>2, <4>2, <3>1, <3>8, <3>9
          <6> QED  BY <6>1, <3>4, <3>9, <4>2, <3>1
        <5> QED  BY <5>1, <5>2, <4>2, <3>1
      <4> HIDE DEF F, E
      <4> QED  BY <4>1, <4>2, <4>3, <4>4, <3>4, <3>9
    <3>11. ASSUME NEW g \in Nat, F <= g, g <= E PROVE g \in 0 .. n - 1 /\ Goes(g)
      <4>1. g \in 0 .. n - 1 /\ g \in from .. to
        BY <3>11, <3>4, <3>7, <1>2
      <4>2. PICK d \in lo + 1 .. hi :
               /\ FirstOf(b, i, d) <= g /\ g <= LastOf(b, i, d)
               /\ NodeAt(b, i, d) = Sym(strings[g + 1], i)
        BY <4>1, <2>8 DEF OnNode
      <4>3. ~(d < d1)
        <5>1. SUFFICES ASSUME d < d1 PROVE FALSE
          OBVIOUS
        <5>2. LastOf(b, i, d) < F
          BY <5>1, <3>1, <3>8
        <5> HIDE DEF F
        <5> QED  BY <5>2, <4>2, <3>4, <3>9, <3>11
      <4>4. ~(v < d)
        <5>1. SUFFICES ASSUME v < d PROVE FALSE
          OBVIOUS
        <5>2. E < FirstOf(b, i, d)
          BY <5>1, <3>1, <3>8
        <5> HIDE DEF E
        <5> QED  BY <5>2, <4>2, <3>4, <3>9, <3>11
      <4>5. d - 1 \in u .. v - 1 /\ d - 1 \in lo .. hi - 1 /\ (d - 1) + 1 = d
        BY <4>3, <4>4, <3>1, <2>1
      <4>6. NodeAt(b, i, d) \in q.begin .. q.end
        BY <4>5, <2>6
      <4>7. Begun(strings[g + 1], prefix1, i)
        BY <4>1, <2>4
      <4> QED  BY <4>1, <4>2, <4>6, <4>7, <1>6 DEF Goes
    <3> HIDE DEF F, E
    <3>12. \A g \in Nat : g \in o.begin .. o.end - 1 <=> F <= g /\ g <= E
      BY <3>4, <3>6
    <3>13. o.begin \in Nat /\ o.end \in Nat
      BY <3>4, <3>6
    <3> QED  BY <3>10, <3>11, <3>12, <3>13
  <2> QED  BY <2>10, <2>11
<1> QED
  <2>1. \/ r = InvalidRange /\ \A g \in 0 .. n - 1 : ~Begun(strings[g + 1], prefix1, i)
        \/ /\ i <= L - 1 /\ r.begin <= r.end /\ Siblings(t, b, i, r.begin, r.end)
           /\ \E from \in Nat, to \in Nat :
                 /\ to < n /\ Family(b, i, r.begin, r.end, from, to)
                 /\ Whole(strings, n, prefix1, i, from, to)
    BY <1>3 DEF Reached
  <2> QED  BY <2>1, <1>9, <1>10

-----------------------------------------------------------------------------
(***************************************************************************)
(* The members of a sequence that are kept.                                *)
(***************************************************************************)
KeptUpTo(A, s, positions, n) ==
    A = [i \in 0 .. n |-> IF i = 0 THEN <<>>
                          ELSE IF i \in positions THEN Append(A[i - 1], s[i]) ELSE A[i - 1]]

LEMMA KeptExists ==
    ASSUME NEW s, NEW positions, NEW n \in Nat
    PROVE  \E A : KeptUpTo(A, s, positions, n)
<1> DEFINE S == {i \in Nat : \E A : KeptUpTo(A, s, positions, i)}
<1>1. 0 \in S
  <2> DEFINE A == [i \in 0 .. 0 |-> <<>>]
  <2>1. A = [i \in 0 .. 0 |-> IF i = 0 THEN <<>>
                          ELSE IF i \in positions THEN Append(A[i - 1], s[i]) ELSE A[i - 1]]
    OBVIOUS
  <2> QED  BY <2>1 DEF KeptUpTo
<1>2. ASSUME NEW i \in Nat, i \in S PROVE i + 1 \in S
  <2>1. PICK A : KeptUpTo(A, s, positions, i)
    BY <1>2
  <2> DEFINE Step(F, j) == IF j = 0 THEN <<>>
                           ELSE IF j \in positions THEN Append(F[j - 1], s[j]) ELSE F[j - 1]
             B == [j \in 0 .. i + 1 |-> IF j <= i THEN A[j] ELSE Step(A, j)]
  <2>2. A = [j \in 0 .. i |-> Step(A, j)]
    BY <2>1 DEF KeptUpTo
  <2>3. \A j \in 0 .. i : A[j] = Step(A, j)
    BY <2>2
  <2>4. \A j \in 0 .. i + 1 : B[j] = Step(B, j)
    <3> SUFFICES ASSUME NEW j \in 0 .. i + 1 PROVE B[j] = Step(B, j)
      OBVIOUS
    <3>1. B[j] = Step(A, j)
      BY <2>3
    <3>2. CASE j = 0
      BY <3>1, <3>2
    <3>3. CASE j # 0
      <4>1. j - 1 \in 0 .. i + 1 /\ j - 1 <= i
        BY <3>3
      <4>2. B[j - 1] = A[j - 1]
        BY <4>1
      <4> QED  BY <3>1, <4>2, <3>3
    <3> QED  BY <3>2, <3>3
  <2>5. B = [j \in 0 .. i + 1 |-> Step(B, j)]
    <3>1. B = [j \in 0 .. i + 1 |-> B[j]]
      OBVIOUS
    <3> HIDE DEF B, Step
    <3> QED  BY <3>1, <2>4, Zenon
  <2>6. KeptUpTo(B, s, positions, i + 1)
    BY <2>5 DEF KeptUpTo
  <2> QED  BY <2>6
<1>3. Nat \subseteq S
  <2> HIDE DEF S
  <2> QED  BY <1>1, <1>2, Everywhere
<1> QED  BY <1>3

LEMMA KeptIs ==
    ASSUME NEW s, Len(s) \in Nat, NEW positions
    PROVE  \E A : /\ Kept(s, positions) = A[Len(s)] /\ A[0] = <<>>
                  /\ \A i \in 1 .. Len(s) :
                        A[i] = IF i \in positions THEN Append(A[i - 1], s[i]) ELSE A[i - 1]
<1> DEFINE n == Len(s)
           Eq(A) == A = [i \in 0 .. n |->
                            IF i = 0 THEN <<>>
                            ELSE IF i \in positions THEN Append(A[i - 1], s[i]) ELSE A[i - 1]]
           K == CHOOSE A : Eq(A)
<1>1. \E A : Eq(A)
  <2>1. PICK A : KeptUpTo(A, s, positions, n)
    BY KeptExists
  <2>2. Eq(A)
    BY <2>1 DEF KeptUpTo
  <2> HIDE DEF Eq
  <2> QED  BY <2>2
<1>2. Eq(K)
  <2> HIDE DEF Eq
  <2> QED  BY <1>1, Zenon
<1>3. Kept(s, positions) = K[n]
  BY DEF Kept
<1> HIDE DEF K
<1>4. \A i \in 0 .. n : K[i] = IF i = 0 THEN <<>>
                               ELSE IF i \in positions THEN Append(K[i - 1], s[i]) ELSE K[i - 1]
  BY <1>2, Zenon
<1>5. K[0] = <<>>
  BY <1>4
<1>6. \A i \in 1 .. n : K[i] = IF i \in positions THEN Append(K[i - 1], s[i]) ELSE K[i - 1]
  BY <1>4
<1> QED  BY <1>3, <1>5, <1>6

\* What is kept: a sequence of the members at the positions, ...
LEMMA KeptMembers ==
    ASSUME NEW T, NEW s \in Seq(T), NEW positions
    PROVE  /\ Kept(s, positions) \in Seq(T)
           /\ Range(Kept(s, positions)) = {s[i] : i \in {j \in 1 .. Len(s) : j \in positions}}
<1> DEFINE n == Len(s)
           Members(i) == {s[j] : j \in {z \in 1 .. i : z \in positions}}
<1>1. n \in Nat /\ \A i \in 1 .. n : s[i] \in T
  OBVIOUS
<1>2. PICK A : /\ Kept(s, positions) = A[n] /\ A[0] = <<>>
               /\ \A i \in 1 .. n :
                     A[i] = IF i \in positions THEN Append(A[i - 1], s[i]) ELSE A[i - 1]
  BY <1>1, KeptIs
<1> DEFINE S == {i \in Nat : i <= n => A[i] \in Seq(T) /\ Range(A[i]) = Members(i)}
<1>3. 0 \in S
  <2>1. <<>> \in Seq(T) /\ Range(<<>>) = {}
    BY DEF Range
  <2>2. Members(0) = {}
    OBVIOUS
  <2> QED  BY <2>1, <2>2, <1>2
<1>4. ASSUME NEW i \in Nat, i \in S PROVE i + 1 \in S
  <2> SUFFICES ASSUME i + 1 <= n
               PROVE  A[i + 1] \in Seq(T) /\ Range(A[i + 1]) = Members(i + 1)
    OBVIOUS
  <2>1. i + 1 \in 1 .. n /\ (i + 1) - 1 = i
    BY <1>1
  <2>2. A[i + 1] = IF i + 1 \in positions THEN Append(A[i], s[i + 1]) ELSE A[i]
    BY <2>1, <1>2
  <2>3. A[i] \in Seq(T) /\ Range(A[i]) = Members(i)
    BY <1>1, <1>4
  <2>4. CASE i + 1 \in positions
    <3>1. Members(i + 1) = Members(i) \cup {s[i + 1]}
      BY <2>4
    <3>2. s[i + 1] \in T
      BY <2>1, <1>1
    <3> DEFINE t == A[i]
               u == Append(t, s[i + 1])
    <3>3. /\ u \in Seq(T) /\ Len(u) = Len(t) + 1 /\ Len(t) \in Nat
          /\ \A j \in 1 .. Len(t) : u[j] = t[j]
          /\ u[Len(t) + 1] = s[i + 1]
      BY <2>3, <3>2, AppendProperties
    <3>4. Range(t) = {t[j] : j \in 1 .. Len(t)}
      BY <2>3 DEF Range
    <3>5. Range(u) = {u[j] : j \in 1 .. Len(t) + 1}
      <4> HIDE DEF u
      <4>1. DOMAIN u = 1 .. Len(u)
        BY <3>3, LenProperties
      <4> QED  BY <4>1, <3>3 DEF Range
    <3> HIDE DEF t, u
    <3>6. Range(u) = Range(t) \cup {s[i + 1]}
      BY <3>3, <3>4, <3>5
    <3> HIDE DEF Members
    <3> QED  BY <2>2, <2>3, <2>4, <3>1, <3>3, <3>6 DEF t, u
  <2>5. CASE i + 1 \notin positions
    <3>1. Members(i + 1) = Members(i)
      BY <2>5
    <3> HIDE DEF Members
    <3> QED  BY <2>2, <2>3, <2>5, <3>1
  <2> QED  BY <2>4, <2>5
<1>5. Nat \subseteq S
  <2> HIDE DEF S
  <2> QED  BY <1>3, <1>4, Everywhere
<1>6. A[n] \in Seq(T) /\ Range(A[n]) = Members(n)
  <2> HIDE DEF Members, n
  <2> QED  BY <1>5, <1>1
<1> QED  BY <1>2, <1>6

\* ... and when members are mapped, what is kept is mapped.
InStep(s, P, t, Q, G) ==
    \A i \in 1 .. Len(s) : (i \in P <=> i \in Q) /\ (i \in P => G[s[i]] = t[i])

LEMMA KeptMapped ==
    ASSUME NEW T, NEW s \in Seq(T), NEW U, NEW t \in Seq(U), Len(s) = Len(t),
           NEW P, NEW Q, NEW G, InStep(s, P, t, Q, G)
    PROVE  /\ Len(Kept(s, P)) = Len(Kept(t, Q))
           /\ \A j \in 1 .. Len(Kept(s, P)) : Kept(t, Q)[j] = G[Kept(s, P)[j]]
<1> DEFINE n == Len(s)
<1>1. n \in Nat /\ (\A i \in 1 .. n : s[i] \in T /\ t[i] \in U) /\ n = Len(t)
  OBVIOUS
<1>2. PICK A : /\ Kept(s, P) = A[n] /\ A[0] = <<>>
               /\ \A i \in 1 .. n :
                     A[i] = IF i \in P THEN Append(A[i - 1], s[i]) ELSE A[i - 1]
  BY <1>1, KeptIs
<1>9. \A i \in 1 .. n : (i \in P <=> i \in Q) /\ (i \in P => G[s[i]] = t[i])
  BY DEF InStep
<1>3. PICK B : /\ Kept(t, Q) = B[n] /\ B[0] = <<>>
               /\ \A i \in 1 .. n :
                     B[i] = IF i \in Q THEN Append(B[i - 1], t[i]) ELSE B[i - 1]
  BY <1>1, KeptIs
<1> DEFINE Goes(a, b) == /\ a \in Seq(T) /\ b \in Seq(U) /\ Len(a) = Len(b)
                         /\ \A j \in 1 .. Len(a) : b[j] = G[a[j]]
           S == {i \in Nat : i <= n => Goes(A[i], B[i])}
<1>4. 0 \in S
  <2>1. <<>> \in Seq(T) /\ <<>> \in Seq(U) /\ Len(<<>>) = 0
    OBVIOUS
  <2>2. Goes(<<>>, <<>>)
    BY <2>1
  <2>3. A[0] = <<>> /\ B[0] = <<>>
    BY <1>2, <1>3
  <2> HIDE DEF Goes, n
  <2> QED  BY <2>2, <2>3
<1>5. ASSUME NEW i \in Nat, i \in S PROVE i + 1 \in S
  <2> SUFFICES ASSUME i + 1 <= n
               PROVE  Goes(A[i + 1], B[i + 1])
    OBVIOUS
  <2>1. i + 1 \in 1 .. n /\ (i + 1) - 1 = i
    BY <1>1
  <2>2. A[i + 1] = IF i + 1 \in P THEN Append(A[i], s[i + 1]) ELSE A[i]
    BY <2>1, <1>2
  <2>3. B[i + 1] = IF i + 1 \in Q THEN Append(B[i], t[i + 1]) ELSE B[i]
    BY <2>1, <1>3
  <2>4. Goes(A[i], B[i])
    BY <1>1, <1>5
  <2>5. i + 1 \in P <=> i + 1 \in Q
    BY <2>1, <1>9
  <2>6. CASE i + 1 \in P
    <3> DEFINE a == A[i]
               b == B[i]
               c == Append(a, s[i + 1])
               d == Append(b, t[i + 1])
    <3>1. s[i + 1] \in T /\ t[i + 1] \in U /\ G[s[i + 1]] = t[i + 1]
      BY <2>1, <2>6, <1>1, <1>9
    <3>2. a \in Seq(T) /\ b \in Seq(U) /\ Len(a) = Len(b) /\ Len(a) \in Nat
          /\ \A j \in 1 .. Len(a) : b[j] = G[a[j]]
      BY <2>4
    <3>3. /\ c \in Seq(T) /\ Len(c) = Len(a) + 1
          /\ \A j \in 1 .. Len(a) : c[j] = a[j]
          /\ c[Len(a) + 1] = s[i + 1]
      <4> HIDE DEF a
      <4> QED  BY <3>1, <3>2, AppendProperties
    <3>4. /\ d \in Seq(U) /\ Len(d) = Len(b) + 1
          /\ \A j \in 1 .. Len(b) : d[j] = b[j]
          /\ d[Len(b) + 1] = t[i + 1]
      <4> HIDE DEF b
      <4> QED  BY <3>1, <3>2, AppendProperties
    <3>5. A[i + 1] = c /\ B[i + 1] = d
      BY <2>2, <2>3, <2>5, <2>6
    <3> HIDE DEF a, b, c, d
    <3>6. \A j \in 1 .. Len(c) : d[j] = G[c[j]]
      <4> SUFFICES ASSUME NEW j \in 1 .. Len(c) PROVE d[j] = G[c[j]]
        OBVIOUS
      <4>1. CASE j <= Len(a)
        BY <4>1, <3>2, <3>3, <3>4
      <4>2. CASE j = Len(a) + 1
        BY <4>2, <3>1, <3>2, <3>3, <3>4
      <4> QED  BY <4>1, <4>2, <3>2, <3>3
    <3> QED  BY <3>2, <3>3, <3>4, <3>5, <3>6
  <2>7. CASE i + 1 \notin P
    BY <2>2, <2>3, <2>4, <2>5, <2>7
  <2> QED  BY <2>6, <2>7
<1>6. Nat \subseteq S
  <2> HIDE DEF S
  <2> QED  BY <1>4, <1>5, Everywhere
<1>7. Goes(A[n], B[n])
  <2> HIDE DEF Goes, n
  <2> QED  BY <1>6, <1>1
<1>8. Len(A[n]) = Len(B[n]) /\ \A j \in 1 .. Len(A[n]) : B[n][j] = G[A[n][j]]
  BY <1>7
<1> HIDE DEF n
<1> QED  BY <1>2, <1>3, <1>8

\* All members are kept.
LEMMA AllKept ==
    ASSUME NEW T, NEW s \in Seq(T), NEW P, 1 .. Len(s) \subseteq P
    PROVE  Kept(s, P) = s
<1> DEFINE n == Len(s)
<1>1. n \in Nat /\ \A i \in 1 .. n : s[i] \in T
  OBVIOUS
<1>2. PICK A : /\ Kept(s, P) = A[n] /\ A[0] = <<>>
               /\ \A i \in 1 .. n :
                     A[i] = IF i \in P THEN Append(A[i - 1], s[i]) ELSE A[i - 1]
  BY <1>1, KeptIs
<1> DEFINE Start(a, i) == a \in Seq(T) /\ Len(a) = i /\ \A j \in 1 .. i : a[j] = s[j]
           S == {i \in Nat : i <= n => Start(A[i], i)}
<1>3. 0 \in S
  <2>1. <<>> \in Seq(T) /\ Len(<<>>) = 0
    OBVIOUS
  <2>2. Start(<<>>, 0)
    BY <2>1
  <2> HIDE DEF Start, n
  <2> QED  BY <2>2, <1>2
<1>4. ASSUME NEW i \in Nat, i \in S PROVE i + 1 \in S
  <2> SUFFICES ASSUME i + 1 <= n
               PROVE  Start(A[i + 1], i + 1)
    OBVIOUS
  <2>1. i + 1 \in 1 .. n /\ (i + 1) - 1 = i /\ i + 1 \in P
    BY <1>1
  <2> DEFINE a == A[i]
             c == A[i + 1]
  <2>2. c = Append(a, s[i + 1])
    BY <2>1, <1>2
  <2>3. a \in Seq(T) /\ Len(a) = i /\ \A j \in 1 .. i : a[j] = s[j]
    BY <1>1, <1>4
  <2>4. s[i + 1] \in T
    BY <2>1, <1>1
  <2> HIDE DEF a, c
  <2>5. /\ c \in Seq(T) /\ Len(c) = i + 1
        /\ \A j \in 1 .. i : c[j] = a[j]
        /\ c[i + 1] = s[i + 1]
    BY <2>2, <2>3, <2>4, AppendProperties
  <2>6. \A j \in 1 .. i + 1 : c[j] = s[j]
    <3> SUFFICES ASSUME NEW j \in 1 .. i + 1 PROVE c[j] = s[j]
      OBVIOUS
    <3>1. j \in 1 .. i \/ j = i + 1
      OBVIOUS
    <3> QED  BY <3>1, <2>3, <2>5
  <2> QED  BY <2>5, <2>6 DEF c
<1>5. Nat \subseteq S
  <2> HIDE DEF S
  <2> QED  BY <1>3, <1>4, Everywhere
<1>6. Start(A[n], n)
  BY <1>5, <1>1
<1>7. A[n] = [j \in 1 .. n |-> A[n][j]] /\ s = [j \in 1 .. n |-> s[j]]
  BY <1>6, <1>1
<1> QED  BY <1>2, <1>6, <1>7

-----------------------------------------------------------------------------
(***************************************************************************)
(* A collection, and its index.                                            *)
(***************************************************************************)
LEMMA OneToOne ==
    ASSUME NEW n \in Nat, NEW f, {f[i] : i \in 1 .. n} = 0 .. n - 1
    PROVE  \A i, j \in 1 .. n : f[i] = f[j] => i = j
<1> DEFINE S == 1 .. n
           T == 0 .. n - 1
           F == [i \in S |-> f[i]]
<1>1. IsFiniteSet(S) /\ IsFiniteSet(T)
  BY FS_Interval
<1>2. Cardinality(S) = n /\ Cardinality(T) = n
  <2>1. Cardinality(S) = IF 1 > n THEN 0 ELSE n - 1 + 1
    BY FS_Interval
  <2>2. Cardinality(T) = IF 0 > n - 1 THEN 0 ELSE (n - 1) - 0 + 1
    BY FS_Interval
  <2> QED  BY <2>1, <2>2
<1>3. F \in Surjection(S, T)
  BY DEF Surjection
<1>4. F \in Injection(S, T)
  <2> HIDE DEF S, T, F
  <2> QED  BY <1>1, <1>2, <1>3, FS_SurjSameCardinalityImpliesInj
<1>5. \A i, j \in S : F[i] = F[j] => i = j
  BY <1>4 DEF Injection, IsInjective
<1> QED  BY <1>5

LEMMA CollectionIs ==
    ASSUME NEW c \in Collections
    PROVE  LET n == Len(c.terms)
               m == Len(c.completions)
           IN  /\ Ordered(c.terms) /\ Ordered(c.completions)
               /\ n \in Nat \ {0} /\ m \in Nat \ {0} /\ n < InvalidTerm
               /\ DOMAIN c.terms = 1 .. n /\ DOMAIN c.completions = 1 .. m
               /\ DOMAIN c.docids = 1 .. m
               /\ \A i \in 1 .. n : c.terms[i] \in Texts
               /\ \A i \in 1 .. m : /\ c.completions[i] \in Texts
                                    /\ Len(c.completions[i]) \in Nat \ {0}
                                    /\ DOMAIN c.completions[i] = 1 .. Len(c.completions[i])
                                    /\ \A j \in 1 .. Len(c.completions[i]) :
                                          c.completions[i][j] \in 1 .. n
               /\ \A i \in 1 .. m : c.docids[i] \in 0 .. m - 1
               /\ \A i, j \in 1 .. m : c.docids[i] = c.docids[j] => i = j
               /\ \A d \in 0 .. m - 1 : \E i \in 1 .. m : c.docids[i] = d
<1> DEFINE n == Len(c.terms)
           m == Len(c.completions)
<1>1. WellFormed(c)
  BY CollectionsAssumption
<1>2. /\ c.terms \in Seq(Seq(Nat)) /\ c.completions \in Seq(Seq(Nat))
      /\ m > 0 /\ <<>> \notin Range(c.completions)
      /\ Sorted(c.terms) /\ Sorted(c.completions)
      /\ UNION {Range(c.completions[i]) : i \in DOMAIN c.completions} = DOMAIN c.terms
      /\ n < InvalidTerm
      /\ DOMAIN c.docids = DOMAIN c.completions
      /\ Range(c.docids) = 0 .. m - 1
  BY <1>1 DEF WellFormed
<1>3. c.terms \in Seq(Texts) /\ c.completions \in Seq(Texts)
  BY <1>2 DEF Texts
<1>4. n \in Nat /\ m \in Nat \ {0} /\ DOMAIN c.terms = 1 .. n /\ DOMAIN c.completions = 1 .. m
  <2> HIDE DEF Texts
  <2> QED  BY <1>2, <1>3
<1>5. \A i \in 1 .. n : c.terms[i] \in Texts
  BY <1>3, ElementOfSeq
<1>6. \A i \in 1 .. m : /\ c.completions[i] \in Texts
                        /\ Len(c.completions[i]) \in Nat \ {0}
                        /\ DOMAIN c.completions[i] = 1 .. Len(c.completions[i])
  <2> SUFFICES ASSUME NEW i \in 1 .. m
               PROVE  /\ c.completions[i] \in Texts
                      /\ Len(c.completions[i]) \in Nat \ {0}
                      /\ DOMAIN c.completions[i] = 1 .. Len(c.completions[i])
    OBVIOUS
  <2> DEFINE s == c.completions[i]
  <2>1. s \in Texts
    BY <1>3, ElementOfSeq
  <2>2. s \in Range(c.completions)
    BY <1>4 DEF Range
  <2>3. s # <<>>
    BY <2>2, <1>2
  <2> HIDE DEF s
  <2>4. Len(s) \in Nat \ {0} /\ DOMAIN s = 1 .. Len(s)
    BY <2>1, <2>3 DEF Texts
  <2> QED  BY <2>1, <2>4 DEF s
<1>7. \A i \in 1 .. m : \A j \in 1 .. Len(c.completions[i]) : c.completions[i][j] \in 1 .. n
  <2> SUFFICES ASSUME NEW i \in 1 .. m, NEW j \in 1 .. Len(c.completions[i])
               PROVE  c.completions[i][j] \in 1 .. n
    OBVIOUS
  <2>1. c.completions[i][j] \in Range(c.completions[i])
    BY <1>6 DEF Range
  <2>2. i \in DOMAIN c.completions
    BY <1>4
  <2> QED  BY <2>1, <2>2, <1>2, <1>4
<1>8. n # 0
  <2>1. 1 \in 1 .. m
    BY <1>4
  <2>2. 1 \in 1 .. Len(c.completions[1])
    BY <2>1, <1>6
  <2>3. c.completions[1][1] \in 1 .. n
    BY <2>1, <2>2, <1>7
  <2> QED  BY <2>3, <1>4
<1>9. Ordered(c.terms) /\ Ordered(c.completions)
  <2>1. c.terms # <<>> /\ c.completions # <<>>
    BY <1>4, <1>8
  <2> QED  BY <2>1, <1>2, <1>3 DEF Ordered
<1>10. {c.docids[i] : i \in 1 .. m} = 0 .. m - 1
  BY <1>2, <1>4 DEF Range
<1>11. \A i, j \in 1 .. m : c.docids[i] = c.docids[j] => i = j
  <2> HIDE DEF m
  <2> QED  BY <1>4, <1>10, OneToOne
<1>12. /\ \A i \in 1 .. m : c.docids[i] \in 0 .. m - 1
       /\ \A d \in 0 .. m - 1 : \E i \in 1 .. m : c.docids[i] = d
  BY <1>10
<1> HIDE DEF n, m
<1> QED  BY <1>2, <1>4, <1>5, <1>6, <1>7, <1>8, <1>9, <1>11, <1>12 DEF n, m

LEMMA IndexIs ==
    ASSUME collection \in Collections
    PROVE  /\ index.dict = FrontCoded(collection.terms)
           /\ index.lists = FrontCoded(collection.completions)
           /\ index.trie = Trie(collection.completions)
BY DEF index, Indexes, Index

LEMMA BeginsIs ==
    ASSUME NEW s \in Texts, NEW p \in Texts
    PROVE  Seqs!IsPrefix(p, s) <=> Begins(s, p)
<1>1. Len(s) \in Nat /\ Len(p) \in Nat
  BY LenText
<1>2. CASE Len(p) <= Len(s)
  <2>1. SubSeq(p, 1, Len(p)) = SubSeq(s, 1, Len(p)) <=> \A i \in 1 .. Len(p) : p[i] = s[i]
    BY <1>1, <1>2, SameStart
  <2> QED  BY <2>1, <1>2 DEF Seqs!IsPrefix, Begins
<1>3. CASE ~(Len(p) <= Len(s))
  BY <1>3 DEF Seqs!IsPrefix, Begins
<1> QED  BY <1>2, <1>3

\* The terms a dictionary holds, and those it has lost.
LEMMA TermsHeld ==
    ASSUME collection \in Collections
    PROVE  LET n == Len(collection.terms)
           IN  /\ Held(n) \in 1 .. n
               /\ LostTerms = Held(n) + 1 .. n
               /\ DOMAIN collection.terms \ LostTerms = 1 .. Held(n)
               /\ \A i, j \in 1 .. n : collection.terms[i] = collection.terms[j] => i = j
<1> DEFINE n == Len(collection.terms)
<1>1. Ordered(collection.terms) /\ n \in Nat \ {0} /\ DOMAIN collection.terms = 1 .. n
      /\ \A i \in 1 .. n : collection.terms[i] \in Texts
  BY CollectionIs
<1>2. Held(n) \in 1 .. n /\ Lost(n) = Held(n) + 1 .. n
  BY <1>1, Buckets
<1>3. \A i, j \in 1 .. n : i < j => Before(collection.terms[i], collection.terms[j])
  BY <1>1, OrderedIs
<1>4. \A i, j \in 1 .. n : collection.terms[i] = collection.terms[j] => i = j
  <2> SUFFICES ASSUME NEW i \in 1 .. n, NEW j \in 1 .. n, collection.terms[i] = collection.terms[j]
               PROVE  i = j
    OBVIOUS
  <2>1. ~(i < j) /\ ~(j < i)
    BY <1>1, <1>3, NotBeforeItself
  <2> QED  BY <2>1
<1>5. LostTerms = Held(n) + 1 .. n
  BY <1>2 DEF LostTerms
<1>6. DOMAIN collection.terms \ LostTerms = 1 .. Held(n)
  <2> HIDE DEF n
  <2> QED  BY <1>1, <1>2, <1>5
<1> HIDE DEF n
<1> QED  BY <1>2, <1>4, <1>5, <1>6 DEF n

LEMMA CompletionsHeld ==
    ASSUME collection \in Collections
    PROVE  LET m == Len(collection.completions)
           IN  /\ Held(m) \in 1 .. m
               /\ LostCompletions = Held(m) + 1 .. m
               /\ \A i \in 1 .. m : i \notin LostCompletions <=> i <= Held(m)
<1> DEFINE m == Len(collection.completions)
<1>1. m \in Nat \ {0}
  BY CollectionIs
<1>2. Held(m) \in 1 .. m /\ Lost(m) = Held(m) + 1 .. m
  BY <1>1, Buckets
<1>3. LostCompletions = Held(m) + 1 .. m
  BY <1>2 DEF LostCompletions
<1> HIDE DEF m
<1>4. \A i \in 1 .. m : i \notin LostCompletions <=> i <= Held(m)
  BY <1>1, <1>2, <1>3
<1> QED  BY <1>2, <1>3, <1>4 DEF m

-----------------------------------------------------------------------------
(***************************************************************************)
(* The inductive invariant: what is known of each variable in each phase.  *)
(***************************************************************************)
Queries == [kind : Kinds, search : Searches, tokens : Seq(Words), suffix : Words \cup {<<>>}]

Phases == {"idle", "parse", "suffix", "terms", "completions", "found", "answered"}

KnownTokens ==
    {i \in DOMAIN query.tokens :
        \E t \in DOMAIN collection.terms \ LostTerms : collection.terms[t] = query.tokens[i]}

HeldTerms == 1 .. Held(Len(collection.terms))

PrefixKnown ==
    /\ prefix \in Seq(HeldTerms)
    /\ Range(prefix) = {t \in HeldTerms : collection.terms[t] \in Range(query.tokens)}
    /\ Wording(prefix) = Kept(query.tokens, KnownTokens)
    /\ query.search = "prefix" => Wording(prefix) = query.tokens

LexRangeKnown ==
    /\ lexRange.begin \in Nat /\ lexRange.end \in Nat
    /\ lexRange.begin .. lexRange.end =
          {t \in DOMAIN collection.terms : Seqs!IsPrefix(query.suffix, collection.terms[t])}
              \ TermsMissing

\* The completions a prefix query finds, as places counted from 1, ...
Placed ==
    {i \in DOMAIN collection.completions :
        /\ Len(collection.completions[i]) > Len(prefix)
        /\ Seqs!IsPrefix(prefix, collection.completions[i])
        /\ collection.completions[i][Len(prefix) + 1] \in lexRange.begin .. lexRange.end}
    \ CompletionsMissing

RangeKnown ==
    /\ range.begin \in Nat /\ range.end \in Nat
    /\ range.begin .. range.end - 1 = {i - 1 : i \in Placed}

\* ... and those it asks for, or a conjunctive query.
PrefixAnswer ==
    {i \in DOMAIN collection.completions :
        LET completion == collection.completions[i]
            n == Len(query.tokens)
        IN  /\ BeginsWithQuery(completion)
            /\ \A j \in 1 .. n : completion[j] \notin LostTerms
            /\ completion[n + 1] \notin TermsMissing}
    \ CompletionsMissing

ConjunctiveAnswer ==
    {i \in DOMAIN collection.completions :
        LET terms == Range(collection.completions[i])
        IN  /\ \A w \in Range(query.tokens) :
                  \A t \in DOMAIN collection.terms \ LostTerms :
                      collection.terms[t] = w => t \in terms
            /\ \E t \in terms \ TermsMissing :
                  Seqs!IsPrefix(query.suffix, collection.terms[t])}

Wanted == IF query.search = "prefix" THEN PrefixAnswer ELSE ConjunctiveAnswer

DocsOf(places) == {collection.docids[i] : i \in places}

\* The scores are those of the k best of the completions asked for, and they
\* can be decoded.
FoundKnown ==
    /\ scores = [r \in 1 .. Min({k, Cardinality(DocsOf(Wanted))}) |->
                    CHOOSE doc \in DocsOf(Wanted) :
                        Cardinality({d \in DocsOf(Wanted) : d <= doc}) = r]
    /\ query.kind = "trie" \/ Wanted \cap LostCompletions = {}

TypeInv ==
    /\ collection \in Collections /\ query \in Queries
    /\ phase \in Phases /\ k \in 1 .. MaxK

SearchInv ==
    /\ TypeInv
    /\ phase \notin {"found", "answered"} => k = 1 /\ answer = <<>>
    /\ phase \in {"suffix", "terms", "completions", "found"} => PrefixKnown
    /\ phase \in {"terms", "completions", "found"} => LexRangeKnown
    /\ phase = "completions" =>
          query.search = "prefix" /\ lexRange.begin <= lexRange.end /\ RangeKnown
    /\ phase = "found" => FoundKnown
    /\ phase = "answered" => AnsweredBy(Wanted)

LEMMA QueryIs ==
    ASSUME query \in Queries
    PROVE  /\ query.kind \in Kinds /\ query.search \in Searches
           /\ query.tokens \in Seq(Words) /\ query.tokens \in Seq(Texts)
           /\ Len(query.tokens) \in Nat /\ DOMAIN query.tokens = 1 .. Len(query.tokens)
           /\ \A i \in 1 .. Len(query.tokens) : query.tokens[i] \in Texts
           /\ query.suffix \in Texts
<1>1. /\ query.kind \in Kinds /\ query.search \in Searches
      /\ query.tokens \in Seq(Words) /\ query.suffix \in Words \cup {<<>>}
  BY DEF Queries
<1>2. Words \subseteq Texts /\ <<>> \in Texts
  BY WordsAssumption DEF Texts
<1>3. query.tokens \in Seq(Texts)
  BY <1>1, <1>2, SeqMonotonic
<1>4. Len(query.tokens) \in Nat /\ DOMAIN query.tokens = 1 .. Len(query.tokens)
      /\ \A i \in 1 .. Len(query.tokens) : query.tokens[i] \in Texts
  BY <1>3, LenProperties, ElementOfSeq
<1> QED  BY <1>1, <1>2, <1>3, <1>4

\* The identifiers of words.
LEMMA TermIdsAre ==
    ASSUME collection \in Collections, query \in Queries
    PROVE  LET ids == TermIds(query.tokens)
               n == Len(query.tokens)
               h == Held(Len(collection.terms))
           IN  /\ ids \in Seq(Nat) /\ Len(ids) = n /\ DOMAIN ids = 1 .. n
               /\ \A i \in 1 .. n :
                     /\ Known(ids[i]) <=> i \in KnownTokens
                     /\ Known(ids[i]) => ids[i] \in 1 .. h
                                         /\ collection.terms[ids[i]] = query.tokens[i]
<1> DEFINE ids == TermIds(query.tokens)
           n == Len(query.tokens)
           h == Held(Len(collection.terms))
           terms == collection.terms
<1>1. n \in Nat /\ DOMAIN query.tokens = 1 .. n /\ \A i \in 1 .. n : query.tokens[i] \in Texts
  BY QueryIs
<1>2. ids = [i \in 1 .. n |-> Locate(FrontCoded(terms), query.tokens[i])]
  BY <1>1, IndexIs DEF TermIds
<1>3. Ordered(terms) /\ Len(terms) < InvalidTerm /\ Len(terms) \in Nat
  BY CollectionIs
<1>4. h \in 1 .. Len(terms) /\ DOMAIN terms \ LostTerms = 1 .. h
  BY TermsHeld
<1>5. ASSUME NEW i \in 1 .. n
      PROVE  /\ ids[i] \in Nat
             /\ Known(ids[i]) <=> i \in KnownTokens
             /\ Known(ids[i]) => ids[i] \in 1 .. h /\ terms[ids[i]] = query.tokens[i]
  <2> DEFINE t == query.tokens[i]
             id == Locate(FrontCoded(terms), t)
  <2>1. t \in Texts /\ ids[i] = id
    BY <1>1, <1>2
  <2>2. i \in KnownTokens <=> \E x \in 1 .. h : terms[x] = t
    BY <1>1, <1>4 DEF KnownTokens
  <2> HIDE DEF t
  <2>3. /\ \A x \in 1 .. h : terms[x] = t => id = x
        /\ (\A x \in 1 .. h : terms[x] # t) => id = InvalidTerm
    BY <2>1, <1>3, Located
  <2> HIDE DEF id, terms, h
  <2>4. CASE \E x \in 1 .. h : terms[x] = t
    <3>1. PICK x \in 1 .. h : terms[x] = t
      BY <2>4
    <3>2. id = x /\ x < InvalidTerm /\ x \in Nat
      BY <3>1, <2>3, <1>3, <1>4, InvalidTermAssumption DEF terms
    <3>3. id # InvalidTerm
      BY <3>2, InvalidTermAssumption
    <3> QED  BY <3>1, <3>2, <3>3, <2>1, <2>2 DEF Known, t
  <2>5. CASE ~\E x \in 1 .. h : terms[x] = t
    <3>1. id = InvalidTerm
      BY <2>3, <2>5
    <3> QED  BY <3>1, <2>1, <2>2, <2>5, InvalidTermAssumption DEF Known
  <2> QED  BY <2>4, <2>5
<1>6. ids \in Seq(Nat) /\ Len(ids) = n /\ DOMAIN ids = 1 .. n
  <2>1. \A i \in 1 .. n : Locate(FrontCoded(terms), query.tokens[i]) \in Nat
    BY <1>2, <1>5
  <2> HIDE DEF n, ids, terms
  <2> QED  BY <2>1, <1>1, <1>2
<1> HIDE DEF n, ids, h, terms
<1> QED  BY <1>5, <1>6 DEF n, ids, h, terms

\* What the words become.
LEMMA ParsedPrefix ==
    ASSUME collection \in Collections, query \in Queries, NEW p,
           LET ids == TermIds(query.tokens)
           IN  p = Kept(ids, {i \in DOMAIN ids : Known(ids[i])})
    PROVE  /\ p \in Seq(HeldTerms)
           /\ Range(p) = {t \in HeldTerms : collection.terms[t] \in Range(query.tokens)}
           /\ Wording(p) = Kept(query.tokens, KnownTokens)
           /\ (\A i \in DOMAIN query.tokens : Known(TermIds(query.tokens)[i]))
                 => Wording(p) = query.tokens
<1> DEFINE ids == TermIds(query.tokens)
           n == Len(query.tokens)
           P == {i \in DOMAIN ids : Known(ids[i])}
           terms == collection.terms
           tokens == query.tokens
           q == Kept(tokens, KnownTokens)
<1>1. p = Kept(ids, P)
  OBVIOUS
<1>2. /\ ids \in Seq(Nat) /\ Len(ids) = n /\ DOMAIN ids = 1 .. n
      /\ \A i \in 1 .. n :
            /\ Known(ids[i]) <=> i \in KnownTokens
            /\ Known(ids[i]) => ids[i] \in HeldTerms /\ terms[ids[i]] = tokens[i]
  BY TermIdsAre DEF HeldTerms
<1>3. tokens \in Seq(Texts) /\ n \in Nat /\ DOMAIN tokens = 1 .. n
  BY QueryIs
<1>4. \A i \in 1 .. n : i \in P <=> i \in KnownTokens
  BY <1>2
<1>5. \A i, j \in HeldTerms : terms[i] = terms[j] => i = j
  <2>1. HeldTerms \subseteq 1 .. Len(terms)
    BY TermsHeld DEF HeldTerms
  <2> QED  BY <2>1, TermsHeld
<1> HIDE DEF ids, terms, tokens, n, P, q
<1>6. p \in Seq(Nat) /\ Range(p) = {ids[i] : i \in {j \in 1 .. n : j \in P}}
  <2>1. ids \in Seq(Nat)
    BY <1>2
  <2>2. Kept(ids, P) \in Seq(Nat) /\ Range(Kept(ids, P)) = {ids[i] : i \in {j \in 1 .. Len(ids) : j \in P}}
    BY <2>1, KeptMembers
  <2> QED  BY <1>1, <1>2, <2>2
<1>7. \A i \in 1 .. n : i \in P => ids[i] \in HeldTerms /\ terms[ids[i]] = tokens[i]
  BY <1>2, <1>4
<1>8. Range(tokens) = {tokens[i] : i \in 1 .. n}
  BY <1>3 DEF Range
<1>9. Range(p) = {t \in HeldTerms : terms[t] \in Range(tokens)}
  <2>1. ASSUME NEW t \in Range(p) PROVE t \in HeldTerms /\ terms[t] \in Range(tokens)
    BY <2>1, <1>6, <1>7, <1>8
  <2>2. ASSUME NEW t \in HeldTerms, terms[t] \in Range(tokens) PROVE t \in Range(p)
    <3>1. PICK i \in 1 .. n : terms[t] = tokens[i]
      BY <2>2, <1>8
    <3>2. i \in KnownTokens
      <4>1. HeldTerms = DOMAIN terms \ LostTerms
        BY TermsHeld DEF HeldTerms, terms
      <4> QED  BY <3>1, <4>1, <1>3 DEF KnownTokens, terms, tokens
    <3>3. i \in P
      BY <3>2, <1>4
    <3>4. ids[i] = t
      BY <3>1, <3>3, <1>5, <1>7
    <3> QED  BY <3>3, <3>4, <1>6
  <2> QED  BY <2>1, <2>2
<1>10. Len(p) \in Nat /\ DOMAIN p = 1 .. Len(p) /\ p \in Seq(HeldTerms)
  <2>0. p \in Seq(Nat)
    BY <1>6
  <2>1. Len(p) \in Nat /\ DOMAIN p = 1 .. Len(p) /\ p = [i \in 1 .. Len(p) |-> p[i]]
    BY <2>0, LenProperties
  <2>2. \A i \in 1 .. Len(p) : p[i] \in HeldTerms
    BY <2>1, <1>9 DEF Range
  <2> QED  BY <2>1, <2>2, <1>6
<1>11. q \in Seq(Texts)
  BY <1>3, KeptMembers DEF q
<1>12. Len(p) = Len(q) /\ \A j \in 1 .. Len(p) : q[j] = terms[p[j]]
  <2>1. \A i \in 1 .. n : i \in P => terms[ids[i]] = tokens[i]
    BY <1>7
  <2>2. n = Len(tokens)
    BY DEF n, tokens
  <2>3. ids \in Seq(Nat) /\ tokens \in Seq(Texts) /\ Len(ids) = Len(tokens)
    BY <1>2, <1>3, <2>2
  <2>4. \A i \in 1 .. Len(ids) : i \in P <=> i \in KnownTokens
    BY <1>2, <1>4
  <2>5. \A i \in 1 .. Len(ids) : i \in P => terms[ids[i]] = tokens[i]
    BY <1>2, <2>1
  <2>6. InStep(ids, P, tokens, KnownTokens, terms)
    BY <2>4, <2>5 DEF InStep
  <2>7. /\ Len(Kept(ids, P)) = Len(Kept(tokens, KnownTokens))
        /\ \A j \in 1 .. Len(Kept(ids, P)) : Kept(tokens, KnownTokens)[j] = terms[Kept(ids, P)[j]]
    BY <2>3, <2>6, KeptMapped
  <2> QED  BY <2>7, <1>1 DEF q
<1>13. Wording(p) = q
  <2>1. Wording(p) = [j \in 1 .. Len(p) |-> terms[p[j]]]
    BY <1>10 DEF Wording, terms
  <2>2. q = [j \in 1 .. Len(q) |-> q[j]]
    BY <1>11
  <2> QED  BY <2>1, <2>2, <1>12
<1>14. (\A i \in 1 .. n : Known(ids[i])) => q = tokens
  <2> SUFFICES ASSUME \A i \in 1 .. n : Known(ids[i]) PROVE q = tokens
    OBVIOUS
  <2>1. 1 .. Len(tokens) \subseteq KnownTokens
    BY <1>2 DEF n, tokens
  <2> QED  BY <2>1, <1>3, AllKept DEF q
<1>15. (\A i \in DOMAIN tokens : Known(ids[i])) => q = tokens
  BY <1>3, <1>14
<1>16. Wording(p) = Kept(tokens, KnownTokens)
  BY <1>13 DEF q
<1>17. (\A i \in DOMAIN tokens : Known(ids[i])) => Wording(p) = tokens
  BY <1>13, <1>15
<1> QED  BY <1>9, <1>10, <1>16, <1>17 DEF ids, terms, tokens

-----------------------------------------------------------------------------
(***************************************************************************)
(* The completions a prefix query asks for.                                *)
(***************************************************************************)
LEMMA SameWords ==
    ASSUME NEW T, NEW s \in Seq(T), NEW t \in Seq(T)
    PROVE  Seqs!IsPrefix(s, t) <=>
               Len(s) <= Len(t) /\ \A i \in 1 .. Len(s) : t[i] = s[i]
<1> DEFINE n == Len(s)
<1>1. n \in Nat /\ Len(t) \in Nat
  BY LenProperties
<1>2. CASE n <= Len(t)
  <2>1. /\ SubSeq(s, 1, n) \in Seq(T) /\ SubSeq(t, 1, n) \in Seq(T)
        /\ Len(SubSeq(s, 1, n)) = n /\ Len(SubSeq(t, 1, n)) = n
        /\ \A i \in 1 .. n : SubSeq(s, 1, n)[i] = s[i] /\ SubSeq(t, 1, n)[i] = t[i]
    BY <1>1, <1>2
  <2> DEFINE a == SubSeq(s, 1, n)
             b == SubSeq(t, 1, n)
  <2>2. a = b <=> \A i \in 1 .. n : t[i] = s[i]
    <3>1. a = [i \in 1 .. n |-> a[i]] /\ b = [i \in 1 .. n |-> b[i]]
      <4>1. a \in Seq(T) /\ b \in Seq(T) /\ Len(a) = n /\ Len(b) = n
        BY <2>1
      <4> HIDE DEF a, b, n
      <4> QED  BY <4>1
    <3>2. \A i \in 1 .. n : a[i] = s[i] /\ b[i] = t[i]
      BY <2>1
    <3> HIDE DEF a, b, n
    <3> QED  BY <3>1, <3>2
  <2> QED  BY <2>2, <1>2 DEF Seqs!IsPrefix
<1>3. CASE ~(n <= Len(t))
  BY <1>3 DEF Seqs!IsPrefix
<1> QED  BY <1>2, <1>3

LEMMA WordingIs ==
    ASSUME collection \in Collections, NEW i \in 1 .. Len(collection.completions)
    PROVE  LET c == collection.completions[i]
           IN  /\ Wording(c) = [j \in 1 .. Len(c) |-> collection.terms[c[j]]]
               /\ Wording(c) \in Seq(Texts) /\ Len(Wording(c)) = Len(c)
               /\ Len(c) \in Nat \ {0}
<1> DEFINE c == collection.completions[i]
           n == Len(collection.terms)
<1>1. /\ Len(c) \in Nat \ {0} /\ DOMAIN c = 1 .. Len(c)
      /\ \A j \in 1 .. Len(c) : c[j] \in 1 .. n
  BY CollectionIs
<1>2. \A j \in 1 .. n : collection.terms[j] \in Texts
  BY CollectionIs
<1> DEFINE w == Wording(c)
<1>3. w = [j \in 1 .. Len(c) |-> collection.terms[c[j]]]
  BY <1>1 DEF Wording
<1> HIDE DEF c, w, n
<1>4. w \in Seq(Texts) /\ Len(w) = Len(c)
  <2>1. \A j \in 1 .. Len(c) : collection.terms[c[j]] \in Texts
    BY <1>1, <1>2
  <2> HIDE DEF Texts
  <2> QED  BY <2>1, <1>1, <1>3
<1> QED  BY <1>1, <1>3, <1>4 DEF c, w

\* A completion that begins with the query, by its terms.
LEMMA BeginsByTerms ==
    ASSUME collection \in Collections, query \in Queries,
           NEW i \in 1 .. Len(collection.completions)
    PROVE  LET c == collection.completions[i]
               n == Len(query.tokens)
           IN  BeginsWithQuery(c) <=>
                  /\ Len(c) > n
                  /\ \A j \in 1 .. n : collection.terms[c[j]] = query.tokens[j]
                  /\ Seqs!IsPrefix(query.suffix, collection.terms[c[n + 1]])
<1> DEFINE c == collection.completions[i]
           n == Len(query.tokens)
           w == Wording(c)
<1>1. /\ w = [j \in 1 .. Len(c) |-> collection.terms[c[j]]]
      /\ w \in Seq(Texts) /\ Len(w) = Len(c) /\ Len(c) \in Nat \ {0}
  BY WordingIs
<1>2. query.tokens \in Seq(Texts) /\ n \in Nat
  BY QueryIs
<1>3. BeginsWithQuery(c) <=> /\ Len(c) > n
                             /\ Seqs!IsPrefix(query.tokens, w)
                             /\ Seqs!IsPrefix(query.suffix, w[n + 1])
  BY DEF BeginsWithQuery
<1>4. Seqs!IsPrefix(query.tokens, w) <=> n <= Len(w) /\ \A j \in 1 .. n : w[j] = query.tokens[j]
  <2> DEFINE tokens == query.tokens
  <2>1. tokens \in Seq(Texts) /\ w \in Seq(Texts)
    BY <1>1, <1>2
  <2> HIDE DEF w, c, tokens
  <2>2. Seqs!IsPrefix(tokens, w) <=>
            Len(tokens) <= Len(w) /\ \A j \in 1 .. Len(tokens) : w[j] = tokens[j]
    BY <2>1, SameWords
  <2> QED  BY <2>2 DEF tokens
<1>5. \A j \in 1 .. Len(c) : w[j] = collection.terms[c[j]]
  <2> HIDE DEF w, c
  <2> QED  BY <1>1
<1> HIDE DEF w
<1>6. CASE Len(c) > n
  <2> HIDE DEF c, n
  <2>1. \A j \in 1 .. n : w[j] = collection.terms[c[j]]
    BY <1>1, <1>2, <1>5, <1>6
  <2>2. w[n + 1] = collection.terms[c[n + 1]]
    BY <1>1, <1>2, <1>5, <1>6
  <2>3. n <= Len(w)
    BY <1>1, <1>2, <1>6
  <2>4. (\A j \in 1 .. n : w[j] = query.tokens[j]) <=>
            \A j \in 1 .. n : collection.terms[c[j]] = query.tokens[j]
    BY <2>1
  <2>5. BeginsWithQuery(c) <=>
            /\ Len(c) > n
            /\ \A j \in 1 .. n : collection.terms[c[j]] = query.tokens[j]
            /\ Seqs!IsPrefix(query.suffix, collection.terms[c[n + 1]])
    BY <1>3, <1>4, <2>2, <2>3, <2>4
  <2> QED  BY <2>5 DEF c, n
<1>7. CASE ~(Len(c) > n)
  BY <1>3, <1>7
<1> QED  BY <1>6, <1>7

\* With a word that is not known, there are none; ...
LEMMA NoneUnknown ==
    ASSUME collection \in Collections, query \in Queries,
           ~\A i \in DOMAIN query.tokens : Known(TermIds(query.tokens)[i])
    PROVE  PrefixAnswer = {}
<1> SUFFICES ASSUME NEW i \in PrefixAnswer PROVE FALSE
  OBVIOUS
<1> DEFINE c == collection.completions[i]
           n == Len(query.tokens)
<1>1. i \in 1 .. Len(collection.completions)
      /\ BeginsWithQuery(c) /\ \A j \in 1 .. n : c[j] \notin LostTerms
  BY CollectionIs DEF PrefixAnswer
<1>2. Len(c) > n /\ \A j \in 1 .. n : collection.terms[c[j]] = query.tokens[j]
  BY <1>1, BeginsByTerms
<1>3. Len(c) \in Nat /\ n \in Nat /\ \A j \in 1 .. Len(c) : c[j] \in DOMAIN collection.terms
  <2>1. n \in Nat
    BY QueryIs
  <2>2. Len(c) \in Nat /\ \A j \in 1 .. Len(c) : c[j] \in 1 .. Len(collection.terms)
    BY <1>1, CollectionIs
  <2>3. DOMAIN collection.terms = 1 .. Len(collection.terms)
    BY CollectionIs
  <2> QED  BY <2>1, <2>2, <2>3
<1>4. DOMAIN query.tokens = 1 .. n
  BY QueryIs
<1> HIDE DEF c, n
<1>5. \A j \in 1 .. n : c[j] \in DOMAIN collection.terms \ LostTerms
  BY <1>1, <1>2, <1>3
<1>6. \A j \in 1 .. n : j \in KnownTokens
  BY <1>2, <1>4, <1>5 DEF KnownTokens
<1>7. \A j \in 1 .. n : Known(TermIds(query.tokens)[j])
  BY <1>6, TermIdsAre DEF n
<1> QED  BY <1>4, <1>7

\* ... with known words, they are those placed in the range.
LEMMA PlacedAnswer ==
    ASSUME collection \in Collections, query \in Queries, query.search = "prefix",
           PrefixKnown, LexRangeKnown
    PROVE  PrefixAnswer = Placed
<1> DEFINE n == Len(query.tokens)
           N == Len(collection.terms)
           Answers(i) == LET c == collection.completions[i]
                         IN  /\ BeginsWithQuery(c)
                             /\ \A j \in 1 .. n : c[j] \notin LostTerms
                             /\ c[n + 1] \notin TermsMissing
           Goes(i) == LET c == collection.completions[i]
                      IN  /\ Len(c) > Len(prefix)
                          /\ Seqs!IsPrefix(prefix, c)
                          /\ c[Len(prefix) + 1] \in lexRange.begin .. lexRange.end
<1>1. /\ PrefixAnswer = {i \in DOMAIN collection.completions : Answers(i)} \ CompletionsMissing
      /\ Placed = {i \in DOMAIN collection.completions : Goes(i)} \ CompletionsMissing
  BY DEF PrefixAnswer, Placed
<1>2. prefix \in Seq(HeldTerms) /\ Wording(prefix) = query.tokens
  BY DEF PrefixKnown
<1>3. n \in Nat /\ DOMAIN query.tokens = 1 .. n
  BY QueryIs
<1>4. /\ HeldTerms \subseteq 1 .. N /\ HeldTerms \cap LostTerms = {}
      /\ \A i, j \in 1 .. N : collection.terms[i] = collection.terms[j] => i = j
  <2>1. Held(N) \in 1 .. N /\ LostTerms = Held(N) + 1 .. N /\ N \in Nat
    BY TermsHeld, CollectionIs
  <2>2. \A i, j \in 1 .. N : collection.terms[i] = collection.terms[j] => i = j
    BY TermsHeld
  <2> HIDE DEF N
  <2> QED  BY <2>1, <2>2 DEF HeldTerms, N
<1>5. Len(prefix) = n /\ DOMAIN prefix = 1 .. n
      /\ \A j \in 1 .. n : prefix[j] \in HeldTerms /\ collection.terms[prefix[j]] = query.tokens[j]
  <2>1. Len(prefix) \in Nat /\ DOMAIN prefix = 1 .. Len(prefix)
        /\ \A j \in 1 .. Len(prefix) : prefix[j] \in HeldTerms
    BY <1>2, LenProperties, ElementOfSeq
  <2>2. query.tokens = [j \in 1 .. Len(prefix) |-> collection.terms[prefix[j]]]
    BY <1>2, <2>1 DEF Wording
  <2>3. DOMAIN query.tokens = 1 .. Len(prefix)
    BY <2>2
  <2> HIDE DEF n
  <2> DEFINE m == Len(prefix)
  <2>6. m \in Nat /\ n \in Nat /\ 1 .. n = 1 .. m
    BY <2>1, <2>3, <1>3
  <2> HIDE DEF m
  <2>7. n = m
    BY <2>6
  <2>4. n = Len(prefix)
    BY <2>7 DEF m
  <2>5. \A j \in 1 .. Len(prefix) : query.tokens[j] = collection.terms[prefix[j]]
    BY <2>2
  <2> QED  BY <2>1, <2>4, <2>5
<1>6. \A t \in 1 .. N : t \in lexRange.begin .. lexRange.end <=>
         Seqs!IsPrefix(query.suffix, collection.terms[t]) /\ t \notin TermsMissing
  BY CollectionIs DEF LexRangeKnown
<1> HIDE DEF n, N
<1>7. ASSUME NEW i \in DOMAIN collection.completions PROVE Answers(i) <=> Goes(i)
  <2> DEFINE c == collection.completions[i]
  <2>1. i \in 1 .. Len(collection.completions) /\ c \in Seq(Nat) /\ Len(c) \in Nat
        /\ \A j \in 1 .. Len(c) : c[j] \in 1 .. N
    <3> DEFINE m == Len(collection.completions)
    <3>1. /\ m \in Nat \ {0} /\ DOMAIN collection.completions = 1 .. m
          /\ \A x \in 1 .. m : /\ collection.completions[x] \in Texts
                               /\ Len(collection.completions[x]) \in Nat \ {0}
                               /\ \A j \in 1 .. Len(collection.completions[x]) :
                                     collection.completions[x][j] \in 1 .. Len(collection.terms)
      BY CollectionIs
    <3> HIDE DEF m
    <3>2. i \in 1 .. m
      BY <3>1
    <3>3. c \in Texts /\ Len(c) \in Nat \ {0} /\ \A j \in 1 .. Len(c) : c[j] \in 1 .. Len(collection.terms)
      BY <3>1, <3>2
    <3> HIDE DEF c
    <3> QED  BY <3>2, <3>3 DEF Texts, N, m
  <2>2. BeginsWithQuery(c) <=> /\ Len(c) > n
                               /\ \A j \in 1 .. n : collection.terms[c[j]] = query.tokens[j]
                               /\ Seqs!IsPrefix(query.suffix, collection.terms[c[n + 1]])
    BY <2>1, BeginsByTerms DEF n
  <2>3. Seqs!IsPrefix(prefix, c) <=> Len(prefix) <= Len(c) /\ \A j \in 1 .. n : c[j] = prefix[j]
    <3>1. HeldTerms \subseteq Nat
      BY <1>4
    <3>2. prefix \in Seq(Nat)
      BY <3>1, <1>2, SeqMonotonic
    <3> HIDE DEF c
    <3> QED  BY <3>2, <2>1, <1>5, SameWords, SMTT(30)
  <2>4. CASE Len(c) > n
    <3>1. n + 1 \in 1 .. Len(c) /\ \A j \in 1 .. n : j \in 1 .. Len(c)
      BY <2>1, <2>4, <1>3
    <3>2. \A j \in 1 .. n : c[j] \in 1 .. N
      BY <3>1, <2>1
    <3>3. c[n + 1] \in 1 .. N
      BY <3>1, <2>1
    <3> HIDE DEF c
    <3>4. ASSUME NEW j \in 1 .. n
          PROVE  collection.terms[c[j]] = query.tokens[j] /\ c[j] \notin LostTerms <=> c[j] = prefix[j]
      BY <3>2, <1>4, <1>5
    <3>5. Seqs!IsPrefix(query.suffix, collection.terms[c[n + 1]]) /\ c[n + 1] \notin TermsMissing
             <=> c[n + 1] \in lexRange.begin .. lexRange.end
      BY <3>3, <1>6
    <3>6. n <= Len(c)
      BY <2>1, <2>4, <1>3
    <3> QED  BY <3>4, <3>5, <3>6, <2>2, <2>3, <2>4, <1>5 DEF c
  <2>5. CASE ~(Len(c) > n)
    BY <2>2, <2>5, <1>5
  <2> QED  BY <2>4, <2>5
<1> HIDE DEF Answers, Goes
<1> QED  BY <1>1, <1>7

LEMMA NothingAnswered ==
    ASSUME k \in Nat, answer = <<>>
    PROVE  AnsweredBy({})
<1>1. Cardinality({}) = 0
  BY FS_EmptySet
<1>2. Min({k, 0}) = 0
  BY MinOfTwo
<1> QED  BY <1>1, <1>2 DEF AnsweredBy

-----------------------------------------------------------------------------
(***************************************************************************)
(* What steps leave as it is.                                              *)
(***************************************************************************)
LEMMA PrefixKept ==
    ASSUME UNCHANGED <<collection, query, prefix>>, PrefixKnown PROVE PrefixKnown'
BY DEF PrefixKnown, Wording, KnownTokens, HeldTerms, LostTerms

LEMMA LexRangeKept ==
    ASSUME UNCHANGED <<collection, query, lexRange>>, LexRangeKnown PROVE LexRangeKnown'
BY DEF LexRangeKnown, TermsMissing, LostTerms

LEMMA PlacedKept ==
    ASSUME UNCHANGED <<collection, query, prefix, lexRange>> PROVE Placed' = Placed
BY DEF Placed, CompletionsMissing, LostCompletions

LEMMA WantedKept ==
    ASSUME UNCHANGED <<collection, query, prefix, lexRange>> PROVE Wanted' = Wanted
<1>1. LostTerms' = LostTerms /\ LostCompletions' = LostCompletions
  BY DEF LostTerms, LostCompletions
<1>2. TermsMissing' = TermsMissing /\ CompletionsMissing' = CompletionsMissing
  BY <1>1 DEF TermsMissing, CompletionsMissing
<1>3. PrefixAnswer' = PrefixAnswer
  BY <1>1, <1>2 DEF PrefixAnswer, BeginsWithQuery, Wording
<1>4. ConjunctiveAnswer' = ConjunctiveAnswer
  BY <1>1, <1>2 DEF ConjunctiveAnswer
<1> QED  BY <1>3, <1>4 DEF Wanted

LEMMA AnswerKept ==
    ASSUME UNCHANGED <<collection, k, answer>>, NEW S, AnsweredBy(S),
           Wanted' = S
    PROVE  AnsweredBy(Wanted)'
<1>1. LostTerms' = LostTerms
  BY DEF LostTerms
<1>2. \A c : Decoding(c)' = Decoding(c)
  BY <1>1 DEF Decoding
<1>3. AnsweredBy(S)'
  BY <1>2 DEF AnsweredBy
<1>4. Wanted' = S
  OBVIOUS
<1> HIDE DEF Wanted
<1> QED  BY <1>3, <1>4 DEF AnsweredBy

\* A step that ends a search that finds nothing.
LEMMA EndsEmpty ==
    ASSUME SearchInv, Wanted = {}, phase \notin {"found", "answered"}, phase' = "answered",
           UNCHANGED <<collection, query, prefix, lexRange, range, k, scores, answer>>
    PROVE  SearchInv'
<1>1. TypeInv'
  BY DEF SearchInv, TypeInv, Phases
<1>2. k \in Nat /\ answer = <<>>
  BY BoundsAssumption DEF SearchInv
<1>3. AnsweredBy({})
  BY <1>2, NothingAnswered
<1>4. Wanted' = {}
  BY WantedKept
<1>5. AnsweredBy(Wanted)'
  BY <1>3, <1>4, AnswerKept
<1> QED  BY <1>1, <1>5 DEF SearchInv

-----------------------------------------------------------------------------
(***************************************************************************)
(* The invariant is preserved.                                             *)
(***************************************************************************)
LEMMA InitInv ==
    ASSUME Init PROVE SearchInv
<1>1. NoQuery \in Queries
  <2>1. <<>> \in Seq(Words)
    OBVIOUS
  <2> QED  BY <2>1 DEF NoQuery, Queries, Kinds, Searches
<1>2. 1 \in 1 .. MaxK
  BY BoundsAssumption
<1> QED  BY <1>1, <1>2 DEF Init, SearchInv, TypeInv, Phases

LEMMA CallInv ==
    ASSUME SearchInv, Call PROVE SearchInv'
<1>1. query' \in Queries
  <2>1. PICK kind \in Kinds, search \in Searches,
             tokens \in Seqs!SeqOf(Words, MaxTokens), suffix \in Words \cup {<<>>} :
                query' = [kind |-> kind, search |-> search, tokens |-> tokens, suffix |-> suffix]
    BY DEF Call
  <2>2. PICK m \in 0 .. MaxTokens : tokens \in [1 .. m -> Words]
    BY DEF Seqs!SeqOf
  <2>3. tokens \in Seq(Words)
    BY <2>2, BoundsAssumption
  <2> QED  BY <2>1, <2>3 DEF Queries
<1> QED  BY <1>1 DEF Call, SearchInv, TypeInv, Phases

LEMMA ParseFailsInv ==
    ASSUME SearchInv, ParseFails PROVE SearchInv'
<1>1. collection \in Collections /\ query \in Queries
  BY DEF SearchInv, TypeInv
<1>2. Wanted = {}
  BY <1>1, NoneUnknown DEF ParseFails, Wanted
<1> QED  BY <1>2, EndsEmpty DEF ParseFails

LEMMA ParseInv ==
    ASSUME SearchInv, Parse PROVE SearchInv'
<1>1. collection \in Collections /\ query \in Queries /\ k = 1 /\ answer = <<>>
  BY DEF SearchInv, TypeInv, Parse
<1>2. TypeInv'
  BY DEF SearchInv, TypeInv, Parse, Phases
<1>3. LET ids == TermIds(query.tokens)
      IN  prefix' = Kept(ids, {i \in DOMAIN ids : Known(ids[i])})
  BY DEF Parse
<1>4. /\ prefix' \in Seq(HeldTerms)
      /\ Range(prefix') = {t \in HeldTerms : collection.terms[t] \in Range(query.tokens)}
      /\ Wording(prefix') = Kept(query.tokens, KnownTokens)
      /\ (\A i \in DOMAIN query.tokens : Known(TermIds(query.tokens)[i]))
            => Wording(prefix') = query.tokens
  BY <1>1, <1>3, ParsedPrefix
<1>5. query.search = "prefix" => \A i \in DOMAIN query.tokens : Known(TermIds(query.tokens)[i])
  BY DEF Parse
<1>6. query' = query /\ collection' = collection
  BY DEF Parse
<1>7. (HeldTerms)' = HeldTerms /\ (KnownTokens)' = KnownTokens
  BY <1>6 DEF HeldTerms, KnownTokens, LostTerms
<1>8. Wording(prefix)' = Wording(prefix')
  BY <1>6 DEF Wording
<1>9. PrefixKnown'
  BY <1>4, <1>5, <1>6, <1>7, <1>8 DEF PrefixKnown
<1>10. phase' = "suffix" /\ k' = k /\ answer' = answer
  BY DEF Parse
<1> QED  BY <1>1, <1>2, <1>9, <1>10 DEF SearchInv

\* A suffix that no term begins with, but for those missed.
LEMMA NoTermNoMatch ==
    ASSUME collection \in Collections, query \in Queries, LexRangeKnown, IsInvalid(lexRange)
    PROVE  ConjunctiveAnswer = {}
<1> SUFFICES ASSUME NEW i \in ConjunctiveAnswer PROVE FALSE
  OBVIOUS
<1>1. i \in 1 .. Len(collection.completions)
  BY CollectionIs DEF ConjunctiveAnswer
<1>2. PICK t \in Range(collection.completions[i]) \ TermsMissing :
         Seqs!IsPrefix(query.suffix, collection.terms[t])
  BY DEF ConjunctiveAnswer
<1>3. t \in DOMAIN collection.terms
  <2> DEFINE c == collection.completions[i]
  <2>1. DOMAIN c = 1 .. Len(c) /\ \A j \in 1 .. Len(c) : c[j] \in 1 .. Len(collection.terms)
    BY <1>1, CollectionIs
  <2>2. DOMAIN collection.terms = 1 .. Len(collection.terms)
    BY CollectionIs
  <2>3. t \in Range(c)
    BY <1>2
  <2> HIDE DEF c
  <2> QED  BY <2>1, <2>2, <2>3 DEF Range
<1>4. t \in lexRange.begin .. lexRange.end
  BY <1>2, <1>3 DEF LexRangeKnown
<1> QED  BY <1>4 DEF LexRangeKnown, IsInvalid

LEMMA NoTermNoPlace ==
    ASSUME LexRangeKnown, IsInvalid(lexRange)
    PROVE  Placed = {}
<1>1. lexRange.begin .. lexRange.end = {}
  BY DEF LexRangeKnown, IsInvalid
<1> QED  BY <1>1 DEF Placed

LEMMA NoTermsInv ==
    ASSUME SearchInv, NoTerms PROVE SearchInv'
<1>1. /\ collection \in Collections /\ query \in Queries
      /\ PrefixKnown /\ LexRangeKnown /\ IsInvalid(lexRange)
  BY DEF SearchInv, TypeInv, NoTerms
<1>2. Wanted = {}
  <2>1. CASE query.search = "prefix"
    <3>1. PrefixAnswer = {}
      BY <1>1, <2>1, PlacedAnswer, NoTermNoPlace
    <3> QED  BY <2>1, <3>1 DEF Wanted
  <2>2. CASE query.search # "prefix"
    BY <1>1, <2>2, NoTermNoMatch DEF Wanted
  <2> QED  BY <2>1, <2>2
<1> QED  BY <1>2, EndsEmpty DEF NoTerms

LEMMA NoCompletionsInv ==
    ASSUME SearchInv, NoCompletions PROVE SearchInv'
<1>1. /\ collection \in Collections /\ query \in Queries
      /\ PrefixKnown /\ LexRangeKnown /\ RangeKnown /\ IsInvalid(range)
      /\ query.search = "prefix"
  BY DEF SearchInv, TypeInv, NoCompletions
<1>2. Placed = {}
  <2>1. range.begin .. range.end - 1 = {}
    BY <1>1 DEF RangeKnown, IsInvalid
  <2> QED  BY <2>1, <1>1 DEF RangeKnown
<1>3. Wanted = {}
  BY <1>1, <1>2, PlacedAnswer DEF Wanted
<1> QED  BY <1>3, EndsEmpty DEF NoCompletions

\* The range of terms, for a word and for none.
LEMMA SuffixLocated ==
    ASSUME collection \in Collections, query \in Queries
    PROVE  LET r == LocateTerms(index.dict, Len(collection.terms), query.suffix)
               n == Len(collection.terms)
           IN  /\ r.begin \in Nat /\ r.end \in Nat /\ r = [begin |-> r.begin, end |-> r.end]
               /\ \A t \in Nat \ {0} : t \in r.begin + 1 .. r.end + 1 <=>
                     /\ t \in 1 .. n /\ Seqs!IsPrefix(query.suffix, collection.terms[t])
                     /\ t \notin TermsMissing
<1> DEFINE r == LocateTerms(index.dict, Len(collection.terms), query.suffix)
           n == Len(collection.terms)
           h == Held(n)
           p == query.suffix
           strings == collection.terms
<1>1. p \in Texts
  BY QueryIs
<1>2. /\ Ordered(strings) /\ n \in Nat \ {0} /\ DOMAIN strings = 1 .. n
      /\ \A t \in 1 .. n : strings[t] \in Texts
  BY CollectionIs
<1>3. h \in 1 .. n /\ LostTerms = h + 1 .. n
  BY TermsHeld
<1>4. r = LocateTerms(FrontCoded(strings), n, p)
  BY IndexIs
<1>5. \A t \in 1 .. n : Seqs!IsPrefix(p, strings[t]) <=> Begins(strings[t], p)
  BY <1>1, <1>2, BeginsIs
<1>6. CASE p = <<>>
  <2>1. r = [begin |-> 0, end |-> n - 1]
    BY <1>4, <1>6 DEF LocateTerms
  <2>2. TermsMissing = {}
    BY <1>6 DEF TermsMissing
  <2>3. \A t \in 1 .. n : Begins(strings[t], p)
    <3> SUFFICES ASSUME NEW t \in 1 .. n PROVE Begins(strings[t], p)
      OBVIOUS
    <3>1. Len(strings[t]) \in Nat /\ Len(p) = 0
      BY <1>2, <1>6, LenText
    <3> QED  BY <3>1 DEF Begins
  <2>4. \A t \in 1 .. n : Seqs!IsPrefix(p, strings[t])
    BY <1>5, <2>3
  <2> HIDE DEF r, n, strings, p
  <2>5. r.begin = 0 /\ r.end = n - 1
    BY <2>1
  <2>6. \A t \in Nat \ {0} : t \in r.begin + 1 .. r.end + 1 <=> t \in 1 .. n
    BY <2>5, <1>2
  <2>7. r.begin \in Nat /\ r.end \in Nat /\ r = [begin |-> r.begin, end |-> r.end]
    BY <2>1, <2>5, <1>2
  <2> QED  BY <2>2, <2>4, <2>6, <2>7 DEF r, n, strings, p
<1>7. CASE p # <<>>
  <2>1. /\ r.begin \in Nat /\ r.end \in Nat /\ r = [begin |-> r.begin, end |-> r.end]
        /\ \A x \in Nat :
              x \in r.begin .. r.end <=>
                  /\ x + 1 \in 1 .. h
                  /\ Begins(strings[x + 1], p)
                  /\ x = 0 => strings[1] = p
    <3> HIDE DEF strings, p, r
    <3> QED  BY <1>1, <1>2, <1>4, <1>7, TermsLocated DEF n, h
  <2>2. TermsMissing = LostTerms \cup (IF strings[1] = p THEN {} ELSE {1})
    BY <1>7 DEF TermsMissing, PassedOver
  <2>3. ASSUME NEW t \in Nat \ {0}
        PROVE  t \in r.begin + 1 .. r.end + 1 <=>
                  /\ t \in 1 .. n /\ Seqs!IsPrefix(p, strings[t])
                  /\ t \notin TermsMissing
    <3> DEFINE x == t - 1
               a == r.begin
               b == r.end
    <3>1. x \in Nat /\ x + 1 = t /\ (x = 0 <=> t = 1)
      OBVIOUS
    <3>2. x \in a .. b <=> x + 1 \in 1 .. h /\ Begins(strings[x + 1], p) /\ (x = 0 => strings[1] = p)
      BY <2>1, <3>1
    <3>3. a \in Nat /\ b \in Nat
      BY <2>1
    <3> HIDE DEF x, a, b, n, h, strings, p, r
    <3>4. x \in a .. b <=> t \in 1 .. h /\ Begins(strings[t], p) /\ (t = 1 => strings[1] = p)
      BY <3>1, <3>2
    <3>5. t \in a + 1 .. b + 1 <=> x \in a .. b
      BY <3>1, <3>3
    <3>6. t \notin TermsMissing /\ t \in 1 .. n <=> t \in 1 .. h /\ (t = 1 => strings[1] = p)
      BY <2>2, <1>2, <1>3
    <3> QED  BY <3>4, <3>5, <3>6, <1>2, <1>3, <1>5 DEF a, b
  <2> HIDE DEF r, n, strings, p, h
  <2> QED  BY <2>1, <2>3 DEF r, n, strings, p
<1> QED  BY <1>6, <1>7

LEMMA LocateSuffixInv ==
    ASSUME SearchInv, LocateSuffix PROVE SearchInv'
<1> DEFINE r == LocateTerms(index.dict, Len(collection.terms), query.suffix)
           n == Len(collection.terms)
<1>1. collection \in Collections /\ query \in Queries /\ k = 1 /\ answer = <<>> /\ PrefixKnown
  BY DEF SearchInv, TypeInv, LocateSuffix
<1>2. TypeInv'
  BY DEF SearchInv, TypeInv, LocateSuffix, Phases
<1>3. /\ lexRange' = IF IsInvalid(r) THEN r ELSE [begin |-> r.begin + 1, end |-> r.end + 1]
      /\ phase' = "terms" /\ k' = k /\ answer' = answer
      /\ UNCHANGED <<collection, query, prefix>>
  BY DEF LocateSuffix
<1>4. /\ r.begin \in Nat /\ r.end \in Nat
      /\ \A t \in Nat \ {0} : t \in r.begin + 1 .. r.end + 1 <=>
            /\ t \in 1 .. n /\ Seqs!IsPrefix(query.suffix, collection.terms[t])
            /\ t \notin TermsMissing
  BY <1>1, SuffixLocated
<1>5. DOMAIN collection.terms = 1 .. n
  BY <1>1, CollectionIs
<1> DEFINE b == r.begin
           e == r.end
           lb == lexRange'.begin
           le == lexRange'.end
           S == {t \in DOMAIN collection.terms :
                    Seqs!IsPrefix(query.suffix, collection.terms[t])} \ TermsMissing
<1>6. b + 1 .. e + 1 = S
  <2> HIDE DEF r, n, b, e
  <2>1. b \in Nat /\ e \in Nat
    BY <1>4 DEF b, e
  <2>2. \A t \in b + 1 .. e + 1 : t \in Nat \ {0}
    BY <2>1
  <2>3. \A t \in S : t \in Nat \ {0}
    BY <1>5
  <2>4. \A t \in Nat \ {0} : t \in b + 1 .. e + 1 <=> t \in S
    BY <1>4, <1>5 DEF b, e
  <2> HIDE DEF S
  <2> QED  BY <2>2, <2>3, <2>4
<1>7. lb \in Nat /\ le \in Nat /\ lb .. le = S
  <2>1. b \in Nat /\ e \in Nat
    BY <1>4
  <2>2. CASE b > e
    <3>1. lb = b /\ le = e
      BY <1>3, <2>2 DEF IsInvalid
    <3> HIDE DEF b, e, lb, le, S
    <3>2. b .. e = {} /\ b + 1 .. e + 1 = {}
      BY <2>1, <2>2
    <3> QED  BY <2>1, <3>1, <3>2, <1>6
  <2>3. CASE ~(b > e)
    <3>1. lb = b + 1 /\ le = e + 1
      BY <1>3, <2>3 DEF IsInvalid
    <3> HIDE DEF b, e, lb, le, S
    <3> QED  BY <2>1, <3>1, <1>6
  <2> QED  BY <2>2, <2>3
<1> HIDE DEF r, n
<1>8. (LostTerms)' = LostTerms
  BY <1>3 DEF LostTerms
<1>9. (TermsMissing)' = TermsMissing
  BY <1>3, <1>8 DEF TermsMissing
<1>10. LexRangeKnown'
  BY <1>3, <1>7, <1>9 DEF LexRangeKnown
<1>11. PrefixKnown'
  BY <1>1, <1>3, PrefixKept
<1> QED  BY <1>1, <1>2, <1>3, <1>10, <1>11 DEF SearchInv

\* The places of a range of terms.
LEMMA PlacedIs ==
    ASSUME collection \in Collections, PrefixKnown, NEW i
    PROVE  i \in Placed <=>
               /\ i \in 1 .. Len(collection.completions)
               /\ GoesOn(collection.completions[i], prefix, lexRange)
               /\ i \notin CompletionsMissing
<1> DEFINE m == Len(collection.completions)
<1>1. DOMAIN collection.completions = 1 .. m /\ \A j \in 1 .. m : collection.completions[j] \in Texts
  BY CollectionIs
<1>2. prefix \in Texts
  <2>1. HeldTerms \subseteq Nat
    BY DEF HeldTerms
  <2> QED  BY <2>1, SeqMonotonic DEF PrefixKnown, Texts
<1>3. Len(prefix) \in Nat
  BY <1>2, LenText
<1>4. ASSUME NEW j \in 1 .. m
      PROVE  GoesOn(collection.completions[j], prefix, lexRange) <=>
                /\ Len(collection.completions[j]) > Len(prefix)
                /\ Seqs!IsPrefix(prefix, collection.completions[j])
                /\ collection.completions[j][Len(prefix) + 1] \in lexRange.begin .. lexRange.end
  <2> DEFINE c == collection.completions[j]
  <2>1. c \in Texts
    BY <1>1
  <2> HIDE DEF c
  <2>2. Len(c) \in Nat
    BY <2>1, LenText
  <2>3. Seqs!IsPrefix(prefix, c) <=> Begins(c, prefix)
    BY <2>1, <1>2, BeginsIs
  <2>4. Len(c) > Len(prefix) => Len(prefix) <= Len(c)
    BY <2>2, <1>3
  <2> QED  BY <2>3, <2>4 DEF Begins, GoesOn, c
<1> HIDE DEF m
<1> QED  BY <1>1, <1>4 DEF Placed, m

LEMMA CompletionsLocated ==
    ASSUME collection \in Collections, query \in Queries, PrefixKnown, LexRangeKnown,
           ~IsInvalid(lexRange)
    PROVE  LET o == IF query.kind = "trie" THEN LocatePrefix(index.trie, prefix, lexRange)
                    ELSE LocateLists(index.lists, prefix, lexRange)
           IN  /\ o.begin \in Nat /\ o.end \in Nat
               /\ \A x \in Nat : x \in o.begin .. o.end - 1 <=> x + 1 \in Placed
<1> DEFINE strings == collection.completions
           m == Len(strings)
           lex == lexRange
           prefix1 == prefix
<1>1. /\ Ordered(strings) /\ m \in Nat \ {0} /\ Len(collection.terms) < InvalidTerm
      /\ Len(collection.terms) \in Nat
  BY CollectionIs
<1>2. \A i \in 1 .. m : /\ Len(strings[i]) \in Nat \ {0}
                        /\ \A j \in 1 .. Len(strings[i]) : strings[i][j] \in 1 .. Len(collection.terms)
  BY CollectionIs
<1>3. HeldTerms \subseteq Nat \ {0}
  BY DEF HeldTerms
<1>4. prefix1 \in Seq(Nat \ {0})
  BY <1>3, SeqMonotonic DEF PrefixKnown
<1>5. prefix1 \in Texts
  BY <1>4, SeqMonotonic DEF Texts
<1>6. lex.begin \in Nat \ {0} /\ lex.end \in Nat /\ lex.begin <= lex.end
  <2>1. lex.begin \in Nat /\ lex.end \in Nat /\ lex.begin <= lex.end
    BY DEF LexRangeKnown, IsInvalid
  <2>2. lex.begin \in lex.begin .. lex.end
    BY <2>1
  <2>3. lex.begin \in 1 .. Len(collection.terms)
    BY <2>2, CollectionIs DEF LexRangeKnown
  <2> QED  BY <2>1, <2>3
<1>7. \A i : i \in Placed <=> i \in 1 .. m /\ GoesOn(strings[i], prefix1, lex) /\ i \notin CompletionsMissing
  BY PlacedIs
<1>8. CASE query.kind = "trie"
  <2> DEFINE o == LocatePrefix(index.trie, prefix1, lex)
  <2>1. Spelled(strings)
    BY <1>2 DEF Spelled
  <2>2. o = LocatePrefix(Trie(strings), prefix1, lex)
    BY IndexIs
  <2>3. CompletionsMissing = {}
    BY <1>8 DEF CompletionsMissing
  <2> HIDE DEF o, lex, prefix1, strings
  <2>4. /\ o.begin \in Nat /\ o.end \in Nat
        /\ \A x \in Nat :
              x \in o.begin .. o.end - 1 <=>
                  x + 1 \in 1 .. Len(strings) /\ GoesOn(strings[x + 1], prefix1, lex)
    BY <1>1, <1>4, <1>6, <2>1, <2>2, TrieLocated
  <2>5. \A x \in Nat : x \in o.begin .. o.end - 1 <=> x + 1 \in Placed
    BY <2>3, <2>4, <1>7
  <2> QED  BY <1>8, <2>4, <2>5 DEF o, lex, prefix1
<1>9. CASE query.kind # "trie"
  <2> DEFINE o == LocateLists(index.lists, prefix1, lex)
  <2>1. \A z \in 1 .. Len(strings) : \A i \in 1 .. Len(strings[z]) : strings[z][i] < InvalidTerm
    BY <1>1, <1>2, InvalidTermAssumption
  <2>2. o = LocateLists(FrontCoded(strings), prefix1, lex)
    BY IndexIs
  <2>3. LostCompletions = Held(m) + 1 .. m /\ Held(m) \in 1 .. m
    BY CompletionsHeld
  <2>4. CompletionsMissing = LostCompletions \cup
            (IF strings[1] = Append(prefix1, lex.begin) THEN {} ELSE {1})
    BY <1>9 DEF CompletionsMissing, PassedOver
  <2> HIDE DEF o, lex, prefix1, strings
  <2>5. /\ o.begin \in Nat /\ o.end \in Nat
        /\ \A x \in Nat :
              x \in o.begin .. o.end - 1 <=>
                  /\ x + 1 \in 1 .. Held(m)
                  /\ GoesOn(strings[x + 1], prefix1, lex)
                  /\ x = 0 => strings[1] = Append(prefix1, lex.begin)
    BY <1>1, <1>5, <1>6, <2>1, <2>2, ListsLocated
  <2>6. ASSUME NEW x \in Nat PROVE x \in o.begin .. o.end - 1 <=> x + 1 \in Placed
    <3> HIDE DEF m
    <3>1. x + 1 \notin CompletionsMissing /\ x + 1 \in 1 .. m <=>
             x + 1 \in 1 .. Held(m) /\ (x = 0 => strings[1] = Append(prefix1, lex.begin))
      BY <2>3, <2>4, <1>1
    <3> QED  BY <3>1, <2>5, <1>7 DEF m
  <2> QED  BY <1>9, <2>5, <2>6 DEF o, lex, prefix1
<1> QED  BY <1>8, <1>9

LEMMA LocateCompletionsInv ==
    ASSUME SearchInv, LocateCompletions PROVE SearchInv'
<1> DEFINE o == IF query.kind = "trie" THEN LocatePrefix(index.trie, prefix, lexRange)
                ELSE LocateLists(index.lists, prefix, lexRange)
<1>1. /\ collection \in Collections /\ query \in Queries /\ k = 1 /\ answer = <<>>
      /\ PrefixKnown /\ LexRangeKnown /\ ~IsInvalid(lexRange) /\ query.search = "prefix"
  BY DEF SearchInv, TypeInv, LocateCompletions
<1>2. TypeInv'
  BY DEF SearchInv, TypeInv, LocateCompletions, Phases
<1>3. /\ range' = o /\ phase' = "completions" /\ k' = k /\ answer' = answer
      /\ UNCHANGED <<collection, query, prefix, lexRange>>
  BY DEF LocateCompletions
<1>4. /\ o.begin \in Nat /\ o.end \in Nat
      /\ \A x \in Nat : x \in o.begin .. o.end - 1 <=> x + 1 \in Placed
  BY <1>1, CompletionsLocated
<1> HIDE DEF o
<1>5. Placed' = Placed
  BY <1>3, PlacedKept
<1>6. \A i \in Placed : i \in Nat /\ i - 1 \in Nat /\ (i - 1) + 1 = i
  BY <1>1, PlacedIs
<1>7. o.begin .. o.end - 1 = {i - 1 : i \in Placed}
  <2>1. ASSUME NEW x \in o.begin .. o.end - 1 PROVE x \in {i - 1 : i \in Placed}
    <3>1. x \in Nat /\ x = (x + 1) - 1
      BY <1>4
    <3>2. x + 1 \in Placed
      BY <3>1, <1>4
    <3> QED  BY <3>1, <3>2
  <2>2. ASSUME NEW i \in Placed PROVE i - 1 \in o.begin .. o.end - 1
    BY <1>4, <1>6
  <2> QED  BY <2>1, <2>2
<1>8. RangeKnown'
  BY <1>3, <1>4, <1>5, <1>7 DEF RangeKnown
<1>9. PrefixKnown' /\ LexRangeKnown'
  BY <1>1, <1>3, PrefixKept, LexRangeKept
<1>10. lexRange'.begin <= lexRange'.end
  BY <1>1, <1>3 DEF IsInvalid, LexRangeKnown
<1> QED  BY <1>1, <1>2, <1>3, <1>8, <1>9, <1>10 DEF SearchInv

\* The scores of the completions asked for.
LEMMA SelectedFound ==
    ASSUME Select(Wanted), Wanted' = Wanted, collection' = collection, query' = query,
           query.kind = "trie" \/ Wanted \cap LostCompletions = {}
    PROVE  FoundKnown'
<1>1. DocsOf(Wanted)' = {collection.docids[i] : i \in Wanted}
  <2> HIDE DEF Wanted
  <2> QED  BY DEF DocsOf
<1>2. (LostCompletions)' = LostCompletions
  BY DEF LostCompletions
<1>3. scores' = [r \in 1 .. Min({k', Cardinality(DocsOf(Wanted)')}) |->
                    CHOOSE doc \in DocsOf(Wanted)' :
                        Cardinality({d \in DocsOf(Wanted)' : d <= doc}) = r]
  BY <1>1 DEF Select
<1> HIDE DEF Wanted
<1> QED  BY <1>2, <1>3 DEF FoundKnown

LEMMA SelectRangeInv ==
    ASSUME SearchInv, SelectRange PROVE SearchInv'
<1>1. /\ collection \in Collections /\ query \in Queries
      /\ PrefixKnown /\ LexRangeKnown /\ RangeKnown /\ query.search = "prefix"
  BY DEF SearchInv, TypeInv, SelectRange
<1>2. /\ Select(range.begin + 1 .. range.end) /\ phase' = "found" /\ k' \in 1 .. MaxK
      /\ UNCHANGED <<collection, query, prefix, lexRange>>
  BY DEF SelectRange
<1>3. Wanted = Placed
  BY <1>1, PlacedAnswer DEF Wanted
<1>4. range.begin + 1 .. range.end = Placed
  <2> DEFINE a == range.begin
             b == range.end
  <2>1. a \in Nat /\ b \in Nat /\ a .. b - 1 = {i - 1 : i \in Placed}
    BY <1>1 DEF RangeKnown
  <2>2. \A i \in Placed : i \in Nat \ {0}
    BY <1>1, PlacedIs
  <2> HIDE DEF a, b, Placed
  <2>3. ASSUME NEW i \in a + 1 .. b PROVE i \in Placed
    <3>1. i - 1 \in a .. b - 1
      BY <2>1
    <3>2. PICK j \in Placed : j - 1 = i - 1
      BY <3>1, <2>1
    <3>3. j = i
      BY <3>2, <2>1, <2>2
    <3> QED  BY <3>3
  <2>4. ASSUME NEW i \in Placed PROVE i \in a + 1 .. b
    <3>1. i - 1 \in a .. b - 1
      BY <2>1
    <3> QED  BY <3>1, <2>1, <2>2
  <2> QED  BY <2>3, <2>4 DEF a, b
<1>5. Select(Wanted)
  BY <1>2, <1>3, <1>4
<1>6. query.kind = "trie" \/ Wanted \cap LostCompletions = {}
  <2>1. query.kind = "trie" \/ LostCompletions \subseteq CompletionsMissing
    BY DEF CompletionsMissing
  <2>2. Placed \cap CompletionsMissing = {}
    BY DEF Placed
  <2> QED  BY <2>1, <2>2, <1>3
<1>7. Wanted' = Wanted
  BY <1>2, WantedKept
<1>8. FoundKnown'
  BY <1>2, <1>5, <1>6, <1>7, SelectedFound
<1>9. PrefixKnown' /\ LexRangeKnown'
  BY <1>1, <1>2, PrefixKept, LexRangeKept
<1>10. TypeInv'
  BY <1>1, <1>2 DEF TypeInv, Phases
<1> QED  BY <1>2, <1>8, <1>9, <1>10 DEF SearchInv

\* The completions a conjunctive query asks for.
LEMMA MatchesAnswer ==
    ASSUME collection \in Collections, query \in Queries, PrefixKnown, LexRangeKnown
    PROVE  {i \in DOMAIN collection.completions : Holds(collection.completions[i])}
              = ConjunctiveAnswer
<1>1. DOMAIN collection.completions = 1 .. Len(collection.completions)
  BY CollectionIs
<1>2. HeldTerms = DOMAIN collection.terms \ LostTerms
  BY TermsHeld DEF HeldTerms
<1>3. ASSUME NEW i \in DOMAIN collection.completions
      PROVE  Holds(collection.completions[i]) <=>
                LET terms == Range(collection.completions[i])
                IN  /\ \A w \in Range(query.tokens) :
                          \A t \in DOMAIN collection.terms \ LostTerms :
                              collection.terms[t] = w => t \in terms
                    /\ \E t \in terms \ TermsMissing :
                          Seqs!IsPrefix(query.suffix, collection.terms[t])
  <2> DEFINE c == collection.completions[i]
             terms == Range(c)
  <2>1. terms \subseteq DOMAIN collection.terms
    <3>1. DOMAIN c = 1 .. Len(c) /\ \A j \in 1 .. Len(c) : c[j] \in 1 .. Len(collection.terms)
      BY <1>1, CollectionIs
    <3>2. DOMAIN collection.terms = 1 .. Len(collection.terms)
      BY CollectionIs
    <3> HIDE DEF c
    <3> QED  BY <3>1, <3>2 DEF Range
  <2>2. Range(prefix) \subseteq terms <=>
            \A w \in Range(query.tokens) : \A t \in HeldTerms : collection.terms[t] = w => t \in terms
    <3>1. Range(prefix) = {t \in HeldTerms : collection.terms[t] \in Range(query.tokens)}
      BY DEF PrefixKnown
    <3> HIDE DEF terms
    <3> QED  BY <3>1
  <2>3. terms \cap (lexRange.begin .. lexRange.end) # {} <=>
            \E t \in terms \ TermsMissing : Seqs!IsPrefix(query.suffix, collection.terms[t])
    <3>1. lexRange.begin .. lexRange.end =
              {t \in DOMAIN collection.terms : Seqs!IsPrefix(query.suffix, collection.terms[t])}
                  \ TermsMissing
      BY DEF LexRangeKnown
    <3> HIDE DEF terms
    <3> QED  BY <3>1, <2>1
  <2>4. Holds(c) <=> Range(prefix) \subseteq terms /\ terms \cap (lexRange.begin .. lexRange.end) # {}
    BY DEF Holds
  <2> HIDE DEF c
  <2> QED  BY <2>2, <2>3, <2>4, <1>2 DEF c
<1> QED  BY <1>3 DEF ConjunctiveAnswer

LEMMA SelectMatchesInv ==
    ASSUME SearchInv, SelectMatches PROVE SearchInv'
<1>1. /\ collection \in Collections /\ query \in Queries
      /\ PrefixKnown /\ LexRangeKnown /\ query.search = "conjunctive"
  BY DEF SearchInv, TypeInv, SelectMatches
<1>2. /\ Select({i \in DOMAIN collection.completions : Holds(collection.completions[i])})
      /\ Decodable /\ phase' = "found" /\ k' \in 1 .. MaxK
      /\ UNCHANGED <<collection, query, prefix, lexRange>>
  BY DEF SelectMatches
<1>3. Wanted = ConjunctiveAnswer
  BY <1>1 DEF Wanted
<1>4. Select(Wanted)
  BY <1>1, <1>2, <1>3, MatchesAnswer
<1>5. query.kind = "trie" \/ Wanted \cap LostCompletions = {}
  BY <1>2 DEF Decodable
<1>6. Wanted' = Wanted
  BY <1>2, WantedKept
<1>7. FoundKnown'
  BY <1>2, <1>4, <1>5, <1>6, SelectedFound
<1>8. PrefixKnown' /\ LexRangeKnown'
  BY <1>1, <1>2, PrefixKept, LexRangeKept
<1>9. TypeInv'
  BY <1>1, <1>2 DEF TypeInv, Phases
<1> QED  BY <1>2, <1>7, <1>8, <1>9 DEF SearchInv

LEMMA ReturnInv ==
    ASSUME SearchInv, Return PROVE SearchInv'
<1>1. NoQuery \in Queries
  <2>1. <<>> \in Seq(Words)
    OBVIOUS
  <2> QED  BY <2>1 DEF NoQuery, Queries, Kinds, Searches
<1>2. 1 \in 1 .. MaxK
  BY BoundsAssumption
<1> QED  BY <1>1, <1>2 DEF Return, SearchInv, TypeInv, Phases

-----------------------------------------------------------------------------
(***************************************************************************)
(* The strings of the answer.                                              *)
(***************************************************************************)
LEMMA SameNumber ==
    ASSUME NEW S, IsFiniteSet(S), NEW f, \A i, j \in S : f[i] = f[j] => i = j
    PROVE  LET T == {f[i] : i \in S} IN IsFiniteSet(T) /\ Cardinality(T) = Cardinality(S)
<1> DEFINE T == {f[i] : i \in S}
           g == [i \in S |-> f[i]]
<1>1. g \in Bijection(S, T)
  <2>1. g \in Injection(S, T)
    BY DEF Injection, IsInjective
  <2>2. g \in Surjection(S, T)
    BY DEF Surjection
  <2> QED  BY <2>1, <2>2 DEF Bijection
<1>2. ExistsBijection(S, T)
  BY <1>1 DEF ExistsBijection
<1> HIDE DEF T
<1>3. IsFiniteSet(T) /\ Cardinality(T) = Cardinality(S)
  BY <1>2, FS_Bijection
<1> QED  BY <1>3 DEF T

UpToDoc(S, d) == {e \in S : e <= d}

LEMMA RankIs ==
    ASSUME NEW S \in SUBSET Nat, IsFiniteSet(S), NEW d \in S
    PROVE  /\ Cardinality(UpToDoc(S, d)) \in 1 .. Cardinality(S)
           /\ \A e \in S : Cardinality(UpToDoc(S, e)) = Cardinality(UpToDoc(S, d)) => e = d
<1> DEFINE U(e) == UpToDoc(S, e)
<1>1. \A e \in S : IsFiniteSet(U(e)) /\ Cardinality(U(e)) \in Nat /\ Cardinality(U(e)) <= Cardinality(S)
  <2> SUFFICES ASSUME NEW e \in S
               PROVE  IsFiniteSet(U(e)) /\ Cardinality(U(e)) \in Nat /\ Cardinality(U(e)) <= Cardinality(S)
    OBVIOUS
  <2>1. U(e) \in SUBSET S
    BY DEF UpToDoc
  <2> HIDE DEF U
  <2> QED  BY <2>1, FS_Subset, FS_CardinalityType
<1>2. Cardinality(U(d)) # 0
  <2>1. d \in U(d)
    BY DEF UpToDoc
  <2> HIDE DEF U
  <2> QED  BY <2>1, <1>1, FS_EmptySet
<1>3. ASSUME NEW e \in S, NEW x \in S, e < x PROVE Cardinality(U(e)) # Cardinality(U(x))
  <2>0. \A y \in S : y \in Nat
    OBVIOUS
  <2>4. e \in Nat /\ x \in Nat /\ e < x
    BY <1>3, <2>0
  <2>5. \A y \in S : y <= e => y <= x
    BY <2>0, <2>4
  <2>6. x <= x /\ ~(x <= e)
    BY <2>4
  <2>1. U(e) \in SUBSET U(x) /\ x \in U(x) /\ x \notin U(e)
    BY <2>5, <2>6 DEF UpToDoc
  <2> HIDE DEF U
  <2>2. U(e) # U(x)
    BY <2>1
  <2> QED  BY <2>1, <2>2, <1>1, FS_Subset
<1>4. \A e \in S : Cardinality(U(e)) = Cardinality(U(d)) => e = d
  <2> SUFFICES ASSUME NEW e \in S, Cardinality(U(e)) = Cardinality(U(d)) PROVE e = d
    OBVIOUS
  <2>1. e < d \/ d < e \/ e = d
    OBVIOUS
  <2> HIDE DEF U
  <2> QED  BY <2>1, <1>3
<1>5. Cardinality(S) \in Nat
  BY FS_CardinalityType
<1> HIDE DEF U
<1>6. Cardinality(U(d)) \in 1 .. Cardinality(S)
  BY <1>1, <1>2, <1>5
<1> QED  BY <1>4, <1>6 DEF U

\* The completion of an identifier, and its strings.
LEMMA StringsOf ==
    ASSUME collection \in Collections, NEW i \in 1 .. Len(collection.completions),
           query.kind = "trie" \/ i \notin LostCompletions
    PROVE  LET doc == collection.docids[i]
           IN  [j \in DOMAIN TermsOf(doc) |-> Extract(index.dict, TermsOf(doc)[j] - 1)]
                  = Decoding(collection.completions[i])
<1> DEFINE doc == collection.docids[i]
           m == Len(collection.completions)
           n == Len(collection.terms)
           c == collection.completions[i]
<1>1. /\ DOMAIN collection.docids = 1 .. m /\ m \in Nat /\ n \in Nat
      /\ \A x, y \in 1 .. m : collection.docids[x] = collection.docids[y] => x = y
      /\ Ordered(collection.terms) /\ Ordered(collection.completions)
  BY CollectionIs
<1>2. DOMAIN c = 1 .. Len(c) /\ \A j \in 1 .. Len(c) : c[j] \in 1 .. n
  BY CollectionIs
<1>3. Place(doc) = i
  <2>1. i \in DOMAIN collection.docids /\ collection.docids[i] = doc
    BY <1>1
  <2>2. Place(doc) \in DOMAIN collection.docids /\ collection.docids[Place(doc)] = doc
    <3> HIDE DEF doc
    <3> QED  BY <2>1 DEF Place
  <2> QED  BY <2>1, <2>2, <1>1
<1> HIDE DEF doc
<1>4. TermsOf(doc) = c
  <2>1. CASE query.kind = "trie"
    BY <2>1, <1>3 DEF TermsOf
  <2>2. CASE query.kind # "trie"
    <3>1. TermsOf(doc) = Extract(FrontCoded(collection.completions), i - 1)
      BY <2>2, <1>3, IndexIs DEF TermsOf
    <3>2. i <= Held(m)
      BY <2>2, CompletionsHeld
    <3> DEFINE strings == collection.completions
               id == i - 1
    <3>3. id \in 0 .. Len(strings) - 1 /\ id + 1 = i
      BY <1>1
    <3> HIDE DEF strings, id
    <3>4. Extract(FrontCoded(strings), id) =
              IF id + 1 <= Held(Len(strings)) THEN strings[id + 1] ELSE <<>>
      <4>1. Ordered(strings)
        BY <1>1 DEF strings
      <4> QED  BY <4>1, <3>3, Extracted
    <3>5. Extract(FrontCoded(strings), id) = strings[i]
      BY <3>2, <3>3, <3>4 DEF strings
    <3> QED  BY <3>1, <3>5 DEF strings, id
  <2> QED  BY <2>1, <2>2
<1>5. ASSUME NEW t \in 1 .. n
      PROVE  Extract(index.dict, t - 1) = IF t \in LostTerms THEN <<>> ELSE collection.terms[t]
  <2> DEFINE strings == collection.terms
             id == t - 1
  <2>1. id \in 0 .. Len(strings) - 1 /\ id + 1 = t /\ Len(strings) = n
    BY <1>1
  <2>2. Ordered(strings) /\ index.dict = FrontCoded(strings)
    BY <1>1, IndexIs
  <2>3. Held(n) \in 1 .. n /\ LostTerms = Held(n) + 1 .. n
    BY TermsHeld
  <2> HIDE DEF strings, id, n
  <2>4. Extract(index.dict, id) = IF id + 1 <= Held(Len(strings)) THEN strings[id + 1] ELSE <<>>
    BY <2>1, <2>2, Extracted
  <2>5. t <= Held(n) <=> t \notin LostTerms
    BY <2>3, <1>1
  <2> QED  BY <2>1, <2>4, <2>5 DEF id, strings
<1>6. [j \in DOMAIN c |-> Extract(index.dict, c[j] - 1)] = Decoding(c)
  <2> HIDE DEF c, n
  <2>1. \A j \in DOMAIN c : Extract(index.dict, c[j] - 1) =
            IF c[j] \in LostTerms THEN <<>> ELSE collection.terms[c[j]]
    BY <1>2, <1>5
  <2> QED  BY <2>1 DEF Decoding
<1> QED  BY <1>4, <1>6 DEF doc

\* An answer for some completions.
Answers(ans, best, places) ==
    /\ Len(ans) = Min({best, Cardinality(places)})
    /\ \A i \in places :
          LET place == Cardinality({j \in places : collection.docids[j] <= collection.docids[i]})
          IN  place <= best => ans[place] = Decoding(collection.completions[i])

LEMMA AnsweredNext ==
    ASSUME collection' = collection, NEW S, Wanted' = S, Answers(answer', k', S)
    PROVE  AnsweredBy(Wanted)'
<1>1. \A c : Decoding(c)' = Decoding(c)
  BY DEF Decoding, LostTerms
<1>2. AnsweredBy(S)'
  BY <1>1 DEF AnsweredBy, Answers
<1>3. Wanted' = S
  OBVIOUS
<1> HIDE DEF Wanted
<1> QED  BY <1>2, <1>3 DEF AnsweredBy

LEMMA ExtractStringsInv ==
    ASSUME SearchInv, ExtractStrings PROVE SearchInv'
<1> DEFINE m == Len(collection.completions)
           W == Wanted
           docs == DocsOf(W)
           docids == collection.docids
           F(doc) == [j \in DOMAIN TermsOf(doc) |-> Extract(index.dict, TermsOf(doc)[j] - 1)]
<1>1. /\ collection \in Collections /\ query \in Queries /\ FoundKnown /\ k \in Nat
  BY DEF SearchInv, TypeInv, ExtractStrings
<1>2. /\ answer' = [i \in DOMAIN scores |-> F(scores[i])] /\ phase' = "answered"
      /\ UNCHANGED <<collection, query, prefix, lexRange, range, k, scores>>
  BY DEF ExtractStrings
<1>3. /\ m \in Nat /\ DOMAIN collection.completions = 1 .. m
      /\ \A i \in 1 .. m : docids[i] \in Nat
      /\ \A i, j \in 1 .. m : docids[i] = docids[j] => i = j
  BY <1>1, CollectionIs
<1>4. W \subseteq 1 .. m
  BY <1>3 DEF Wanted, PrefixAnswer, ConjunctiveAnswer
<1>5. IsFiniteSet(W)
  <2>1. IsFiniteSet(1 .. m)
    BY <1>3, FS_Interval
  <2> HIDE DEF W, m
  <2> QED  BY <2>1, <1>4, FS_Subset
<1>6. docs = {docids[i] : i \in W}
  BY DEF DocsOf
<1>7. docs \in SUBSET Nat
  <2> HIDE DEF W, docs
  <2> QED  BY <1>3, <1>4, <1>6
<1>8. IsFiniteSet(docs) /\ Cardinality(docs) = Cardinality(W)
  <2>1. \A i, j \in W : docids[i] = docids[j] => i = j
    BY <1>3, <1>4
  <2> HIDE DEF W, docs, docids
  <2> QED  BY <2>1, <1>5, <1>6, SameNumber
<1>9. Cardinality(W) \in Nat
  BY <1>5, FS_CardinalityType
<1> DEFINE found == Min({k, Cardinality(docs)})
<1>10. found \in Nat /\ (\A r \in Nat : r <= k /\ r <= Cardinality(docs) => r <= found)
  <2> DEFINE a == k
             b == Cardinality(docs)
  <2>1. a \in Nat /\ b \in Nat
    BY <1>1, <1>8, <1>9
  <2> HIDE DEF a, b
  <2>2. Min({a, b}) = IF a <= b THEN a ELSE b
    BY <2>1, MinOfTwo
  <2> QED  BY <2>1, <2>2 DEF a, b
<1>11. scores = [r \in 1 .. found |-> CHOOSE doc \in docs : Cardinality(UpToDoc(docs, doc)) = r]
       /\ (query.kind = "trie" \/ W \cap LostCompletions = {})
  BY <1>1 DEF FoundKnown, UpToDoc
<1> HIDE DEF W, docs, F, found, m
<1>12. DOMAIN answer' = 1 .. found /\ Len(answer') = found
       /\ \A r \in 1 .. found : answer'[r] = F(scores[r])
  <2>1. DOMAIN scores = 1 .. found
    BY <1>11
  <2>2. answer' = [r \in 1 .. found |-> F(scores[r])]
    BY <2>1, <1>2
  <2> QED  BY <2>2, <1>10
<1>13. ASSUME NEW i \in W,
              Cardinality({j \in W : docids[j] <= docids[i]}) <= k
       PROVE  answer'[Cardinality({j \in W : docids[j] <= docids[i]})]
                 = Decoding(collection.completions[i])
  <2> DEFINE d == docids[i]
             S == {j \in W : docids[j] <= d}
             U == UpToDoc(docs, d)
             place == Cardinality(S)
  <2>1. d \in docs /\ i \in 1 .. m
    BY <1>4, <1>6
  <2>2. U = {docids[j] : j \in S}
    <3> HIDE DEF docids
    <3> QED  BY <1>6 DEF UpToDoc
  <2>3. Cardinality(U) = place
    <3>1. S \in SUBSET W
      OBVIOUS
    <3>2. IsFiniteSet(S)
      <4> HIDE DEF S
      <4> QED  BY <3>1, <1>5, FS_Subset
    <3>3. \A x, y \in S : docids[x] = docids[y] => x = y
      BY <3>1, <1>3, <1>4
    <3> HIDE DEF S, U, docids
    <3> QED  BY <3>2, <3>3, <2>2, SameNumber
  <2> HIDE DEF d, S
  <2>4. /\ Cardinality(U) \in 1 .. Cardinality(docs)
        /\ \A e \in docs : Cardinality(UpToDoc(docs, e)) = Cardinality(U) => e = d
    BY <2>1, <1>7, <1>8, RankIs
  <2>5. place <= k
    BY <1>13 DEF S, d
  <2> HIDE DEF U, place
  <2>6. place \in 1 .. found
    <3>1. place \in Nat /\ 1 <= place /\ place <= Cardinality(docs)
      BY <2>3, <2>4, <1>8, <1>9
    <3> QED  BY <3>1, <2>5, <1>10
  <2>7. scores[place] = d
    <3>1. scores[place] = CHOOSE doc \in docs : Cardinality(UpToDoc(docs, doc)) = place
      BY <2>6, <1>11
    <3>2. Cardinality(UpToDoc(docs, d)) = place
      BY <2>3 DEF U
    <3>3. \A e \in docs : Cardinality(UpToDoc(docs, e)) = place => e = d
      BY <2>3, <2>4
    <3> QED  BY <3>1, <3>2, <3>3, <2>1
  <2>8. F(d) = Decoding(collection.completions[i])
    <3>1. query.kind = "trie" \/ i \notin LostCompletions
      BY <1>11
    <3> QED  BY <3>1, <2>1, <1>1, StringsOf DEF F, d, m
  <2>9. answer'[place] = F(d)
    BY <2>6, <2>7, <1>12
  <2> QED  BY <2>8, <2>9 DEF place, S, d
<1>14. Answers(answer', k', W)
  <2>1. Len(answer') = Min({k', Cardinality(W)})
    BY <1>2, <1>8, <1>12 DEF found
  <2> QED  BY <2>1, <1>2, <1>13 DEF Answers
<1>15. Wanted' = W
  BY <1>2, WantedKept DEF W
<1>16. AnsweredBy(Wanted)'
  <2> HIDE DEF Wanted
  <2> QED  BY <1>2, <1>14, <1>15, AnsweredNext
<1>17. TypeInv'
  BY <1>2 DEF SearchInv, TypeInv, Phases
<1> QED  BY <1>2, <1>16, <1>17 DEF SearchInv

LEMMA NextInv ==
    ASSUME SearchInv, [Next]_searchVars PROVE SearchInv'
<1>1. CASE Call
  BY <1>1, CallInv
<1>2. CASE ParseFails
  BY <1>2, ParseFailsInv
<1>3. CASE Parse
  BY <1>3, ParseInv
<1>4. CASE LocateSuffix
  BY <1>4, LocateSuffixInv
<1>5. CASE NoTerms
  BY <1>5, NoTermsInv
<1>6. CASE LocateCompletions
  BY <1>6, LocateCompletionsInv
<1>7. CASE NoCompletions
  BY <1>7, NoCompletionsInv
<1>8. CASE SelectRange
  BY <1>8, SelectRangeInv
<1>9. CASE SelectMatches
  BY <1>9, SelectMatchesInv
<1>10. CASE ExtractStrings
  BY <1>10, ExtractStringsInv
<1>11. CASE Return
  BY <1>11, ReturnInv
<1>12. CASE UNCHANGED searchVars
  <2>1. UNCHANGED <<collection, phase, query, prefix, lexRange, range, k, scores, answer>>
    BY <1>12 DEF searchVars
  <2>2. TypeInv'
    BY <2>1 DEF SearchInv, TypeInv
  <2>3. PrefixKnown => PrefixKnown'
    BY <2>1, PrefixKept
  <2>4. LexRangeKnown => LexRangeKnown'
    BY <2>1, LexRangeKept
  <2>5. Placed' = Placed
    BY <2>1, PlacedKept
  <2>6. RangeKnown => RangeKnown'
    BY <2>1, <2>5 DEF RangeKnown
  <2>7. Wanted' = Wanted
    BY <2>1, WantedKept
  <2>8. FoundKnown => FoundKnown'
    <3> HIDE DEF Wanted
    <3> QED  BY <2>1, <2>7 DEF FoundKnown, DocsOf, LostCompletions
  <2>9. AnsweredBy(Wanted) => AnsweredBy(Wanted)'
    <3> HIDE DEF Wanted
    <3> QED  BY <2>1, <2>7, AnswerKept
  <2> QED  BY <2>1, <2>2, <2>3, <2>4, <2>6, <2>8, <2>9 DEF SearchInv
<1> QED
  BY <1>1, <1>2, <1>3, <1>4, <1>5, <1>6, <1>7, <1>8, <1>9, <1>10, <1>11, <1>12 DEF Next

(***************************************************************************)
(* The inductive invariant holds at every moment of every sequence of      *)
(* queries on every collection.                                            *)
(***************************************************************************)
THEOREM SearchInvariant == Spec => []SearchInv
<1>1. Init => SearchInv
  BY InitInv
<1>2. SearchInv /\ [Next]_searchVars => SearchInv'
  BY NextInv
<1> QED  BY <1>1, <1>2, PTL DEF Spec

(***************************************************************************)
(* parse() finds the words of a query that the dictionary has and no       *)
(* others, wherever they lie in its buckets.                               *)
(***************************************************************************)
THEOREM SearchWordsFound == Spec => []WordsFound
<1>1. SearchInv => WordsFound
  BY DEF SearchInv, PrefixKnown, WordsFound, KnownTokens
<1> QED  BY <1>1, SearchInvariant, PTL

(***************************************************************************)
(* The range of terms for the last word of a query holds exactly the terms *)
(* that begin with it, but for the first term and those the builder lost,  *)
(* for every size of the buckets.                                          *)
(***************************************************************************)
THEOREM SearchTermRangeExact == Spec => []TermRangeExact
<1>1. SearchInv => TermRangeExact
  BY DEF SearchInv, LexRangeKnown, TermRangeExact
<1> QED  BY <1>1, SearchInvariant, PTL

(***************************************************************************)
(* The trie finds exactly the completions that begin with the terms of a   *)
(* query and go on with a term of the range; the dictionary of completions *)
(* does but for the first and the lost ones.                               *)
(***************************************************************************)
THEOREM SearchCompletionRangeExact == Spec => []CompletionRangeExact
<1>1. SearchInv => CompletionRangeExact
  BY DEF SearchInv, RangeKnown, Placed, CompletionRangeExact
<1> QED  BY <1>1, SearchInvariant, PTL

(***************************************************************************)
(* prefix_topk returns the strings of the k best completions that begin    *)
(* with the query, the best first, but for what the dictionaries pass over *)
(* or have lost, for every collection, every query and every k.            *)
(***************************************************************************)
THEOREM SearchAnswerExact == Spec => []AnswerExact
<1>1. SearchInv => AnswerExact
  <2> SUFFICES ASSUME SearchInv, phase = "answered", query.search = "prefix"
               PROVE  AnsweredBy(PrefixAnswer)
    BY DEF AnswerExact, PrefixAnswer
  <2>1. Wanted = PrefixAnswer
    BY DEF Wanted
  <2>2. AnsweredBy(Wanted)
    BY DEF SearchInv
  <2> HIDE DEF Wanted, PrefixAnswer
  <2> QED  BY <2>1, <2>2
<1> QED  BY <1>1, SearchInvariant, PTL

(***************************************************************************)
(* conjunctive_topk returns the strings of the k best completions that hold *)
(* every known word of the query and one that its last word begins, the    *)
(* best first, for every collection, every query and every k.              *)
(***************************************************************************)
THEOREM SearchConjunctiveExact == Spec => []ConjunctiveExact
<1>1. SearchInv => ConjunctiveExact
  <2> SUFFICES ASSUME SearchInv, phase = "answered", query.search = "conjunctive"
               PROVE  AnsweredBy(ConjunctiveAnswer)
    BY DEF ConjunctiveExact, ConjunctiveAnswer
  <2>1. Wanted = ConjunctiveAnswer
    BY DEF Wanted
  <2>2. AnsweredBy(Wanted)
    BY DEF SearchInv
  <2> HIDE DEF Wanted, ConjunctiveAnswer
  <2> QED  BY <2>1, <2>2
<1> QED  BY <1>1, SearchInvariant, PTL

=============================================================================

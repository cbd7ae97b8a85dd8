------------------------- MODULE UnsortedListProofs -------------------------
(***************************************************************************)
(* unsorted_list::topk finds the k least values of a range, for every      *)
(* list, every range, every k and every threshold of the scan.  First the  *)
(* tree of range minima, bottom up, for every sequence of integers: loops, *)
(* the zeros it counts and finds, the tree of minima over the superblocks, *)
(* the search of words, blocks and superblocks for the least excess, and   *)
(* the stack that the parentheses are written from.  Then the loop of      *)
(* topk, over the answers of the tree.                                     *)
(***************************************************************************)
EXTENDS UnsortedList, PostingsProofs, FiniteSetTheorems

(***************************************************************************)
(* Induction, over sets of numbers.                                        *)
(***************************************************************************)
LEMMA EveryNumber ==
    ASSUME NEW S, 0 \in S, \A n \in Nat : n \in S => n + 1 \in S
    PROVE  \A n \in Nat : n \in S
<1> DEFINE T == {n \in Nat : n \notin S}
<1> SUFFICES ASSUME T # {} PROVE FALSE
  OBVIOUS
<1>1. PICK l \in T : \A c \in T : l <= c
  <2>1. T \in SUBSET Nat
    OBVIOUS
  <2> HIDE DEF T
  <2> QED  BY <2>1, LeastExists
<1>2. l # 0 /\ l \in Nat /\ l \notin S
  BY <1>1
<1>3. l - 1 \in Nat /\ l - 1 \notin T
  BY <1>1, <1>2
<1>4. l - 1 \in S
  BY <1>3
<1>5. (l - 1) + 1 \in S
  BY <1>3, <1>4
<1> QED  BY <1>2, <1>5

LEMMA NumbersUpTo ==
    ASSUME NEW n \in Nat, NEW S, 0 \in S, \A i \in 0 .. n - 1 : i \in S => i + 1 \in S
    PROVE  \A i \in 0 .. n : i \in S
<1> DEFINE T == {i \in Nat : i <= n => i \in S}
<1>1. 0 \in T
  OBVIOUS
<1>2. ASSUME NEW i \in Nat, i \in T PROVE i + 1 \in T
  <2>1. CASE i + 1 <= n
    BY <1>2, <2>1
  <2>2. CASE ~(i + 1 <= n)
    BY <2>2
  <2> QED  BY <2>1, <2>2
<1>3. \A i \in Nat : i \in T
  <2> HIDE DEF T
  <2> QED  BY <1>1, <1>2, EveryNumber
<1> QED  BY <1>3

-----------------------------------------------------------------------------
(***************************************************************************)
(* Loops: what holds of the variables before and after a round holds when  *)
(* the loop is left, and a loop whose measure shrinks is left in time.     *)
(***************************************************************************)
RoundsTo(R, n, step, start) ==
    R = [i \in 0 .. n |-> IF i = 0 THEN start ELSE step[R[i - 1]]]

LEMMA RoundsExist ==
    ASSUME NEW n \in Nat, NEW step, NEW start
    PROVE  \E R : RoundsTo(R, n, step, start)
<1> DEFINE S == {i \in Nat : \E R : RoundsTo(R, i, step, start)}
<1>1. 0 \in S
  <2> DEFINE R == [i \in 0 .. 0 |-> start]
  <2>1. R = [i \in 0 .. 0 |-> IF i = 0 THEN start ELSE step[R[i - 1]]]
    OBVIOUS
  <2>2. RoundsTo(R, 0, step, start)
    BY <2>1 DEF RoundsTo
  <2> QED  BY <2>2
<1>2. ASSUME NEW j \in Nat, j \in S
      PROVE  j + 1 \in S
  <2>1. PICK P : RoundsTo(P, j, step, start)
    BY <1>2
  <2> DEFINE Step(F, i) == IF i = 0 THEN start ELSE step[F[i - 1]]
             Q == [i \in 0 .. j + 1 |-> IF i <= j THEN P[i] ELSE Step(P, i)]
  <2>2. \A i \in 0 .. j : P[i] = Step(P, i)
    <3>1. P = [i \in 0 .. j |-> Step(P, i)]
      BY <2>1 DEF RoundsTo
    <3> QED  BY <3>1
  <2>3. \A i \in 0 .. j + 1 : Q[i] = Step(Q, i)
    <3> TAKE i \in 0 .. j + 1
    <3>1. Q[i] = Step(P, i)
      BY <2>2
    <3>2. i # 0 => i - 1 \in 0 .. j + 1 /\ i - 1 <= j
      OBVIOUS
    <3> QED  BY <3>1, <3>2
  <2>4. Q = [i \in 0 .. j + 1 |-> Step(Q, i)]
    <3>1. Q = [i \in 0 .. j + 1 |-> Q[i]]
      OBVIOUS
    <3> HIDE DEF Q, Step
    <3> QED  BY <3>1, <2>3, Zenon
  <2>5. RoundsTo(Q, j + 1, step, start)
    BY <2>4 DEF RoundsTo
  <2> HIDE DEF Q
  <2> QED  BY <2>5
<1>3. \A i \in Nat : i \in S
  <2> HIDE DEF S
  <2> QED  BY <1>1, <1>2, EveryNumber
<1> QED  BY <1>3

LEMMA RoundsIs ==
    ASSUME NEW n \in Nat, NEW step, NEW start
    PROVE  \E R : /\ Rounds(n, step, start) = R[n]
                  /\ R[0] = start
                  /\ \A i \in 0 .. n - 1 : R[i + 1] = step[R[i]]
<1> DEFINE R == CHOOSE Q : RoundsTo(Q, n, step, start)
<1>1. RoundsTo(R, n, step, start)
  BY RoundsExist
<1>2. Rounds(n, step, start) = R[n]
  BY DEF Rounds, RoundsTo
<1> HIDE DEF R
<1>3. \A i \in 0 .. n : R[i] = IF i = 0 THEN start ELSE step[R[i - 1]]
  BY <1>1 DEF RoundsTo
<1>4. R[0] = start
  BY <1>3
<1>5. \A i \in 0 .. n - 1 : R[i + 1] = step[R[i]]
  <2> TAKE i \in 0 .. n - 1
  <2>1. i + 1 \in 0 .. n /\ i + 1 # 0 /\ i + 1 - 1 = i
    OBVIOUS
  <2> QED  BY <2>1, <1>3
<1> QED  BY <1>2, <1>4, <1>5

LEMMA RoundsAre ==
    ASSUME NEW n \in Nat, NEW step, NEW start
    PROVE  /\ Rounds(0, step, start) = start
           /\ Rounds(n + 1, step, start) = step[Rounds(n, step, start)]
<1>1. Rounds(0, step, start) = start
  BY RoundsIs
<1>2. PICK P : /\ Rounds(n, step, start) = P[n]
               /\ P[0] = start
               /\ \A i \in 0 .. n - 1 : P[i + 1] = step[P[i]]
  BY RoundsIs
<1>3. PICK Q : /\ Rounds(n + 1, step, start) = Q[n + 1]
               /\ Q[0] = start
               /\ \A i \in 0 .. n + 1 - 1 : Q[i + 1] = step[Q[i]]
  <2>1. n + 1 \in Nat
    OBVIOUS
  <2> QED  BY <2>1, RoundsIs
<1> DEFINE S == {i \in Nat : P[i] = Q[i]}
<1>4. 0 \in S
  BY <1>2, <1>3
<1>5. \A i \in 0 .. n - 1 : i \in S => i + 1 \in S
  BY <1>2, <1>3
<1>6. n \in S
  <2> HIDE DEF S
  <2> QED  BY <1>4, <1>5, NumbersUpTo
<1> QED  BY <1>1, <1>2, <1>3, <1>6

\* A round more, taken before the others.
LEMMA RoundFirst ==
    ASSUME NEW n \in Nat, NEW step, NEW start
    PROVE  Rounds(n + 1, step, start) = Rounds(n, step, step[start])
<1> DEFINE S == {i \in Nat : Rounds(i + 1, step, start) = Rounds(i, step, step[start])}
<1>1. 0 \in S
  <2>1. 0 \in Nat /\ 0 + 1 \in Nat
    OBVIOUS
  <2>2. Rounds(0 + 1, step, start) = step[Rounds(0, step, start)] /\ Rounds(0, step, start) = start
    BY <2>1, RoundsAre
  <2>3. Rounds(0, step, step[start]) = step[start]
    BY <2>1, RoundsAre
  <2> QED  BY <2>2, <2>3
<1>2. ASSUME NEW i \in Nat, i \in S PROVE i + 1 \in S
  <2>1. Rounds(i + 1 + 1, step, start) = step[Rounds(i + 1, step, start)]
    <3>1. i + 1 \in Nat
      OBVIOUS
    <3> QED  BY <3>1, RoundsAre
  <2>2. Rounds(i + 1, step, step[start]) = step[Rounds(i, step, step[start])]
    BY RoundsAre
  <2> QED  BY <1>2, <2>1, <2>2
<1>3. n \in S
  <2> HIDE DEF S
  <2> QED  BY <1>1, <1>2, EveryNumber
<1> QED  BY <1>3

LEMMA RoundsKeep ==
    ASSUME NEW n \in Nat, NEW step, NEW start, NEW P, start \in P, \A s \in P : step[s] \in P
    PROVE  Rounds(n, step, start) \in P
<1> DEFINE S == {i \in Nat : Rounds(i, step, start) \in P}
<1>1. 0 \in S
  BY RoundsAre
<1>2. ASSUME NEW i \in Nat, i \in S PROVE i + 1 \in S
  BY <1>2, RoundsAre
<1>3. n \in S
  <2> HIDE DEF S
  <2> QED  BY <1>1, <1>2, EveryNumber
<1> QED  BY <1>3

\* P: what holds before and after a round, D: the loop has ended, m: a measure.
EndsWithin(n, step, start, P, D, m) ==
    /\ start \in P
    /\ \A s \in P : step[s] \in P /\ m[s] \in Nat
    /\ \A s \in P : s \in D => step[s] \in D
    /\ \A s \in P : s \in D \/ step[s] \in D \/ m[step[s]] < m[s]
    /\ start \in D \/ m[start] < n

LEMMA RoundsEnd ==
    ASSUME NEW n \in Nat, NEW step, NEW start, NEW P, NEW D, NEW m,
           EndsWithin(n, step, start, P, D, m)
    PROVE  Rounds(n, step, start) \in P /\ Rounds(n, step, start) \in D
<1>0. /\ start \in P
      /\ \A s \in P : step[s] \in P /\ m[s] \in Nat
      /\ \A s \in P : s \in D => step[s] \in D
      /\ \A s \in P : s \in D \/ step[s] \in D \/ m[step[s]] < m[s]
      /\ start \in D \/ m[start] < n
  BY DEF EndsWithin
<1>1. \A i \in Nat : Rounds(i, step, start) \in P
  BY <1>0, RoundsKeep
<1> DEFINE S == {i \in Nat : Rounds(i, step, start) \in D
                                \/ m[Rounds(i, step, start)] + i < n}
<1>2. 0 \in S
  BY <1>0, RoundsAre
<1>3. ASSUME NEW i \in Nat, i \in S PROVE i + 1 \in S
  <2> DEFINE a == Rounds(i, step, start)
  <2>1. a \in P /\ Rounds(i + 1, step, start) = step[a]
    BY <1>1, RoundsAre
  <2>2. a \in D \/ m[a] + i < n
    BY <1>3
  <2> HIDE DEF a
  <2>3. m[a] \in Nat /\ m[step[a]] \in Nat
    BY <1>0, <2>1
  <2>4. step[a] \in D \/ m[step[a]] + (i + 1) < n
    BY <1>0, <2>1, <2>2, <2>3
  <2> QED  BY <2>1, <2>4
<1>4. n \in S
  <2> HIDE DEF S
  <2> QED  BY <1>2, <1>3, EveryNumber
<1>5. m[Rounds(n, step, start)] \in Nat
  BY <1>0, <1>1
<1> QED  BY <1>1, <1>4, <1>5

-----------------------------------------------------------------------------
(***************************************************************************)
(* Leftmost minima: r is the first of the positions lo .. hi at which f is *)
(* least.                                                                  *)
(***************************************************************************)
AtLeftmost(f, r, lo, hi) ==
    /\ r \in lo .. hi
    /\ \A q \in lo .. hi : f[r] < f[q] \/ (f[r] = f[q] /\ r <= q)

LEMMA LeftmostOfOne ==
    ASSUME NEW f, NEW a \in Int
    PROVE  AtLeftmost(f, a, a, a)
BY DEF AtLeftmost

LEMMA LeftmostJoin ==
    ASSUME NEW f, NEW lo \in Int, NEW mid \in Int, NEW hi \in Int,
           lo <= mid, mid < hi,
           \A q \in lo .. hi : f[q] \in Int,
           NEW r, AtLeftmost(f, r, lo, mid),
           NEW x, AtLeftmost(f, x, mid + 1, hi)
    PROVE  AtLeftmost(f, IF f[x] < f[r] THEN x ELSE r, lo, hi)
<1>1. r \in lo .. hi /\ x \in lo .. hi /\ r < x /\ r \in lo .. mid /\ x \in mid + 1 .. hi
  BY DEF AtLeftmost
<1>2. \A q \in lo .. hi : q \in lo .. mid \/ q \in mid + 1 .. hi
  OBVIOUS
<1>3. CASE f[x] < f[r]
  <2>1. \A q \in lo .. hi : f[x] < f[q] \/ (f[x] = f[q] /\ x <= q)
    <3> TAKE q \in lo .. hi
    <3>1. CASE q \in lo .. mid
      <4>1. f[r] <= f[q] /\ f[r] \in Int /\ f[x] \in Int
        BY <3>1, <1>1 DEF AtLeftmost
      <4> QED  BY <4>1, <1>3
    <3>2. CASE q \in mid + 1 .. hi
      BY <3>2 DEF AtLeftmost
    <3> QED  BY <3>1, <3>2, <1>2
  <2> QED  BY <2>1, <1>1, <1>3 DEF AtLeftmost
<1>4. CASE ~(f[x] < f[r])
  <2>1. \A q \in lo .. hi : f[r] < f[q] \/ (f[r] = f[q] /\ r <= q)
    <3> TAKE q \in lo .. hi
    <3>1. CASE q \in lo .. mid
      BY <3>1 DEF AtLeftmost
    <3>2. CASE q \in mid + 1 .. hi
      <4>1. f[x] < f[q] \/ (f[x] = f[q] /\ x <= q)
        BY <3>2 DEF AtLeftmost
      <4>2. f[x] \in Int /\ f[r] \in Int /\ f[q] \in Int
        BY <1>1
      <4>3. r <= q /\ f[r] <= f[x]
        BY <3>2, <1>1, <1>4, <4>2
      <4> QED  BY <4>1, <4>2, <4>3
    <3> QED  BY <3>1, <3>2, <1>2
  <2> QED  BY <2>1, <1>1, <1>4 DEF AtLeftmost
<1> QED  BY <1>3, <1>4

LEMMA LeftmostThere ==
    ASSUME NEW f, NEW lo \in Int, NEW hi \in Int, lo <= hi, \A q \in lo .. hi : f[q] \in Int
    PROVE  \E r : AtLeftmost(f, r, lo, hi)
<1> DEFINE S == {i \in Nat : \E r : AtLeftmost(f, r, lo, lo + i)}
           n == hi - lo
<1>0. n \in Nat /\ lo + n = hi
  OBVIOUS
<1>1. 0 \in S
  BY LeftmostOfOne
<1>2. ASSUME NEW i \in 0 .. n - 1, i \in S PROVE i + 1 \in S
  <2>1. PICK r : AtLeftmost(f, r, lo, lo + i)
    BY <1>2
  <2> DEFINE mid == lo + i
             x == mid + 1
  <2>2. AtLeftmost(f, x, x, x)
    BY <1>0, LeftmostOfOne
  <2>3. mid \in Int /\ x \in Int /\ lo <= mid /\ mid < x /\ \A q \in lo .. x : f[q] \in Int
    BY <1>0
  <2>4. AtLeftmost(f, r, lo, mid) /\ AtLeftmost(f, x, mid + 1, x)
    BY <2>1, <2>2
  <2>5. lo + (i + 1) = x /\ i + 1 \in Nat
    BY <1>0
  <2> HIDE DEF mid, x
  <2>6. AtLeftmost(f, IF f[x] < f[r] THEN x ELSE r, lo, x)
    BY <2>3, <2>4, LeftmostJoin
  <2> QED  BY <2>5, <2>6
<1>3. n \in S
  <2> HIDE DEF S, n
  <2> QED  BY <1>0, <1>1, <1>2, NumbersUpTo
<1> QED  BY <1>0, <1>3

LEMMA MinIsLeast ==
    ASSUME NEW S \in SUBSET Int, NEW x \in S, \A y \in S : x <= y
    PROVE  Min(S) = x
<1> DEFINE z == Min(S)
<1>1. z \in S /\ \A y \in S : z <= y
  BY DEF Min
<1> HIDE DEF z
<1>2. z \in Int /\ x \in Int /\ x <= z /\ z <= x
  BY <1>1
<1>3. z = x
  BY <1>2
<1> QED  BY <1>3 DEF z

LEMMA MinOfPair ==
    ASSUME NEW a \in Int, NEW b \in Int
    PROVE  Min({a, b}) = IF a <= b THEN a ELSE b
<1>1. CASE a <= b
  BY <1>1, MinIsLeast
<1>2. CASE b < a
  BY <1>2, MinIsLeast
<1> QED  BY <1>1, <1>2

LEMMA LeastIsLeftmost ==
    ASSUME NEW f, NEW lo \in Int, NEW hi \in Int, \A q \in lo .. hi : f[q] \in Int,
           NEW r, AtLeftmost(f, r, lo, hi)
    PROVE  Min({f[q] : q \in lo .. hi}) = f[r]
<1> DEFINE S == {f[q] : q \in lo .. hi}
<1>1. S \in SUBSET Int /\ f[r] \in S /\ \A y \in S : f[r] <= y
  BY DEF AtLeftmost
<1> HIDE DEF S
<1>2. Min(S) = f[r]
  BY <1>1, MinIsLeast
<1> QED  BY <1>2 DEF S

LEMMA FirstIsLeftmost ==
    ASSUME NEW f, NEW lo \in Int, NEW hi \in Int, \A q \in lo .. hi : f[q] \in Int,
           NEW r, AtLeftmost(f, r, lo, hi)
    PROVE  Min({q \in lo .. hi : f[q] = f[r]}) = r
<1> DEFINE S == {q \in lo .. hi : f[q] = f[r]}
<1>1. S \in SUBSET Int /\ r \in S /\ \A y \in S : r <= y
  BY DEF AtLeftmost
<1> HIDE DEF S
<1>2. Min(S) = r
  BY <1>1, MinIsLeast
<1> QED  BY <1>2 DEF S

LEMMA LeftmostUnique ==
    ASSUME NEW f, NEW lo \in Int, NEW hi \in Int, \A q \in lo .. hi : f[q] \in Int,
           NEW r, AtLeftmost(f, r, lo, hi), NEW x, AtLeftmost(f, x, lo, hi)
    PROVE  r = x
BY DEF AtLeftmost

-----------------------------------------------------------------------------
(***************************************************************************)
(* The zeros before each position: none before the first, and at most one  *)
(* more from a position to the next.                                       *)
(***************************************************************************)
CountsZeros(zeros, size) ==
    /\ zeros[0] = 0
    /\ \A p \in 0 .. size : zeros[p] \in Nat
    /\ \A p \in 0 .. size - 1 : zeros[p + 1] = zeros[p] \/ zeros[p + 1] = zeros[p] + 1

LEMMA ZerosGrow ==
    ASSUME NEW zeros, NEW size \in Nat, CountsZeros(zeros, size),
           NEW p \in 0 .. size, NEW q \in 0 .. size, p <= q
    PROVE  zeros[p] <= zeros[q] /\ zeros[q] <= zeros[p] + (q - p)
<1> DEFINE S == {i \in Nat : zeros[p] <= zeros[p + i] /\ zeros[p + i] <= zeros[p] + i}
           n == q - p
<1>0. n \in Nat /\ p + n = q
  OBVIOUS
<1>1. 0 \in S
  BY DEF CountsZeros
<1>2. ASSUME NEW i \in 0 .. n - 1, i \in S PROVE i + 1 \in S
  <2>1. p + i \in 0 .. size - 1 /\ p + i + 1 \in 0 .. size /\ p + (i + 1) = p + i + 1
    BY <1>0
  <2>2. zeros[p] \in Nat /\ zeros[p + i] \in Nat /\ zeros[p + i + 1] \in Nat
    BY <2>1 DEF CountsZeros
  <2>3. zeros[p + i + 1] = zeros[p + i] \/ zeros[p + i + 1] = zeros[p + i] + 1
    BY <2>1 DEF CountsZeros
  <2>4. zeros[p] <= zeros[p + i] /\ zeros[p + i] <= zeros[p] + i
    BY <1>2
  <2> QED  BY <2>1, <2>2, <2>3, <2>4
<1>3. n \in S
  <2> HIDE DEF S, n
  <2> QED  BY <1>0, <1>1, <1>2, NumbersUpTo
<1> QED  BY <1>0, <1>3

LEMMA TimesGrow ==
    ASSUME NEW a \in Nat, NEW b \in Nat, NEW c \in Nat, a <= b
    PROVE  a * c <= b * c /\ a * c \in Nat /\ b * c \in Nat
<1>1. (b - a) * c \in Nat
  OBVIOUS
<1>2. b * c = a * c + (b - a) * c
  OBVIOUS
<1> QED  BY <1>1, <1>2

\* The zeros before a position, as if the vector went on with zeros.
Padded(zeros, size, x) == zeros[IF x <= size THEN x ELSE size] + (IF x <= size THEN 0 ELSE x - size)

LEMMA PaddedGrows ==
    ASSUME NEW zeros, NEW size \in Nat, CountsZeros(zeros, size),
           NEW x \in Nat, NEW y \in Nat, x <= y
    PROVE  /\ Padded(zeros, size, x) \in Nat /\ Padded(zeros, size, y) \in Nat
           /\ Padded(zeros, size, x) <= Padded(zeros, size, y)
           /\ Padded(zeros, size, y) <= Padded(zeros, size, x) + (y - x)
<1> DEFINE cx == IF x <= size THEN x ELSE size
           cy == IF y <= size THEN y ELSE size
<1>1. cx \in 0 .. size /\ cy \in 0 .. size /\ cx <= cy
  OBVIOUS
<1>2. zeros[cx] <= zeros[cy] /\ zeros[cy] <= zeros[cx] + (cy - cx)
  <2> HIDE DEF cx, cy
  <2> QED  BY <1>1, ZerosGrow
<1>3. zeros[cx] \in Nat /\ zeros[cy] \in Nat
  BY <1>1 DEF CountsZeros
<1>4. /\ Padded(zeros, size, x) = zeros[cx] + (x - cx)
      /\ Padded(zeros, size, y) = zeros[cy] + (y - cy)
  BY <1>3 DEF Padded
<1>5. x - cx \in Nat /\ y - cy \in Nat /\ x - cx <= y - cy
  OBVIOUS
<1> HIDE DEF cx, cy
<1> QED  BY <1>1, <1>2, <1>3, <1>4, <1>5

LEMMA BlockZerosIs ==
    ASSUME NEW zeros, NEW size \in Nat, CountsZeros(zeros, size), NEW b \in Nat
    PROVE  BlockZeros(zeros, size, b) = Padded(zeros, size, b * RankBlock)
<1> DEFINE x == b * RankBlock
<1>1. x \in Nat
  BY HintAssumption
<1> HIDE DEF x
<1>2. Min({x, size}) = IF x <= size THEN x ELSE size
  BY <1>1, MinOfPair
<1>3. zeros[IF x <= size THEN x ELSE size] \in Nat
  BY <1>1 DEF CountsZeros
<1> QED  BY <1>1, <1>2, <1>3 DEF BlockZeros, Padded, x

LEMMA BlockZerosGrow ==
    ASSUME NEW zeros, NEW size \in Nat, CountsZeros(zeros, size), NEW b \in Nat, NEW c \in Nat, b <= c
    PROVE  /\ BlockZeros(zeros, size, b) \in Nat /\ BlockZeros(zeros, size, c) \in Nat
           /\ BlockZeros(zeros, size, b) <= BlockZeros(zeros, size, c)
           /\ BlockZeros(zeros, size, b + 1) \in Nat
           /\ BlockZeros(zeros, size, b + 1) <= BlockZeros(zeros, size, b) + RankBlock
<1> DEFINE x == b * RankBlock
           y == c * RankBlock
           z == (b + 1) * RankBlock
<1>1. x \in Nat /\ y \in Nat /\ x <= y
  BY HintAssumption, TimesGrow
<1>2. z = x + RankBlock /\ z \in Nat /\ x <= z /\ z - x = RankBlock
  BY HintAssumption
<1>3. /\ BlockZeros(zeros, size, b) = Padded(zeros, size, x)
      /\ BlockZeros(zeros, size, c) = Padded(zeros, size, y)
      /\ BlockZeros(zeros, size, b + 1) = Padded(zeros, size, z)
  BY BlockZerosIs
<1> HIDE DEF x, y, z
<1>4. /\ Padded(zeros, size, x) \in Nat /\ Padded(zeros, size, y) \in Nat
      /\ Padded(zeros, size, x) <= Padded(zeros, size, y)
  BY <1>1, PaddedGrows
<1>5. /\ Padded(zeros, size, z) \in Nat
      /\ Padded(zeros, size, z) <= Padded(zeros, size, x) + (z - x)
  BY <1>1, <1>2, PaddedGrows
<1> QED  BY <1>2, <1>3, <1>4, <1>5

\* Dividing, rounded down and up.
LEMMA QuotientIs ==
    ASSUME NEW n \in Nat, NEW d \in Nat \ {0}
    PROVE  /\ n \div d \in Nat
           /\ (n \div d) * d <= n
           /\ n < (n \div d) * d + d
           /\ (n \div d + 1) * d = (n \div d) * d + d
OBVIOUS

LEMMA CeilDivIs ==
    ASSUME NEW n \in Nat, NEW d \in Nat \ {0}
    PROVE  /\ CeilDiv(n, d) \in Nat
           /\ n <= CeilDiv(n, d) * d
           /\ CeilDiv(n, d) * d < n + d
<1> DEFINE q == (n + d - 1) \div d
<1>1. n + d - 1 \in Nat
  OBVIOUS
<1>2. q \in Nat /\ q * d <= n + d - 1 /\ n + d - 1 < q * d + d
  <2> DEFINE u == n + d - 1
  <2>1. u \in Nat
    BY <1>1
  <2> HIDE DEF u
  <2>2. u \div d \in Nat /\ (u \div d) * d <= u /\ u < (u \div d) * d + d
    BY <2>1, QuotientIs
  <2> QED  BY <2>2 DEF u
<1>3. q * d \in Nat
  BY <1>2
<1> HIDE DEF q
<1> QED  BY <1>2, <1>3 DEF CeilDiv, q

-----------------------------------------------------------------------------
(***************************************************************************)
(* Hint j is the block that reaches beyond j * ZerosPerHint zeros; the     *)
(* last one is the number of blocks.                                       *)
(***************************************************************************)
Hinted(zeros, size, hints, n, b) ==
    /\ hints \in Seq(Nat)
    /\ n = Len(hints)
    /\ \A j \in 1 .. n :
           /\ hints[j] < b
           /\ BlockZeros(zeros, size, hints[j]) <= j * ZerosPerHint
           /\ j * ZerosPerHint < BlockZeros(zeros, size, hints[j] + 1)

Looks(zeros, size) ==
    {s \in [block : Nat, threshold : Nat, hints : Seq(Nat)] :
        /\ Hinted(zeros, size, s.hints, Len(s.hints), s.block)
        /\ s.threshold = (Len(s.hints) + 1) * ZerosPerHint
        /\ BlockZeros(zeros, size, s.block) <= s.threshold}

Look(zeros, size) ==
    [s \in [block : Nat, threshold : Nat, hints : Seq(Nat)] |->
        IF BlockZeros(zeros, size, s.block + 1) > s.threshold
        THEN [block |-> s.block + 1,
              threshold |-> s.threshold + ZerosPerHint,
              hints |-> Append(s.hints, s.block)]
        ELSE [s EXCEPT !.block = @ + 1]]

LEMMA HintedAppend ==
    ASSUME NEW zeros, NEW size, NEW hints, NEW b \in Nat, NEW n,
           Hinted(zeros, size, hints, n, b),
           BlockZeros(zeros, size, b) <= (n + 1) * ZerosPerHint,
           (n + 1) * ZerosPerHint < BlockZeros(zeros, size, b + 1)
    PROVE  Hinted(zeros, size, Append(hints, b), n + 1, b + 1)
<1>1. hints \in Seq(Nat) /\ n = Len(hints) /\ n \in Nat
  BY DEF Hinted
<1>2. /\ Append(hints, b) \in Seq(Nat) /\ Len(Append(hints, b)) = n + 1
      /\ \A j \in 1 .. n : Append(hints, b)[j] = hints[j]
      /\ Append(hints, b)[n + 1] = b
  BY <1>1
<1> DEFINE h == Append(hints, b)
<1>3. ASSUME NEW j \in 1 .. n + 1
      PROVE  /\ h[j] < b + 1
             /\ BlockZeros(zeros, size, h[j]) <= j * ZerosPerHint
             /\ j * ZerosPerHint < BlockZeros(zeros, size, h[j] + 1)
  <2>1. CASE j \in 1 .. n
    BY <2>1, <1>2 DEF Hinted
  <2>2. CASE j = n + 1
    BY <2>2, <1>2
  <2> QED  BY <2>1, <2>2, <1>1
<1> HIDE DEF h
<1>4. h \in Seq(Nat) /\ Len(h) = n + 1
  BY <1>2 DEF h
<1>5. Hinted(zeros, size, h, n + 1, b + 1)
  BY <1>3, <1>4 DEF Hinted
<1> QED  BY <1>5 DEF h

LEMMA LooksHas ==
    ASSUME NEW zeros, NEW size, NEW b \in Nat, NEW t \in Nat, NEW h, NEW n,
           Hinted(zeros, size, h, n, b), t = (n + 1) * ZerosPerHint, BlockZeros(zeros, size, b) <= t
    PROVE  [block |-> b, threshold |-> t, hints |-> h] \in Looks(zeros, size)
<1> DEFINE s == [block |-> b, threshold |-> t, hints |-> h]
<1>1. s \in [block : Nat, threshold : Nat, hints : Seq(Nat)]
  BY DEF Hinted
<1>2. s.block = b /\ s.threshold = t /\ s.hints = h /\ Len(h) = n
  BY DEF Hinted
<1> HIDE DEF s
<1>3. s \in Looks(zeros, size)
  BY <1>1, <1>2 DEF Looks
<1> QED  BY <1>3 DEF s

LEMMA LookKeeps ==
    ASSUME NEW zeros, NEW size \in Nat, CountsZeros(zeros, size), NEW s \in Looks(zeros, size)
    PROVE  /\ Look(zeros, size)[s] \in Looks(zeros, size)
           /\ Look(zeros, size)[s].block = s.block + 1
<1> DEFINE b == s.block
           t == s.threshold
           h == s.hints
           n == Len(h)
           z == ZerosPerHint
           F == BlockZeros(zeros, size, b)
           G == BlockZeros(zeros, size, b + 1)
           r == Look(zeros, size)[s]
<1>1. /\ b \in Nat /\ t \in Nat /\ h \in Seq(Nat) /\ n \in Nat /\ z \in Nat /\ RankBlock \in Nat
      /\ Hinted(zeros, size, h, n, b) /\ t = (n + 1) * z /\ F <= t
      /\ s = [block |-> b, threshold |-> t, hints |-> h]
  BY HintAssumption DEF Looks
<1>2. F \in Nat /\ G \in Nat /\ G <= F + RankBlock
  BY <1>1, BlockZerosGrow
<1>3. RankBlock < z
  BY HintAssumption
<1>4. r = IF G > t
          THEN [block |-> b + 1, threshold |-> t + z, hints |-> Append(h, b)]
          ELSE [block |-> b + 1, threshold |-> t, hints |-> h]
  <2>1. s \in [block : Nat, threshold : Nat, hints : Seq(Nat)]
    BY DEF Looks
  <2>2. r = IF G > t
            THEN [block |-> b + 1, threshold |-> t + z, hints |-> Append(h, b)]
            ELSE [s EXCEPT !.block = @ + 1]
    BY <2>1 DEF Look
  <2>3. [s EXCEPT !.block = @ + 1] = [block |-> b + 1, threshold |-> t, hints |-> h]
    <3> HIDE DEF b, t, h
    <3> QED  BY <1>1
  <2> HIDE DEF b, t, h, n, z, F, G, r
  <2> QED  BY <2>2, <2>3
<1> HIDE DEF b, t, h, n, z, F, G, r
<1>5. CASE G > t
  <2>1. r = [block |-> b + 1, threshold |-> t + z, hints |-> Append(h, b)]
    BY <1>4, <1>5
  <2>2. Hinted(zeros, size, Append(h, b), n + 1, b + 1)
    <3>1. BlockZeros(zeros, size, b) <= (n + 1) * ZerosPerHint
      BY <1>1 DEF F, z
    <3>2. (n + 1) * ZerosPerHint < BlockZeros(zeros, size, b + 1)
      BY <1>1, <1>2, <1>5 DEF G, z
    <3> QED  BY <1>1, <3>1, <3>2, HintedAppend
  <2>3. Append(h, b) \in Seq(Nat) /\ Len(Append(h, b)) = n + 1
    BY <2>2 DEF Hinted
  <2>4. t + z \in Nat /\ t + z = (n + 1 + 1) * z
    BY <1>1
  <2>5. G <= t + z
    BY <1>1, <1>2, <1>3
  <2>6. r \in Looks(zeros, size)
    <3>1. BlockZeros(zeros, size, b + 1) <= t + z /\ t + z = (n + 1 + 1) * ZerosPerHint
      BY <2>4, <2>5 DEF G, z
    <3>2. b + 1 \in Nat
      BY <1>1
    <3> QED  BY <2>1, <2>2, <2>4, <3>1, <3>2, LooksHas
  <2> QED  BY <2>1, <2>6 DEF r, b
<1>6. CASE ~(G > t)
  <2>1. r = [block |-> b + 1, threshold |-> t, hints |-> h]
    BY <1>4, <1>6
  <2>2. G <= t
    BY <1>1, <1>2, <1>6
  <2>3. Hinted(zeros, size, h, n, b + 1)
    BY <1>1 DEF Hinted
  <2>4. r \in Looks(zeros, size)
    <3>1. BlockZeros(zeros, size, b + 1) <= t /\ t = (n + 1) * ZerosPerHint
      BY <1>1, <2>2 DEF G, z
    <3>2. b + 1 \in Nat
      BY <1>1
    <3> QED  BY <2>1, <2>3, <1>1, <3>1, <3>2, LooksHas
  <2> QED  BY <2>1, <2>4 DEF r, b
<1> QED  BY <1>5, <1>6

LEMMA HintsAre ==
    ASSUME NEW zeros, NEW size \in Nat, CountsZeros(zeros, size)
    PROVE  \E hints, n : /\ Hinted(zeros, size, hints, n, CeilDiv(size, RankBlock))
                         /\ BlockZeros(zeros, size, CeilDiv(size, RankBlock)) <= (n + 1) * ZerosPerHint
                         /\ HintsOf(zeros, size) = Append(hints, CeilDiv(size, RankBlock))
<1> DEFINE blocks == CeilDiv(size, RankBlock)
           start == [block |-> 0, threshold |-> ZerosPerHint, hints |-> <<>>]
           look == Look(zeros, size)
           S == {i \in Nat : /\ Rounds(i, look, start) \in Looks(zeros, size)
                             /\ Rounds(i, look, start).block = i}
<1>1. blocks \in Nat
  BY HintAssumption, CeilDivIs
<1>2. start \in Looks(zeros, size)
  <2>1. ZerosPerHint \in Nat /\ <<>> \in Seq(Nat) /\ Len(<<>>) = 0 /\ ZerosPerHint = (0 + 1) * ZerosPerHint
    BY HintAssumption
  <2>2. BlockZeros(zeros, size, 0) <= ZerosPerHint
    <3>1. BlockZeros(zeros, size, 0) = Padded(zeros, size, 0 * RankBlock) /\ 0 * RankBlock = 0
      BY BlockZerosIs, HintAssumption
    <3>2. Padded(zeros, size, 0) = 0
      BY DEF Padded, CountsZeros
    <3> QED  BY <3>1, <3>2, <2>1
  <2>3. Hinted(zeros, size, <<>>, 0, 0)
    BY <2>1 DEF Hinted
  <2> QED  BY <2>1, <2>2, <2>3 DEF Looks
<1>3. 0 \in S
  <2>1. Rounds(0, look, start) = start /\ start.block = 0
    BY RoundsAre
  <2> QED  BY <2>1, <1>2
<1>4. ASSUME NEW i \in Nat, i \in S PROVE i + 1 \in S
  <2> DEFINE s == Rounds(i, look, start)
  <2>1. s \in Looks(zeros, size) /\ s.block = i /\ Rounds(i + 1, look, start) = look[s]
    BY <1>4, RoundsAre
  <2> HIDE DEF s
  <2>2. look[s] \in Looks(zeros, size) /\ look[s].block = i + 1
    BY <2>1, LookKeeps
  <2> QED  BY <2>1, <2>2
<1>5. blocks \in S
  <2> HIDE DEF S, blocks
  <2> QED  BY <1>1, <1>3, <1>4, EveryNumber
<1> DEFINE s == Rounds(blocks, look, start)
<1>6. HintsOf(zeros, size) = Append(s.hints, blocks)
  BY DEF HintsOf, Look
<1>7. s \in Looks(zeros, size) /\ s.block = blocks
  BY <1>5
<1> HIDE DEF s, blocks
<1>8. /\ Hinted(zeros, size, s.hints, Len(s.hints), blocks)
      /\ BlockZeros(zeros, size, blocks) <= (Len(s.hints) + 1) * ZerosPerHint
  BY <1>7 DEF Looks
<1> QED  BY <1>6, <1>8 DEF blocks

-----------------------------------------------------------------------------
(***************************************************************************)
(* The hints enclose the block of a zero, and the search keeps it so.      *)
(***************************************************************************)
Encloses(v, n, s) ==
    /\ s.from \in Nat /\ s.to \in Nat
    /\ BlockZeros(v.zeros, v.size, s.from) <= n
    /\ n < BlockZeros(v.zeros, v.size, s.to)
    /\ s.to <= CeilDiv(v.size, RankBlock) + 1

LEMMA EnclosesGrows ==
    ASSUME NEW v, v.size \in Nat, CountsZeros(v.zeros, v.size), NEW n \in Nat, NEW s, Encloses(v, n, s)
    PROVE  s.from < s.to
<1>1. s.from \in Nat /\ s.to \in Nat
  BY DEF Encloses
<1>2. CASE s.to <= s.from
  BY <1>1, <1>2, BlockZerosGrow DEF Encloses
<1> QED  BY <1>1, <1>2

LEMMA HintsEnclose ==
    ASSUME NEW v, v.size \in Nat, CountsZeros(v.zeros, v.size), v.hints = HintsOf(v.zeros, v.size),
           NEW n \in Nat, n < v.zeros[v.size]
    PROVE  Encloses(v, n, [from |-> HintedFrom(v, n), to |-> HintedTo(v, n)])
<1> DEFINE zeros == v.zeros
           size == v.size
           blocks == CeilDiv(size, RankBlock)
           z == ZerosPerHint
           c == n \div z
<1>1. z \in Nat \ {0} /\ RankBlock \in Nat \ {0} /\ RankBlock < z
  BY HintAssumption
<1>2. c \in Nat /\ c * z <= n /\ n < c * z + z /\ (c + 1) * z = c * z + z
  BY <1>1, QuotientIs
<1>3. blocks \in Nat /\ size <= blocks * RankBlock
  BY <1>1, CeilDivIs
<1>4. PICK h, m : /\ Hinted(zeros, size, h, m, blocks)
                  /\ BlockZeros(zeros, size, blocks) <= (m + 1) * z
                  /\ v.hints = Append(h, blocks)
  BY HintsAre
<1> HIDE DEF c, blocks
<1>5. /\ m \in Nat /\ v.hints[m + 1] = blocks
      /\ \A j \in 1 .. m : v.hints[j] = h[j] /\ h[j] \in Nat
  BY <1>3, <1>4 DEF Hinted
<1>6. n < BlockZeros(zeros, size, blocks)
  <2> DEFINE x == blocks * RankBlock
  <2>1. x \in Nat /\ size <= x /\ BlockZeros(zeros, size, blocks) = Padded(zeros, size, x)
    BY <1>1, <1>3, BlockZerosIs
  <2> HIDE DEF x
  <2>2. Padded(zeros, size, x) = zeros[size] + (x - size)
    BY <2>1 DEF Padded, CountsZeros
  <2> QED  BY <2>1, <2>2 DEF CountsZeros
<1>7. c <= m
  <2>1. CASE m + 1 <= c
    <3>1. (m + 1) * z <= c * z
      <4>1. m + 1 \in Nat /\ z \in Nat /\ m + 1 <= c
        BY <1>1, <1>5, <2>1
      <4> HIDE DEF z
      <4> QED  BY <4>1, <1>2, TimesGrow
    <3>2. (m + 1) * z \in Nat /\ c * z \in Nat
      BY <1>1, <1>2, <1>5
    <3>3. BlockZeros(zeros, size, blocks) \in Nat
      BY <1>3, BlockZerosGrow
    <3> QED  BY <3>1, <3>2, <3>3, <1>2, <1>4, <1>6
  <2> QED  BY <2>1, <1>2, <1>5
<1> DEFINE from == HintedFrom(v, n)
           to == HintedTo(v, n)
<1>8. from = (IF c = 0 THEN 0 ELSE v.hints[c]) /\ to = v.hints[c + 1] + 1
  BY DEF HintedFrom, HintedTo, c
<1> HIDE DEF from, to
<1>9. from \in Nat /\ BlockZeros(zeros, size, from) <= n
  <2>1. CASE c = 0
    <3>1. BlockZeros(zeros, size, 0) = Padded(zeros, size, 0 * RankBlock) /\ 0 * RankBlock = 0
      BY BlockZerosIs, HintAssumption
    <3>2. Padded(zeros, size, 0) = 0
      BY DEF Padded, CountsZeros
    <3> QED  BY <2>1, <1>8, <3>1, <3>2
  <2>2. CASE c # 0
    <3>1. c \in 1 .. m
      BY <1>2, <1>5, <1>7, <2>2
    <3>2. from = h[c] /\ h[c] \in Nat
      BY <1>5, <1>8, <2>2, <3>1
    <3>3. BlockZeros(zeros, size, h[c]) <= c * z
      BY <1>4, <3>1 DEF Hinted
    <3>4. BlockZeros(zeros, size, h[c]) \in Nat /\ c * z \in Nat
      BY <1>1, <1>2, <3>2, BlockZerosGrow
    <3> QED  BY <1>2, <3>2, <3>3, <3>4
  <2> QED  BY <2>1, <2>2
<1>10. to \in Nat /\ n < BlockZeros(zeros, size, to)
  <2>1. CASE c = m
    <3>1. to = blocks + 1
      BY <1>5, <1>8, <2>1
    <3>2. /\ BlockZeros(zeros, size, blocks) \in Nat /\ BlockZeros(zeros, size, blocks + 1) \in Nat
          /\ BlockZeros(zeros, size, blocks) <= BlockZeros(zeros, size, blocks + 1)
      BY <1>3, BlockZerosGrow
    <3> QED  BY <1>3, <1>6, <3>1, <3>2
  <2>2. CASE c < m
    <3>1. c + 1 \in 1 .. m
      BY <1>2, <1>5, <2>2
    <3>2. to = h[c + 1] + 1 /\ h[c + 1] \in Nat
      BY <1>5, <1>8, <3>1
    <3>3. (c + 1) * z < BlockZeros(zeros, size, h[c + 1] + 1)
      BY <1>4, <3>1 DEF Hinted
    <3>4. BlockZeros(zeros, size, h[c + 1] + 1) \in Nat /\ c * z \in Nat
      BY <1>1, <1>2, <3>2, BlockZerosGrow
    <3> QED  BY <1>1, <1>2, <3>2, <3>3, <3>4
  <2> QED  BY <2>1, <2>2, <1>2, <1>5, <1>7
<1>11. to <= blocks + 1
  <2>1. CASE c = m
    BY <1>3, <1>5, <1>8, <2>1
  <2>2. CASE c < m
    <3>1. c + 1 \in 1 .. m
      BY <1>2, <1>5, <2>2
    <3>2. to = h[c + 1] + 1 /\ h[c + 1] \in Nat
      BY <1>5, <1>8, <3>1
    <3>3. h[c + 1] < blocks
      BY <1>4, <3>1 DEF Hinted
    <3> QED  BY <3>2, <3>3, <1>3
  <2> QED  BY <2>1, <2>2, <1>2, <1>5, <1>7
<1> QED  BY <1>9, <1>10, <1>11 DEF Encloses, from, to, blocks

Halves(v, n) ==
    [s \in [from : Nat, to : Nat] |->
        LET mid == s.from + ((s.to - s.from) \div 2)
        IN  IF s.to - s.from <= 1 THEN s
            ELSE IF BlockZeros(v.zeros, v.size, mid) <= n
            THEN [s EXCEPT !.from = mid]
            ELSE [s EXCEPT !.to = mid]]

Enclosing(v, n) == {s \in [from : Nat, to : Nat] : Encloses(v, n, s)}

LEMMA HalvesKeep ==
    ASSUME NEW v, v.size \in Nat, CountsZeros(v.zeros, v.size), NEW n \in Nat,
           NEW s \in Enclosing(v, n)
    PROVE  /\ Halves(v, n)[s] \in Enclosing(v, n)
           /\ s.to - s.from <= 1 => Halves(v, n)[s] = s
           /\ s.to - s.from > 1 => Halves(v, n)[s].to - Halves(v, n)[s].from < s.to - s.from
<1> DEFINE mid == s.from + ((s.to - s.from) \div 2)
           r == Halves(v, n)[s]
<1>1. /\ s \in [from : Nat, to : Nat] /\ s.from \in Nat /\ s.to \in Nat
      /\ s = [from |-> s.from, to |-> s.to]
      /\ Encloses(v, n, s)
  BY DEF Enclosing
<1>2. r = IF s.to - s.from <= 1 THEN s
          ELSE IF BlockZeros(v.zeros, v.size, mid) <= n
          THEN [from |-> mid, to |-> s.to]
          ELSE [from |-> s.from, to |-> mid]
  <2>1. r = IF s.to - s.from <= 1 THEN s
            ELSE IF BlockZeros(v.zeros, v.size, mid) <= n
            THEN [s EXCEPT !.from = mid]
            ELSE [s EXCEPT !.to = mid]
    BY <1>1 DEF Halves
  <2> HIDE DEF r, mid
  <2>2. /\ [s EXCEPT !.from = mid] = [from |-> mid, to |-> s.to]
        /\ [s EXCEPT !.to = mid] = [from |-> s.from, to |-> mid]
    BY <1>1
  <2> QED  BY <2>1, <2>2
<1>3. CASE s.to - s.from <= 1
  BY <1>1, <1>2, <1>3 DEF Enclosing
<1>4. CASE s.to - s.from > 1
  <2>1. mid \in Nat /\ s.from < mid /\ mid < s.to
    BY <1>1, <1>4
  <2> HIDE DEF mid
  <2>2. BlockZeros(v.zeros, v.size, mid) \in Nat
    BY <2>1, BlockZerosGrow
  <2>3. CASE BlockZeros(v.zeros, v.size, mid) <= n
    <3>1. r = [from |-> mid, to |-> s.to]
      BY <1>1, <1>2, <1>4, <2>3
    <3>2. r.from = mid /\ r.to = s.to /\ r \in [from : Nat, to : Nat]
      BY <3>1, <1>1, <2>1
    <3> HIDE DEF r
    <3>3. r \in Enclosing(v, n)
      BY <3>2, <1>1, <2>1, <2>3 DEF Enclosing, Encloses
    <3> QED  BY <3>2, <3>3, <1>1, <1>4, <2>1 DEF r
  <2>4. CASE ~(BlockZeros(v.zeros, v.size, mid) <= n)
    <3>1. r = [from |-> s.from, to |-> mid]
      BY <1>1, <1>2, <1>4, <2>4
    <3>2. r.from = s.from /\ r.to = mid /\ r \in [from : Nat, to : Nat]
      BY <3>1, <1>1, <2>1
    <3> HIDE DEF r
    <3>3. r \in Enclosing(v, n)
      <4>1. s.to <= CeilDiv(v.size, RankBlock) + 1 /\ CeilDiv(v.size, RankBlock) \in Nat
        BY <1>1, HintAssumption, CeilDivIs DEF Encloses
      <4>2. mid <= CeilDiv(v.size, RankBlock) + 1
        BY <1>1, <2>1, <4>1
      <4>3. n < BlockZeros(v.zeros, v.size, mid)
        BY <2>2, <2>4
      <4> QED  BY <3>2, <1>1, <2>1, <4>2, <4>3 DEF Enclosing, Encloses
    <3> QED  BY <3>2, <3>3, <1>1, <1>4, <2>1 DEF r
  <2> QED  BY <2>3, <2>4
<1> QED  BY <1>1, <1>3, <1>4

LEMMA SearchEnds ==
    ASSUME NEW v, v.size \in Nat, v.size > 0, CountsZeros(v.zeros, v.size),
           v.hints = HintsOf(v.zeros, v.size),
           NEW n \in Nat, n < v.zeros[v.size]
    PROVE  /\ BlockOfZero(v, n) \in Nat
           /\ BlockZeros(v.zeros, v.size, BlockOfZero(v, n)) <= n
           /\ n < BlockZeros(v.zeros, v.size, BlockOfZero(v, n) + 1)
<1> DEFINE blocks == CeilDiv(v.size, RankBlock)
           start == [from |-> HintedFrom(v, n), to |-> HintedTo(v, n)]
           step == Halves(v, n)
           P == Enclosing(v, n)
           D == {s \in P : s.to - s.from <= 1}
           m == [s \in P |-> IF s.to - s.from <= 1 THEN 0 ELSE s.to - s.from - 2]
           r == Rounds(blocks, step, start)
<1>1. blocks \in Nat
  BY HintAssumption, CeilDivIs
<1>2. start \in P
  <2>1. Encloses(v, n, start)
    BY HintsEnclose
  <2>2. start.from \in Nat /\ start.to \in Nat
    BY <2>1 DEF Encloses
  <2>3. start \in [from : Nat, to : Nat]
    <3> DEFINE a == HintedFrom(v, n)
               b == HintedTo(v, n)
    <3> HIDE DEF a, b
    <3>1. start = [from |-> a, to |-> b]
      BY DEF a, b
    <3>2. a \in Nat /\ b \in Nat
      BY <2>2, <3>1
    <3> QED  BY <3>1, <3>2
  <2> QED  BY <2>1, <2>3 DEF Enclosing
<1>3. \A s \in P : step[s] \in P
  BY HalvesKeep
<1>4. \A s \in P : s \in D => step[s] \in D
  BY HalvesKeep
<1>5. \A s \in P : s.to \in Nat /\ s.from \in Nat /\ s.to <= blocks + 1 /\ s.from < s.to
  BY EnclosesGrows DEF Enclosing, Encloses
<1>6. \A s \in P : m[s] \in Nat
  BY <1>5
<1>7. \A s \in P : s \in D \/ step[s] \in D \/ m[step[s]] < m[s]
  <2> TAKE s \in P
  <2> DEFINE u == step[s]
  <2>1. u \in P
    BY <1>3
  <2>2. CASE s.to - s.from > 1
    <3>1. u.to - u.from < s.to - s.from
      BY <2>2, HalvesKeep
    <3> HIDE DEF u
    <3>2. s.to \in Nat /\ s.from \in Nat /\ u.to \in Nat /\ u.from \in Nat
      BY <2>1, <1>5
    <3>3. u \in D \/ m[u] < m[s]
      BY <2>1, <2>2, <3>1, <3>2
    <3> QED  BY <3>3 DEF u
  <2> QED  BY <2>2, <1>5
<1>8. start \in D \/ m[start] < blocks
  <2>0. start.to \in Nat /\ start.from \in Nat /\ start.to <= blocks + 1
    <3> HIDE DEF start
    <3> QED  BY <1>2, <1>5
  <2>1. CASE start.to - start.from <= 1
    BY <1>2, <2>1
  <2>2. CASE start.to - start.from > 1
    <3>1. m[start] = start.to - start.from - 2
      <4> HIDE DEF start, P
      <4> QED  BY <1>2, <2>0, <2>2
    <3> HIDE DEF m, start
    <3> QED  BY <2>0, <2>2, <3>1, <1>1
  <2> QED  BY <2>0, <2>1, <2>2
<1>9. r \in P /\ r \in D
  <2> HIDE DEF P, D, step, start, m, blocks
  <2>1. EndsWithin(blocks, step, start, P, D, m)
    BY <1>2, <1>3, <1>4, <1>6, <1>7, <1>8 DEF EndsWithin
  <2> QED  BY <1>1, <2>1, RoundsEnd
<1>10. BlockOfZero(v, n) = r.from
  BY DEF BlockOfZero, Halves
<1> HIDE DEF r
<1>11. r.to = r.from + 1 /\ r.from \in Nat
  BY <1>5, <1>9
<1> QED  BY <1>9, <1>10, <1>11 DEF Enclosing, Encloses

(***************************************************************************)
(* select0() finds the zero with that many zeros before it.                *)
(***************************************************************************)
LEMMA SelectFinds ==
    ASSUME NEW v, v.size \in Nat, CountsZeros(v.zeros, v.size), v.hints = HintsOf(v.zeros, v.size),
           NEW p \in 0 .. v.size - 1, v.zeros[p + 1] = v.zeros[p] + 1
    PROVE  Select0(v, v.zeros[p]) = p
<1> DEFINE n == v.zeros[p]
           size == v.size
           zeros == v.zeros
           block == BlockOfZero(v, n)
           first == block * RankBlock
<1>1. /\ size > 0 /\ p + 1 \in 0 .. size /\ p \in 0 .. size /\ size \in 0 .. size
      /\ p \in Nat /\ p + 1 \in Nat /\ p < size
  OBVIOUS
<1>2. n \in Nat /\ n < zeros[size]
  <2>1. zeros[p + 1] <= zeros[size]
    BY <1>1, ZerosGrow
  <2>2. n \in Nat /\ zeros[size] \in Nat
    BY <1>1 DEF CountsZeros
  <2> QED  BY <2>1, <2>2
<1>3. /\ block \in Nat
      /\ BlockZeros(zeros, size, block) <= n
      /\ n < BlockZeros(zeros, size, block + 1)
  <2> HIDE DEF n
  <2> QED  BY <1>1, <1>2, SearchEnds
<1> DEFINE next == (block + 1) * RankBlock
<1>4. /\ BlockZeros(zeros, size, block) = Padded(zeros, size, first)
      /\ BlockZeros(zeros, size, block + 1) = Padded(zeros, size, next)
  <2> HIDE DEF block
  <2>1. block \in Nat /\ block + 1 \in Nat
    BY <1>3
  <2> QED  BY <2>1, BlockZerosIs
<1>5. first \in Nat /\ next = first + RankBlock /\ RankBlock \in Nat \ {0}
  <2> HIDE DEF block
  <2> QED  BY <1>3, HintAssumption
<1> HIDE DEF first, next, block
<1>6. /\ Padded(zeros, size, p) = n
      /\ Padded(zeros, size, p + 1) = n + 1
  <2>1. Padded(zeros, size, p) = zeros[p] + 0 /\ Padded(zeros, size, p + 1) = zeros[p + 1] + 0
    BY <1>1 DEF Padded
  <2> QED  BY <2>1, <1>2
<1> HIDE DEF n
<1>7. first <= p
  <2> SUFFICES ASSUME p + 1 <= first PROVE FALSE
    BY <1>1, <1>5
  <2>1. Padded(zeros, size, p + 1) <= Padded(zeros, size, first) /\ Padded(zeros, size, first) \in Nat
    BY <1>1, <1>5, PaddedGrows
  <2> QED  BY <2>1, <1>2, <1>3, <1>4, <1>6
<1>8. p < next
  <2> SUFFICES ASSUME next <= p PROVE FALSE
    BY <1>1, <1>5
  <2>1. Padded(zeros, size, next) <= Padded(zeros, size, p) /\ Padded(zeros, size, next) \in Nat
    BY <1>1, <1>5, PaddedGrows
  <2> QED  BY <2>1, <1>2, <1>3, <1>4, <1>6
<1> DEFINE Q == {q \in first .. first + RankBlock - 1 : q < size /\ zeros[q + 1] = n + 1}
<1>9. p \in Q /\ Q \in SUBSET Int
  BY <1>1, <1>5, <1>7, <1>8 DEF n
<1>10. ASSUME NEW q \in Q PROVE p <= q
  <2> SUFFICES ASSUME q + 1 <= p PROVE FALSE
    BY <1>9
  <2>1. q \in Nat /\ q + 1 \in 0 .. size
    BY <1>5, <1>10
  <2>2. zeros[q + 1] <= zeros[p]
    BY <2>1, <1>1, ZerosGrow
  <2>3. zeros[q + 1] = n + 1
    BY <1>10
  <2> QED  BY <2>2, <2>3, <1>2 DEF n
<1>11. Min(Q) = p
  <2> HIDE DEF Q
  <2> QED  BY <1>9, <1>10, MinIsLeast
<1>12. Select0(v, n) = Min(Q)
  BY DEF Select0, Q, first, block
<1> QED  BY <1>11, <1>12 DEF n

-----------------------------------------------------------------------------
(***************************************************************************)
(* Powers of two: what doubling makes of 1.                                *)
(***************************************************************************)
Doubled(S) == 1 \in S /\ \A x \in S : 2 * x \in S

PowersOfTwo == {x \in Nat : \A S \in SUBSET Nat : Doubled(S) => x \in S}

LEMMA PowerFacts ==
    /\ 1 \in PowersOfTwo
    /\ \A x \in PowersOfTwo : x \in Nat \ {0} /\ 2 * x \in PowersOfTwo
<1>1. 1 \in PowersOfTwo
  BY DEF PowersOfTwo, Doubled
<1>2. ASSUME NEW x \in PowersOfTwo PROVE x \in Nat \ {0} /\ 2 * x \in PowersOfTwo
  <2>1. x \in Nat /\ \A S \in SUBSET Nat : Doubled(S) => x \in S
    BY DEF PowersOfTwo
  <2>2. x # 0
    <3> DEFINE S == Nat \ {0}
    <3>1. S \in SUBSET Nat /\ Doubled(S)
      BY DEF Doubled
    <3> QED  BY <2>1, <3>1
  <2>3. ASSUME NEW S \in SUBSET Nat, Doubled(S) PROVE 2 * x \in S
    BY <2>1, <2>3 DEF Doubled
  <2> QED  BY <2>1, <2>2, <2>3 DEF PowersOfTwo
<1> QED  BY <1>1, <1>2

LEMMA PowersInduct ==
    ASSUME NEW T, 1 \in T, \A x \in PowersOfTwo : x \in T => 2 * x \in T
    PROVE  \A x \in PowersOfTwo : x \in T
<1> DEFINE S == {x \in PowersOfTwo : x \in T}
<1>1. S \in SUBSET Nat
  BY DEF PowersOfTwo
<1>2. Doubled(S)
  BY PowerFacts DEF Doubled
<1>3. \A x \in PowersOfTwo : x \in S
  <2> HIDE DEF S
  <2> QED  BY <1>1, <1>2 DEF PowersOfTwo
<1> QED  BY <1>3

LEMMA PowerHalf ==
    ASSUME NEW x \in PowersOfTwo
    PROVE  x = 1 \/ \E y \in PowersOfTwo : x = 2 * y
<1> DEFINE T == {z \in PowersOfTwo : z = 1 \/ \E y \in PowersOfTwo : z = 2 * y}
<1>1. 1 \in T
  BY PowerFacts
<1>2. \A z \in PowersOfTwo : z \in T => 2 * z \in T
  BY PowerFacts
<1>3. x \in T
  <2> HIDE DEF T
  <2> QED  BY <1>1, <1>2, PowersInduct
<1> QED  BY <1>3

(***************************************************************************)
(* The tree of superblocks has a power of two of leaves, or of places for  *)
(* leaves, as many as there are superblocks at least.                      *)
(***************************************************************************)
LEMMA InternalIs ==
    ASSUME NEW size \in Nat, CeilDiv(size, SuperblockBits) \in Nat \ {0}
    PROVE  Internal(size) \in PowersOfTwo /\ CeilDiv(size, SuperblockBits) <= Internal(size)
<1> DEFINE n == CeilDiv(size, SuperblockBits)
           grow == [i \in Nat |-> IF i < n THEN 2 * i ELSE i]
           P == PowersOfTwo
           D == {i \in P : n <= i}
           m == [i \in P |-> IF i < n THEN n - i ELSE 0]
<1>1. Internal(size) = Rounds(n, grow, 1)
  BY DEF Internal
<1>2. n \in Nat \ {0}
  OBVIOUS
<1> HIDE DEF n
<1>3. \A i \in P : i \in Nat \ {0} /\ 2 * i \in P
  BY PowerFacts
<1>4. \A i \in P : grow[i] = IF i < n THEN 2 * i ELSE i
  BY <1>3
<1>5. EndsWithin(n, grow, 1, P, D, m)
  <2> HIDE DEF grow
  <2>1. 1 \in P
    BY PowerFacts
  <2>2. \A i \in P : grow[i] \in P /\ m[i] \in Nat
    BY <1>2, <1>3, <1>4
  <2>3. \A i \in P : i \in D => grow[i] \in D
    BY <1>2, <1>3, <1>4
  <2>4. \A i \in P : i \in D \/ grow[i] \in D \/ m[grow[i]] < m[i]
    <3> TAKE i \in P
    <3>1. CASE i < n
      <4>1. grow[i] = 2 * i /\ 2 * i \in P /\ i \in Nat \ {0} /\ m[i] = n - i
        BY <1>3, <1>4, <3>1
      <4>2. 2 * i < n => m[2 * i] = n - 2 * i
        BY <4>1
      <4>3. 2 * i \in Nat
        BY <4>1
      <4> HIDE DEF m
      <4>4. CASE 2 * i < n
        <5>1. m[grow[i]] = n - 2 * i
          BY <4>1, <4>2, <4>4
        <5> QED  BY <1>2, <4>1, <4>3, <5>1
      <4>5. CASE n <= 2 * i
        BY <4>1, <4>5
      <4> QED  BY <1>2, <4>3, <4>4, <4>5
    <3>2. CASE n <= i
      BY <3>2
    <3> QED  BY <1>2, <1>3, <3>1, <3>2
  <2>5. 1 \in D \/ m[1] < n
    BY <1>2, <2>1
  <2> HIDE DEF D, m, P
  <2> QED  BY <2>1, <2>2, <2>3, <2>4, <2>5 DEF EndsWithin
<1>6. Rounds(n, grow, 1) \in P /\ Rounds(n, grow, 1) \in D
  <2> HIDE DEF D, m, P, grow
  <2> QED  BY <1>2, <1>5, RoundsEnd
<1> HIDE DEF grow
<1> QED  BY <1>1, <1>6 DEF n

-----------------------------------------------------------------------------
(***************************************************************************)
(* The tree of minima.  Nodes above j have updated their parents: no node  *)
(* is greater than those children, and is one of them or still the size.   *)
(***************************************************************************)
Updated(tree, size, internal, last, j) ==
    /\ tree \in [0 .. last -> Int]
    /\ \A x \in 1 .. last : tree[x] <= size
    /\ \A c \in j + 1 .. last : tree[c \div 2] <= tree[c]
    /\ \A x \in 1 .. internal - 1 :
           tree[x] = size \/ \E c \in j + 1 .. last : c \div 2 = x /\ tree[x] = tree[c]

HasLeaves(tree, v, internal, last) ==
    \A x \in internal .. last : tree[x] = SuperblockMin(v, x - internal)

\* Node j updates its parent.
Propagated(T, j) == [T EXCEPT ![j \div 2] = Min({T[j \div 2], T[j]})]

LEMMA HalfIs ==
    ASSUME NEW j \in Nat, j > 1
    PROVE  j \div 2 \in 1 .. j - 1 /\ (j = 2 * (j \div 2) \/ j = 2 * (j \div 2) + 1)
OBVIOUS

LEMMA UpdateKeeps ==
    ASSUME NEW size \in Int, NEW internal \in Nat \ {0}, NEW last \in Nat,
           internal <= last, last < 2 * internal,
           NEW j \in 2 .. last, NEW T, Updated(T, size, internal, last, j),
           NEW v, HasLeaves(T, v, internal, last),
           NEW U, U = Propagated(T, j)
    PROVE  Updated(U, size, internal, last, j - 1) /\ HasLeaves(U, v, internal, last)
<1> DEFINE h == j \div 2
           y == IF T[h] <= T[j] THEN T[h] ELSE T[j]
<1>1. h \in 1 .. j - 1 /\ j \in Nat /\ (j = 2 * h \/ j = 2 * h + 1)
  BY HalfIs
<1>2. h \in 0 .. last /\ h \in 1 .. last /\ j \in 1 .. last /\ j \in 0 .. last /\ h < internal
  BY <1>1
<1> HIDE DEF h
<1>3. /\ T \in [0 .. last -> Int]
      /\ \A x \in 1 .. last : T[x] <= size
      /\ \A c \in j + 1 .. last : T[c \div 2] <= T[c]
      /\ \A x \in 1 .. internal - 1 :
             T[x] = size \/ \E c \in j + 1 .. last : c \div 2 = x /\ T[x] = T[c]
  BY DEF Updated
<1>4. T[h] \in Int /\ T[j] \in Int
  BY <1>2, <1>3
<1>5. U = [T EXCEPT ![h] = y]
  <2>1. Min({T[h], T[j]}) = y
    BY <1>4, MinOfPair
  <2> QED  BY <2>1 DEF h, Propagated
<1>6. y \in Int /\ y <= T[h] /\ y <= T[j] /\ (y = T[h] \/ y = T[j])
  BY <1>4
<1> HIDE DEF y
<1>7. U \in [0 .. last -> Int] /\ U[h] = y /\ \A x \in 0 .. last : x # h => U[x] = T[x]
  BY <1>2, <1>3, <1>5, <1>6
<1>8. \A x \in 0 .. last : U[x] \in Int /\ T[x] \in Int /\ U[x] <= T[x]
  <2> TAKE x \in 0 .. last
  <2>1. U[x] \in Int /\ T[x] \in Int
    BY <1>3, <1>7
  <2>2. CASE x = h
    BY <1>6, <1>7, <2>1, <2>2
  <2>3. CASE x # h
    BY <1>7, <2>1, <2>3
  <2> QED  BY <2>1, <2>2, <2>3
<1>9. \A x \in 1 .. last : U[x] <= size
  <2> TAKE x \in 1 .. last
  <2>1. U[x] <= T[x] /\ U[x] \in Int /\ T[x] \in Int /\ T[x] <= size
    BY <1>3, <1>8
  <2> QED  BY <2>1
<1>10. ASSUME NEW c \in j - 1 + 1 .. last PROVE U[c \div 2] <= U[c]
  <2>1. c \in Nat /\ c > 1 /\ c >= j /\ c \in 0 .. last
    OBVIOUS
  <2> DEFINE d == c \div 2
  <2>2. d \in 0 .. last
    BY <2>1, HalfIs
  <2>3. U[c] = T[c]
    BY <1>1, <1>7, <2>1
  <2>4. CASE c = j
    BY <1>6, <1>7, <2>3, <2>4 DEF h
  <2>5. CASE c # j
    <3>1. T[d] <= T[c]
      BY <1>3, <2>1, <2>5
    <3> HIDE DEF d
    <3>2. U[d] <= T[d] /\ U[d] \in Int /\ T[d] \in Int /\ T[c] \in Int
      BY <1>8, <2>1, <2>2
    <3>3. U[d] <= U[c]
      BY <2>3, <3>1, <3>2
    <3> QED  BY <3>3 DEF d
  <2> QED  BY <2>4, <2>5
<1>11. ASSUME NEW x \in 1 .. internal - 1
       PROVE  U[x] = size \/ \E c \in j - 1 + 1 .. last : c \div 2 = x /\ U[x] = U[c]
  <2>1. x \in 0 .. last
    OBVIOUS
  <2>2. \A c \in j .. last : U[c] = T[c]
    BY <1>1, <1>7
  <2>3. CASE U[x] = T[x]
    <3>1. T[x] = size \/ \E c \in j + 1 .. last : c \div 2 = x /\ T[x] = T[c]
      BY <1>3
    <3>2. \A c \in j + 1 .. last : c \in j .. last /\ c \in j - 1 + 1 .. last
      OBVIOUS
    <3> QED  BY <2>2, <2>3, <3>1, <3>2
  <2>4. CASE U[x] # T[x]
    <3>1. x = h /\ U[x] = T[j]
      BY <1>6, <1>7, <2>1, <2>4
    <3>2. j \in j - 1 + 1 .. last /\ j \div 2 = x /\ U[x] = U[j]
      BY <2>2, <3>1 DEF h
    <3> QED  BY <3>2
  <2> QED  BY <2>3, <2>4
<1>12. HasLeaves(U, v, internal, last)
  <2>1. ASSUME NEW x \in internal .. last PROVE U[x] = T[x] /\ T[x] = SuperblockMin(v, x - internal)
    <3>1. x \in 0 .. last /\ x # h
      BY <1>2
    <3> QED  BY <1>7, <3>1 DEF HasLeaves
  <2> QED  BY <2>1 DEF HasLeaves
<1> QED  BY <1>7, <1>9, <1>10, <1>11, <1>12 DEF Updated

LEMMA MinTreeIs ==
    ASSUME NEW v, v.size \in Nat,
           NEW internal, internal = Internal(v.size),
           NEW superblocks \in Nat \ {0}, superblocks = CeilDiv(v.size, SuperblockBits),
           \A s \in 0 .. superblocks - 1 : SuperblockMin(v, s) \in Int /\ SuperblockMin(v, s) <= v.size
    PROVE  /\ internal \in PowersOfTwo /\ superblocks <= internal
           /\ Updated(MinTree(v), v.size, internal, internal + superblocks - 1, 1)
           /\ HasLeaves(MinTree(v), v, internal, internal + superblocks - 1)
<1> DEFINE size == v.size
           last == internal + superblocks - 1
           leaves == [node \in 0 .. last |->
                         IF node >= internal THEN SuperblockMin(v, node - internal) ELSE size]
           update == [s \in [node : Nat, tree : [0 .. last -> Int]] |->
                         IF s.node <= 1 THEN s
                         ELSE [node |-> s.node - 1,
                               tree |-> [s.tree EXCEPT ![s.node \div 2] = Min({@, s.tree[s.node]})]]]
           start == [node |-> last, tree |-> leaves]
           P == {s \in [node : Nat, tree : [0 .. last -> Int]] :
                    /\ s.node \in 1 .. last
                    /\ Updated(s.tree, size, internal, last, s.node)
                    /\ HasLeaves(s.tree, v, internal, last)}
           D == {s \in P : s.node <= 1}
           m == [s \in P |-> s.node - 1]
<1>1. internal \in PowersOfTwo /\ superblocks <= internal /\ internal \in Nat \ {0}
  BY InternalIs, PowerFacts
<1>2. last \in Nat /\ internal <= last /\ last < 2 * internal /\ last >= 1
  BY <1>1
<1>3. MinTree(v) = Rounds(last, update, start).tree
  BY DEF MinTree
<1>4. start \in P
  <2>1. \A node \in internal .. last : node - internal \in 0 .. superblocks - 1
    BY <1>1
  <2>2. leaves \in [0 .. last -> Int]
    BY <1>1, <1>2, <2>1
  <2>3. \A x \in 1 .. last : leaves[x] <= size
    <3> SUFFICES ASSUME NEW x \in 1 .. last PROVE leaves[x] <= size
      OBVIOUS
    <3>1. CASE x < internal
      BY <1>1, <1>2, <3>1
    <3>2. CASE ~(x < internal)
      <4>1. x - internal \in 0 .. superblocks - 1
        BY <1>1, <1>2, <2>1, <3>2
      <4> QED  BY <1>1, <1>2, <3>2, <4>1
    <3> QED  BY <3>1, <3>2
  <2>4. \A x \in 1 .. internal - 1 : leaves[x] = size
    BY <1>1, <1>2
  <2>5. HasLeaves(leaves, v, internal, last)
    BY <1>1, <1>2 DEF HasLeaves
  <2> HIDE DEF leaves, last
  <2>6. Updated(leaves, size, internal, last, last)
    BY <1>2, <2>2, <2>3, <2>4 DEF Updated
  <2> QED  BY <1>2, <2>2, <2>5, <2>6
<1> HIDE DEF leaves, last
<1>5. ASSUME NEW s \in P
      PROVE  /\ update[s] \in P
             /\ s.node <= 1 => update[s] = s
             /\ s.node > 1 => update[s].node = s.node - 1
  <2>1. /\ s \in [node : Nat, tree : [0 .. last -> Int]]
        /\ s.node \in 1 .. last /\ s.tree \in [0 .. last -> Int]
        /\ Updated(s.tree, size, internal, last, s.node)
        /\ HasLeaves(s.tree, v, internal, last)
    OBVIOUS
  <2> HIDE DEF P
  <2> DEFINE T == s.tree
             j == s.node
             U == Propagated(T, j)
  <2>2. update[s] = IF s.node <= 1 THEN s ELSE [node |-> j - 1, tree |-> U]
    BY <2>1 DEF Propagated
  <2> HIDE DEF update
  <2>3. CASE s.node <= 1
    <3>1. s.node \in Int /\ update[s] = s
      BY <2>1, <2>2, <2>3
    <3> QED  BY <2>3, <3>1
  <2>4. CASE s.node > 1
    <3>1. j \in 2 .. last
      BY <1>2, <2>1, <2>4
    <3> DEFINE V == U
    <3>2. V = Propagated(T, j)
      OBVIOUS
    <3> HIDE DEF V, T, j, U
    <3>3. Updated(T, size, internal, last, j) /\ HasLeaves(T, v, internal, last)
      BY <2>1 DEF T, j
    <3>4. Updated(V, size, internal, last, j - 1) /\ HasLeaves(V, v, internal, last)
      <4>1. size \in Int
        OBVIOUS
      <4> HIDE DEF size
      <4> QED  BY <4>1, <1>1, <1>2, <3>1, <3>2, <3>3, UpdateKeeps
    <3>5. update[s] = [node |-> j - 1, tree |-> V] /\ j - 1 \in 1 .. last /\ j - 1 \in Nat
      BY <2>2, <2>4, <3>1, <1>2 DEF j, V
    <3>6. V \in [0 .. last -> Int]
      BY <3>4 DEF Updated
    <3>7. update[s] \in P /\ update[s].node = j - 1
      BY <3>4, <3>5, <3>6 DEF P
    <3>8. update[s].node = s.node - 1 /\ s.node \in Int
      BY <2>1, <3>7 DEF j
    <3> QED  BY <3>7, <3>8, <2>4
  <2> QED  BY <1>2, <2>1, <2>3, <2>4
<1>6. EndsWithin(last, update, start, P, D, m)
  <2>1. \A s \in P : s.node \in 1 .. last
    OBVIOUS
  <2> HIDE DEF P, update, start
  <2>2. \A s \in P : update[s] \in P /\ m[s] \in Nat
    BY <1>2, <1>5, <2>1
  <2>3. \A s \in P : s \in D => update[s] \in D
    BY <1>5
  <2>4. \A s \in P : s \in D \/ update[s] \in D \/ m[update[s]] < m[s]
    <3> TAKE s \in P
    <3>1. CASE s.node > 1
      BY <1>2, <1>5, <2>1, <3>1
    <3>2. CASE s.node <= 1
      BY <3>2
    <3> QED  BY <1>2, <2>1, <3>1, <3>2
  <2>5. start \in D \/ m[start] < last
    <3>1. m[start] = last - 1
      BY <1>4 DEF start
    <3> QED  BY <1>2, <3>1
  <2> HIDE DEF D, m
  <2> QED  BY <1>4, <2>2, <2>3, <2>4, <2>5 DEF EndsWithin
<1> DEFINE r == Rounds(last, update, start)
<1>7. r \in P /\ r \in D
  <2> HIDE DEF P, D, m, update, start
  <2> QED  BY <1>2, <1>6, RoundsEnd
<1> HIDE DEF r
<1>8. r.node = 1
  BY <1>2, <1>7
<1>9. Updated(r.tree, size, internal, last, 1) /\ HasLeaves(r.tree, v, internal, last)
  BY <1>7, <1>8
<1> QED  BY <1>1, <1>3, <1>9 DEF r, last

-----------------------------------------------------------------------------
(***************************************************************************)
(* A tree of minima over the leaves internal .. last: a node with both     *)
(* children is the lesser of them, the left one if they are equal.         *)
(***************************************************************************)
LessChild(tree, x) == IF tree[2 * x + 1] < tree[2 * x] THEN 2 * x + 1 ELSE 2 * x

RightTree(v, last) ==
    /\ v.internal \in PowersOfTwo
    /\ last \in Nat /\ v.internal <= last /\ last < 2 * v.internal
    /\ \A x \in 1 .. last : v.tree[x] \in Int
    /\ \A x \in 1 .. v.internal - 1 :
           2 * x + 1 <= last => v.tree[x] = v.tree[LessChild(v.tree, x)]

LEMMA UpdatedIsRight ==
    ASSUME NEW v, v.internal \in PowersOfTwo, NEW last \in Nat, v.internal <= last,
           last < 2 * v.internal, NEW size \in Int,
           Updated(v.tree, size, v.internal, last, 1)
    PROVE  RightTree(v, last)
<1> DEFINE T == v.tree
           internal == v.internal
<1>0. internal \in Nat \ {0}
  BY PowerFacts
<1>1. /\ T \in [0 .. last -> Int]
      /\ \A x \in 1 .. last : T[x] <= size
      /\ \A c \in 2 .. last : T[c \div 2] <= T[c]
      /\ \A x \in 1 .. internal - 1 :
             T[x] = size \/ \E c \in 2 .. last : c \div 2 = x /\ T[x] = T[c]
  BY DEF Updated
<1> HIDE DEF T, internal
<1>2. \A x \in 1 .. last : T[x] \in Int
  BY <1>1
<1>3. ASSUME NEW x \in 1 .. internal - 1, 2 * x + 1 <= last
      PROVE  T[x] = T[LessChild(T, x)]
  <2>1. /\ 2 * x \in 2 .. last /\ 2 * x + 1 \in 2 .. last /\ x \in 1 .. last
        /\ (2 * x) \div 2 = x /\ (2 * x + 1) \div 2 = x
    BY <1>3, <1>0
  <2> DEFINE a == 2 * x
             b == 2 * x + 1
  <2>2. /\ T[x] <= T[a] /\ T[x] <= T[b] /\ T[a] \in Int /\ T[b] \in Int /\ T[x] \in Int
        /\ T[a] <= size /\ T[b] <= size
    <3> HIDE DEF a, b
    <3>1. a \in 2 .. last /\ b \in 2 .. last /\ a \div 2 = x /\ b \div 2 = x
      BY <2>1 DEF a, b
    <3>2. T[a \div 2] <= T[a] /\ T[b \div 2] <= T[b]
      BY <1>1, <3>1
    <3>3. a \in 1 .. last /\ b \in 1 .. last
      BY <3>1
    <3> QED  BY <1>1, <1>2, <2>1, <3>1, <3>2, <3>3
  <2>3. T[x] = size \/ T[x] = T[a] \/ T[x] = T[b]
    <3>1. \A c \in 2 .. last : c \div 2 = x => c = a \/ c = b
      OBVIOUS
    <3> QED  BY <1>1, <3>1
  <2> HIDE DEF a, b
  <2>4. T[x] = IF T[b] < T[a] THEN T[b] ELSE T[a]
    BY <2>2, <2>3
  <2> QED  BY <2>4 DEF LessChild, a, b
<1> QED  BY <1>0, <1>2, <1>3 DEF RightTree, T, internal

\* The way down from a node.
Descend(v) ==
    [n \in Nat |-> IF n >= v.internal THEN n
                   ELSE IF v.tree[2 * n + 1] < v.tree[2 * n] THEN 2 * n + 1
                   ELSE 2 * n]

LEMMA LeafOfIs ==
    ASSUME NEW v, v.internal \in Nat \ {0}, NEW n \in Nat \ {0}
    PROVE  /\ n >= v.internal => LeafOf(v, n) = n
           /\ n < v.internal => LeafOf(v, n) = LeafOf(v, LessChild(v.tree, n))
<1> DEFINE internal == v.internal
           down == Descend(v)
           P == Nat \ {0}
           D == {i \in P : i >= internal}
           m == [i \in P |-> IF i < internal THEN internal - i - 1 ELSE 0]
           r == Rounds(internal, down, n)
<1>1. \A i \in P : LeafOf(v, i) = Rounds(internal, down, i)
  BY DEF LeafOf, Descend
<1>2. \A i \in P : /\ i >= internal => down[i] = i
                   /\ i < internal => down[i] = LessChild(v.tree, i)
  BY DEF Descend, LessChild
<1>3. \A i \in P : LessChild(v.tree, i) \in P /\ LessChild(v.tree, i) > i
  BY DEF LessChild
<1> HIDE DEF down
<1>4. EndsWithin(internal, down, n, P, D, m)
  <2>1. \A i \in P : down[i] \in P /\ m[i] \in Nat
    BY <1>2, <1>3
  <2>2. \A i \in P : i \in D => down[i] \in D
    BY <1>2
  <2>3. \A i \in P : i \in D \/ down[i] \in D \/ m[down[i]] < m[i]
    BY <1>2, <1>3, <2>1
  <2>4. n \in D \/ m[n] < internal
    OBVIOUS
  <2> HIDE DEF P, D, m
  <2>5. n \in P
    BY DEF P
  <2> QED  BY <2>1, <2>2, <2>3, <2>4, <2>5 DEF EndsWithin
<1>5. r \in P /\ r \in D
  <2>1. internal \in Nat
    OBVIOUS
  <2> HIDE DEF P, D, m, internal
  <2> QED  BY <1>4, <2>1, RoundsEnd
<1>6. CASE n >= internal
  <2> DEFINE S == {n}
  <2>1. down[n] = n
    BY <1>2, <1>6
  <2>2. n \in S /\ (\A s \in S : down[s] \in S) /\ internal \in Nat
    BY <2>1
  <2>3. r \in S
    <3> HIDE DEF S, internal
    <3> QED  BY <2>2, RoundsKeep
  <2> QED  BY <1>1, <1>6, <2>3
<1>7. CASE n < internal
  <2> DEFINE c == LessChild(v.tree, n)
  <2>1. c \in P /\ down[n] = c
    BY <1>2, <1>3, <1>7
  <2>2. internal \in Nat
    OBVIOUS
  <2> HIDE DEF c, internal
  <2>3. Rounds(internal + 1, down, n) = Rounds(internal, down, c)
    BY <2>1, <2>2, RoundFirst
  <2>4. Rounds(internal + 1, down, n) = down[r]
    BY <2>2, RoundsAre
  <2>5. down[r] = r
    BY <1>2, <1>5
  <2>6. LeafOf(v, n) = LeafOf(v, c)
    BY <1>1, <2>1, <2>3, <2>4, <2>5
  <2> QED  BY <1>7, <2>6 DEF c, internal
<1> QED  BY <1>6, <1>7

(***************************************************************************)
(* The nodes of a level: as many as their number says, each with as many   *)
(* leaves below it as the width says.                                      *)
(***************************************************************************)
Level(v, nodes, width) ==
    /\ nodes \in PowersOfTwo /\ width \in PowersOfTwo
    /\ nodes * width = v.internal

LeavesBelow(v, node, width) ==
    AtLeftmost(v.tree, LeafOf(v, node), node * width, node * width + width - 1)
        /\ v.tree[LeafOf(v, node)] = v.tree[node]

LEMMA ChildProducts ==
    ASSUME NEW m \in Nat \ {0}, NEW w \in Nat \ {0}, NEW x \in m .. 2 * m - 1
    PROVE  \E p \in Nat : /\ p >= x /\ p >= w
                          /\ x * (2 * w) = 2 * p /\ x * w = p
                          /\ (2 * x) * w = 2 * p
                          /\ (2 * x + 1) * w = 2 * p + w
                          /\ x < m * (2 * w)
<1> DEFINE p == x * w
           q == m * w
<1>1. x \in Nat \ {0}
  OBVIOUS
<1>2. p \in Nat /\ q \in Nat
  BY <1>1
<1>3. 1 * x <= w * x /\ 1 * w <= x * w /\ 1 * m <= w * m
  <2>1. 1 \in Nat /\ 1 <= w /\ 1 <= x /\ x \in Nat /\ w \in Nat /\ m \in Nat
    BY <1>1
  <2> QED  BY <2>1, TimesGrow
<1>4. p >= x /\ p >= w /\ q >= m
  BY <1>1, <1>3
<1>5. /\ x * (2 * w) = 2 * p /\ (2 * x) * w = 2 * p /\ (2 * x + 1) * w = 2 * p + w
      /\ m * (2 * w) = 2 * q
  BY <1>1
<1>6. x < 2 * q
  <2> HIDE DEF q
  <2> QED  BY <1>2, <1>4
<1>7. /\ p >= x /\ p >= w
      /\ x * (2 * w) = 2 * p /\ x * w = p
      /\ (2 * x) * w = 2 * p
      /\ (2 * x + 1) * w = 2 * p + w
      /\ x < m * (2 * w)
  BY <1>4, <1>5, <1>6
<1> HIDE DEF p
<1> QED  BY <1>2, <1>7

LEMMA CoveredNode ==
    ASSUME NEW v, NEW last, RightTree(v, last), NEW width \in PowersOfTwo, NEW nodes \in PowersOfTwo,
           nodes * width = v.internal,
           NEW n \in nodes .. 2 * nodes - 1, n * width + width - 1 <= last
    PROVE  LeavesBelow(v, n, width)
<1> DEFINE Right(w) == \A m \in PowersOfTwo : m * w = v.internal =>
                           \A x \in m .. 2 * m - 1 :
                               x * w + w - 1 <= last => LeavesBelow(v, x, w)
           S == {w \in PowersOfTwo : Right(w)}
           T == v.tree
<1>0. v.internal \in Nat \ {0}
  BY PowerFacts DEF RightTree
<1>1. 1 \in S
  <2> SUFFICES ASSUME NEW m \in PowersOfTwo, m * 1 = v.internal,
                      NEW x \in m .. 2 * m - 1, x * 1 + 1 - 1 <= last
               PROVE  LeavesBelow(v, x, 1)
    BY PowerFacts
  <2>1. m \in Nat \ {0} /\ m = v.internal /\ x \in Nat \ {0} /\ x * 1 = x /\ x * 1 + 1 - 1 = x
    BY PowerFacts
  <2>2. LeafOf(v, x) = x
    BY <1>0, <2>1, LeafOfIs
  <2> QED  BY <2>1, <2>2, LeftmostOfOne DEF LeavesBelow
<1>2. ASSUME NEW w \in PowersOfTwo, w \in S PROVE 2 * w \in S
  <2> SUFFICES ASSUME NEW m \in PowersOfTwo, m * (2 * w) = v.internal,
                      NEW x \in m .. 2 * m - 1, x * (2 * w) + 2 * w - 1 <= last
               PROVE  LeavesBelow(v, x, 2 * w)
    BY PowerFacts
  <2>1. m \in Nat \ {0} /\ w \in Nat \ {0} /\ 2 * m \in PowersOfTwo /\ x \in Nat \ {0}
    BY PowerFacts
  <2>2. (2 * m) * w = v.internal
    BY <2>1
  <2>14. PICK p \in Nat : /\ p >= x /\ p >= w
                          /\ x * (2 * w) = 2 * p /\ x * w = p
                          /\ (2 * x) * w = 2 * p
                          /\ (2 * x + 1) * w = 2 * p + w
                          /\ x < m * (2 * w)
    BY <2>1, ChildProducts
  <2> DEFINE a == 2 * x
             b == 2 * x + 1
             lo == 2 * p
             mid == 2 * p + w - 1
             hi == 2 * p + 2 * w - 1
  <2>3. a \in 2 * m .. 2 * (2 * m) - 1 /\ b \in 2 * m .. 2 * (2 * m) - 1
    BY <2>1
  <2>4. /\ a * w = lo /\ b * w = mid + 1 /\ b * w + w - 1 = hi
        /\ lo \in Nat /\ mid \in Nat /\ hi \in Nat /\ lo <= mid /\ mid < hi /\ hi <= last
        /\ lo >= 2 * x /\ lo \in 1 .. last /\ last \in Nat
    <3>1. last \in Nat /\ 2 * p + 2 * w - 1 <= last
      BY <2>14 DEF RightTree
    <3> QED  BY <2>1, <2>14, <3>1
  <2>5. x < v.internal /\ 2 * x + 1 <= last
    BY <2>1, <2>14, <2>4
  <2>6. LeavesBelow(v, a, w) /\ LeavesBelow(v, b, w)
    <3>1. a * w + w - 1 <= last /\ b * w + w - 1 <= last
      BY <2>1, <2>4
    <3>2. Right(w)
      BY <1>2
    <3> HIDE DEF a, b, lo, mid, hi
    <3>3. /\ \A y \in 2 * m .. 2 * (2 * m) - 1 : y * w + w - 1 <= last => LeavesBelow(v, y, w)
      BY <2>1, <2>2, <3>2
    <3> QED  BY <2>3, <3>1, <3>3
  <2> DEFINE ra == LeafOf(v, a)
             rb == LeafOf(v, b)
  <2>7. /\ AtLeftmost(T, ra, lo, mid) /\ T[ra] = T[a]
        /\ AtLeftmost(T, rb, mid + 1, hi) /\ T[rb] = T[b]
    <3>1. a * w + w - 1 = mid
      BY <2>4
    <3> HIDE DEF a, b, lo, mid, hi
    <3> QED  BY <2>4, <2>6, <3>1 DEF LeavesBelow
  <2>8. \A q \in lo .. hi : T[q] \in Int
    <3> HIDE DEF lo, hi, mid, a, b
    <3>1. \A q \in lo .. hi : q \in 1 .. last
      BY <2>4
    <3> QED  BY <3>1 DEF RightTree
  <2>9. /\ LeafOf(v, x) = LeafOf(v, LessChild(T, x))
        /\ T[x] = T[LessChild(T, x)]
    BY <1>0, <2>1, <2>5, LeafOfIs DEF RightTree
  <2>10. LessChild(T, x) = IF T[rb] < T[ra] THEN b ELSE a
    BY <2>7 DEF LessChild
  <2> HIDE DEF a, b, ra, rb, lo, mid, hi, T
  <2>11. AtLeftmost(T, IF T[rb] < T[ra] THEN rb ELSE ra, lo, hi)
    <3>1. lo \in Int /\ mid \in Int /\ hi \in Int /\ lo <= mid /\ mid < hi
      BY <2>4
    <3>2. AtLeftmost(T, ra, lo, mid) /\ AtLeftmost(T, rb, mid + 1, hi)
      BY <2>7
    <3> QED  BY ONLY <3>1, <3>2, <2>8, LeftmostJoin
  <2>12. LeafOf(v, x) = IF T[rb] < T[ra] THEN rb ELSE ra
    BY <2>9, <2>10 DEF ra, rb
  <2>13. T[LeafOf(v, x)] = T[x]
    BY <2>7, <2>9, <2>10, <2>12
  <2>15. lo = x * (2 * w) /\ hi = x * (2 * w) + 2 * w - 1
    BY <2>14 DEF lo, hi
  <2> QED  BY <2>11, <2>12, <2>13, <2>15 DEF LeavesBelow, T
<1>3. width \in S
  <2> HIDE DEF S
  <2> QED  BY <1>1, <1>2, PowersInduct
<1> QED  BY <1>3

-----------------------------------------------------------------------------
(***************************************************************************)
(* A node on some level whose last leaf below it is span.                  *)
(***************************************************************************)
OnLevel(v, node, width, span) ==
    \E nodes \in PowersOfTwo :
        /\ Level(v, nodes, width)
        /\ node \in nodes .. 2 * nodes - 1
        /\ span \in Nat
        /\ node * width + width - 1 = v.internal + span

LEMMA OnLevelFacts ==
    ASSUME NEW v, v.internal \in PowersOfTwo, NEW node, NEW width, NEW span,
           OnLevel(v, node, width, span)
    PROVE  /\ node \in Nat \ {0} /\ width \in Nat \ {0} /\ span \in Nat
           /\ width <= v.internal
           /\ node * width = v.internal + span - width + 1
           /\ node = 1 => span = v.internal - 1
           /\ node # 1 => 2 * width <= v.internal
           /\ v.internal \in Nat \ {0}
<1>1. PICK m \in PowersOfTwo :
         /\ width \in PowersOfTwo /\ m * width = v.internal
         /\ node \in m .. 2 * m - 1 /\ span \in Nat
         /\ node * width + width - 1 = v.internal + span
  BY DEF OnLevel, Level
<1>2. m \in Nat \ {0} /\ width \in Nat \ {0} /\ v.internal \in Nat \ {0}
  BY <1>1, PowerFacts
<1>3. node \in Nat \ {0}
  BY <1>1, <1>2
<1>4. 1 * width <= m * width
  BY <1>2, TimesGrow
<1> DEFINE p == node * width
<1>5. p \in Nat
  BY <1>2, <1>3
<1>6. node * width = v.internal + span - width + 1
  <2>1. p + width - 1 = v.internal + span
    BY <1>1
  <2> HIDE DEF p
  <2>2. p = v.internal + span - width + 1
    BY <1>1, <1>2, <1>5, <2>1
  <2> QED  BY <2>2 DEF p
<1>7. ASSUME node = 1 PROVE span = v.internal - 1
  <2>1. m = 1
    BY <1>1, <1>2, <1>7
  <2>2. width = v.internal /\ p = width
    BY <1>1, <1>2, <1>7, <2>1
  <2> QED  BY <1>1, <1>2, <1>6, <2>2
<1>8. ASSUME node # 1 PROVE 2 * width <= v.internal
  <2>1. 2 <= m
    BY <1>1, <1>2, <1>8
  <2>2. 2 * width <= m * width
    BY <1>2, <2>1, TimesGrow
  <2> QED  BY <1>1, <2>2
<1>9. width <= v.internal
  BY <1>1, <1>2, <1>4
<1> QED  BY <1>1, <1>2, <1>3, <1>6, <1>7, <1>8, <1>9

LEMMA UpFromRight ==
    ASSUME NEW v, v.internal \in PowersOfTwo, NEW node, NEW width, NEW span,
           OnLevel(v, node, width, span), node # 1, node % 2 = 1
    PROVE  OnLevel(v, node \div 2, 2 * width, span)
<1>1. PICK m \in PowersOfTwo :
         /\ width \in PowersOfTwo /\ m * width = v.internal
         /\ node \in m .. 2 * m - 1 /\ span \in Nat
         /\ node * width + width - 1 = v.internal + span
  BY DEF OnLevel, Level
<1>2. m # 1
  <2>1. node \in m .. 2 * m - 1
    BY <1>1
  <2> QED  BY <2>1
<1>3. PICK y \in PowersOfTwo : m = 2 * y
  BY <1>2, PowerHalf
<1>4. y \in Nat \ {0} /\ width \in Nat \ {0} /\ 2 * width \in PowersOfTwo /\ v.internal \in Nat
  BY <1>1, PowerFacts
<1> DEFINE x == node \div 2
<1>5. x \in y .. 2 * y - 1 /\ node = 2 * x + 1 /\ x \in Nat
  BY <1>1, <1>3, <1>4
<1> HIDE DEF x
<1>6. y * (2 * width) = v.internal
  BY <1>1, <1>3, <1>4
<1>7. x * (2 * width) + 2 * width - 1 = v.internal + span
  <2> DEFINE p == x * width
  <2>1. p \in Nat /\ x * (2 * width) = 2 * p /\ (2 * x + 1) * width = 2 * p + width
    BY <1>4, <1>5
  <2>2. (2 * x + 1) * width + width - 1 = v.internal + span
    BY <1>1, <1>5
  <2> HIDE DEF p
  <2> QED  BY <1>4, <2>1, <2>2
<1>8. OnLevel(v, x, 2 * width, span)
  BY <1>1, <1>4, <1>5, <1>6, <1>7 DEF OnLevel, Level
<1> QED  BY <1>8 DEF x

LEMMA UpFromLeft ==
    ASSUME NEW v, v.internal \in PowersOfTwo, NEW node, NEW width, NEW span,
           OnLevel(v, node, width, span), node # 1, node % 2 # 1
    PROVE  /\ OnLevel(v, node + 1, width, span + width)
           /\ OnLevel(v, node \div 2, 2 * width, span + width)
<1>1. PICK m \in PowersOfTwo :
         /\ width \in PowersOfTwo /\ m * width = v.internal
         /\ node \in m .. 2 * m - 1 /\ span \in Nat
         /\ node * width + width - 1 = v.internal + span
  BY DEF OnLevel, Level
<1>2. m # 1
  <2>1. node \in m .. 2 * m - 1
    BY <1>1
  <2> QED  BY <2>1
<1>3. PICK y \in PowersOfTwo : m = 2 * y
  BY <1>2, PowerHalf
<1>4. y \in Nat \ {0} /\ width \in Nat \ {0} /\ 2 * width \in PowersOfTwo /\ v.internal \in Nat
      /\ m \in Nat \ {0} /\ node \in Nat
  BY <1>1, PowerFacts
<1> DEFINE x == node \div 2
<1>5. x \in y .. 2 * y - 1 /\ node = 2 * x /\ x \in Nat /\ node + 1 \in m .. 2 * m - 1
  BY <1>1, <1>3, <1>4
<1> HIDE DEF x
<1>6. y * (2 * width) = v.internal
  BY <1>1, <1>3, <1>4
<1> DEFINE p == x * width
<1>9. /\ p \in Nat /\ x * (2 * width) = 2 * p /\ (2 * x) * width = 2 * p
      /\ (2 * x + 1) * width = 2 * p + width
  BY <1>4, <1>5
<1>10. 2 * p + width - 1 = v.internal + span
  <2>1. (2 * x) * width + width - 1 = v.internal + span
    BY <1>1, <1>5
  <2> HIDE DEF p
  <2> QED  BY <1>4, <1>9, <2>1
<1> HIDE DEF p
<1>7. x * (2 * width) + 2 * width - 1 = v.internal + (span + width)
  BY <1>1, <1>4, <1>9, <1>10
<1>11. (node + 1) * width + width - 1 = v.internal + (span + width)
  BY <1>1, <1>4, <1>5, <1>9, <1>10
<1>12. span + width \in Nat
  BY <1>1, <1>4
<1>8. OnLevel(v, x, 2 * width, span + width)
  BY <1>1, <1>4, <1>5, <1>6, <1>7, <1>12 DEF OnLevel, Level
<1>13. OnLevel(v, node + 1, width, span + width)
  BY <1>1, <1>4, <1>5, <1>11, <1>12 DEF OnLevel, Level
<1> QED  BY <1>8, <1>13 DEF x

LEMMA DownFrom ==
    ASSUME NEW v, v.internal \in PowersOfTwo, NEW node, NEW width, NEW span,
           OnLevel(v, node, width, span), width # 1
    PROVE  LET w == width \div 2
           IN  /\ w \in Nat \ {0} /\ width = 2 * w
               /\ OnLevel(v, 2 * node, w, span - w)
               /\ OnLevel(v, 2 * node + 1, w, span)
<1>1. PICK m \in PowersOfTwo :
         /\ width \in PowersOfTwo /\ m * width = v.internal
         /\ node \in m .. 2 * m - 1 /\ span \in Nat
         /\ node * width + width - 1 = v.internal + span
  BY DEF OnLevel, Level
<1> DEFINE w == width \div 2
<1>3. w \in PowersOfTwo /\ width = 2 * w
  <2>1. PICK y \in PowersOfTwo : width = 2 * y
    BY <1>1, PowerHalf
  <2>2. y \in Nat
    BY PowerFacts
  <2>3. w = y
    BY <2>1, <2>2
  <2> QED  BY <2>1, <2>3
<1>4. w \in Nat \ {0} /\ m \in Nat \ {0} /\ node \in Nat \ {0} /\ 2 * m \in PowersOfTwo /\ v.internal \in Nat
  BY <1>1, <1>3, PowerFacts
<1> HIDE DEF w
<1>6. (2 * m) * w = v.internal
  BY <1>1, <1>3, <1>4
<1> DEFINE p == node * w
<1>9. /\ p \in Nat /\ node * (2 * w) = 2 * p /\ (2 * node) * w = 2 * p
      /\ (2 * node + 1) * w = 2 * p + w
  BY <1>4
<1>10. 2 * p + 2 * w - 1 = v.internal + span
  <2>1. node * (2 * w) + 2 * w - 1 = v.internal + span
    BY <1>1, <1>3
  <2> HIDE DEF p
  <2> QED  BY <1>4, <1>9, <2>1
<1>5. p >= m * w
  <2>1. m * w <= node * w
    <3>1. m \in Nat /\ node \in Nat /\ w \in Nat /\ m <= node
      BY <1>1, <1>4
    <3> QED  BY <3>1, TimesGrow
  <2> QED  BY <2>1
<1>2. span - w \in Nat
  <2> DEFINE q == m * w
  <2>1. q \in Nat /\ v.internal = 2 * q
    BY <1>4, <1>6
  <2>2. p >= q
    BY <1>5
  <2> HIDE DEF p, q
  <2>3. span >= w
    BY <1>1, <1>4, <1>9, <1>10, <2>1, <2>2
  <2> QED  BY <1>1, <1>4, <2>3
<1> HIDE DEF p
<1>7. (2 * node) * w + w - 1 = v.internal + (span - w)
  BY <1>1, <1>4, <1>9, <1>10
<1>8. (2 * node + 1) * w + w - 1 = v.internal + span
  BY <1>1, <1>4, <1>9, <1>10
<1>11. 2 * node \in 2 * m .. 2 * (2 * m) - 1 /\ 2 * node + 1 \in 2 * m .. 2 * (2 * m) - 1
  BY <1>1, <1>4
<1>12. OnLevel(v, 2 * node, w, span - w)
  BY <1>2, <1>3, <1>4, <1>6, <1>7, <1>11 DEF OnLevel, Level
<1>13. OnLevel(v, 2 * node + 1, w, span)
  BY <1>1, <1>3, <1>4, <1>6, <1>8, <1>11 DEF OnLevel, Level
<1> QED  BY <1>3, <1>4, <1>12, <1>13 DEF w

-----------------------------------------------------------------------------
(***************************************************************************)
(* A candidate for the leaves lo .. hi: going down from it leads to the    *)
(* leftmost of their minima, which it has.                                 *)
(***************************************************************************)
Candidate(v, x, lo, hi) ==
    /\ x \in Nat \ {0}
    /\ AtLeftmost(v.tree, LeafOf(v, x), lo, hi)
    /\ v.tree[LeafOf(v, x)] = v.tree[x]

LEMMA NodeIsCandidate ==
    ASSUME NEW v, NEW last, RightTree(v, last), NEW node, NEW width, NEW span,
           OnLevel(v, node, width, span), v.internal + span <= last
    PROVE  Candidate(v, node, v.internal + span - width + 1, v.internal + span)
<1>1. PICK m \in PowersOfTwo :
         /\ width \in PowersOfTwo /\ m * width = v.internal
         /\ node \in m .. 2 * m - 1 /\ span \in Nat
         /\ node * width + width - 1 = v.internal + span
  BY DEF OnLevel, Level
<1>2. v.internal \in PowersOfTwo
  BY DEF RightTree
<1>3. LeavesBelow(v, node, width)
  BY <1>1, CoveredNode
<1>4. node * width = v.internal + span - width + 1 /\ node \in Nat \ {0}
  BY <1>2, OnLevelFacts
<1> QED  BY <1>1, <1>3, <1>4 DEF LeavesBelow, Candidate

LEMMA LesserIs ==
    ASSUME NEW v, NEW last, RightTree(v, last),
           NEW lo \in Nat \ {0}, NEW mid \in Nat, NEW hi \in Nat, lo <= mid, mid < hi, hi <= last,
           NEW x, Candidate(v, x, lo, mid),
           NEW y, Candidate(v, y, mid + 1, hi)
    PROVE  Candidate(v, Lesser(v, y, x), lo, hi)
<1> DEFINE T == v.tree
           a == LeafOf(v, x)
           b == LeafOf(v, y)
<1>1. /\ AtLeftmost(T, a, lo, mid) /\ AtLeftmost(T, b, mid + 1, hi)
      /\ T[a] = T[x] /\ T[b] = T[y] /\ x \in Nat \ {0} /\ y \in Nat \ {0}
  BY DEF Candidate
<1>2. \A q \in lo .. hi : T[q] \in Int
  <2>1. \A q \in lo .. hi : q \in 1 .. last
    BY DEF RightTree
  <2> QED  BY <2>1 DEF RightTree
<1> DEFINE l == IF T[b] < T[a] THEN b ELSE a
           z == Lesser(v, y, x)
<1>3. z = IF T[b] < T[a] THEN y ELSE x
  BY <1>1 DEF Lesser
<1>4. LeafOf(v, z) = l /\ T[z] = T[l] /\ z \in Nat \ {0}
  BY <1>1, <1>3
<1> HIDE DEF a, b, T, z
<1>5. AtLeftmost(T, l, lo, hi)
  <2>1. lo \in Int /\ mid \in Int /\ hi \in Int
    OBVIOUS
  <2> QED  BY ONLY <1>1, <1>2, <2>1, lo <= mid, mid < hi, LeftmostJoin
<1> HIDE DEF l
<1>6. Candidate(v, z, lo, hi)
  BY <1>4, <1>5 DEF Candidate, T
<1> QED  BY <1>6 DEF z

\* A candidate for all stays the candidate if it is compared with a part.
LEMMA LesserStays ==
    ASSUME NEW v, NEW last, RightTree(v, last),
           NEW lo \in Nat \ {0}, NEW mid \in Nat, NEW hi \in Nat, lo <= mid, hi <= last,
           NEW x, Candidate(v, x, lo, hi),
           NEW y, Candidate(v, y, mid, hi)
    PROVE  Candidate(v, Lesser(v, y, x), lo, hi)
<1> DEFINE T == v.tree
           a == LeafOf(v, x)
           b == LeafOf(v, y)
<1>1. /\ AtLeftmost(T, a, lo, hi) /\ AtLeftmost(T, b, mid, hi)
      /\ T[a] = T[x] /\ T[b] = T[y]
  BY DEF Candidate
<1>2. \A q \in lo .. hi : T[q] \in Int
  <2>1. \A q \in lo .. hi : q \in 1 .. last
    BY DEF RightTree
  <2> QED  BY <2>1 DEF RightTree
<1> HIDE DEF a, b, T
<1>3. b \in lo .. hi /\ a \in lo .. hi
  BY <1>1 DEF AtLeftmost
<1>4. T[a] < T[b] \/ T[a] = T[b]
  BY <1>1, <1>3 DEF AtLeftmost
<1>5. ~(T[y] < T[x])
  BY <1>1, <1>2, <1>3, <1>4
<1>6. Lesser(v, y, x) = x
  BY <1>5 DEF Lesser, T
<1> QED  BY <1>6

(***************************************************************************)
(* On the way up, until it meets the end, the candidate is one for the     *)
(* leaves from the start to the last one below the node.  From there on    *)
(* the node has the end below it, and the candidate is one for what comes  *)
(* before the node, or for the node as well if the end is its last leaf.   *)
(***************************************************************************)
Rising(v, start, end, s) ==
    /\ OnLevel(v, s.node, s.width, s.span)
    /\ start <= s.span
    /\ s.span < end - 1
    /\ Candidate(v, s.best, v.internal + start, v.internal + s.span)

Sinking(v, start, end, s) ==
    /\ OnLevel(v, s.node, s.width, s.span)
    /\ end - 1 <= s.span
    /\ s.span - s.width + 1 <= end - 1
    /\ start <= s.span - s.width
    /\ \/ Candidate(v, s.best, v.internal + start, v.internal + s.span - s.width)
       \/ s.span = end - 1 /\ Candidate(v, s.best, v.internal + start, v.internal + s.span)

Up(v, end) ==
    [s \in Climbs |->
        LET sibling == s.node + 1
            span == s.span + s.width
            best == IF span < end THEN Lesser(v, sibling, s.best) ELSE s.best
        IN  IF s.met THEN s
            ELSE IF s.node % 2 = 1
            THEN Climb(s.node \div 2, s.span, 2 * s.width, s.best, FALSE)
            ELSE IF span >= end - 1
            THEN Climb(sibling, span, s.width, best, TRUE)
            ELSE Climb(s.node \div 2, span, 2 * s.width, best, FALSE)]

Down(v, end) ==
    [s \in Climbs |->
        LET left == 2 * s.node
            width == s.width \div 2
        IN  IF s.span <= end - 1 THEN s
            ELSE IF s.span - width >= end - 1
            THEN Climb(left, s.span - width, width, s.best, s.met)
            ELSE Climb(left + 1, s.span, width, Lesser(v, left, s.best), s.met)]

\* The superblocks start .. end - 1, at least two of them.
Between(v, last, start, end) ==
    /\ RightTree(v, last)
    /\ start \in Nat /\ end \in Nat /\ start + 1 < end
    /\ v.internal + end - 1 <= last

LEMMA UpKeeps ==
    ASSUME NEW v, NEW last, NEW start, NEW end, Between(v, last, start, end),
           NEW s \in Climbs, ~s.met, Rising(v, start, end, s)
    PROVE  LET u == Up(v, end)[s]
           IN  /\ u \in Climbs
               /\ s.width \in Nat /\ 2 * s.width <= v.internal
               /\ u.met => Sinking(v, start, end, u)
               /\ ~u.met => Rising(v, start, end, u) /\ u.width = 2 * s.width
<1> DEFINE node == s.node
           span == s.span
           width == s.width
           x == s.best
           u == Up(v, end)[s]
<1>1. /\ RightTree(v, last) /\ v.internal \in PowersOfTwo /\ v.internal \in Nat \ {0}
      /\ start \in Nat /\ end \in Nat /\ start + 1 < end
      /\ v.internal + end - 1 <= last /\ last \in Nat /\ last < 2 * v.internal
  BY PowerFacts DEF Between, RightTree
<1>2. /\ OnLevel(v, node, width, span)
      /\ start <= span /\ span < end - 1
      /\ Candidate(v, x, v.internal + start, v.internal + span)
  BY DEF Rising
<1>4. x \in Nat
  BY DEF Climbs
<1> HIDE DEF node, span, width, x
<1>5. /\ node \in Nat \ {0} /\ width \in Nat \ {0} /\ span \in Nat
      /\ node = 1 => span = v.internal - 1
      /\ node # 1 => 2 * width <= v.internal
  BY <1>1, <1>2, OnLevelFacts
<1>6. node # 1
  BY <1>1, <1>2, <1>5
<1> DEFINE sibling == node + 1
           next == span + width
           best == IF next < end THEN Lesser(v, sibling, x) ELSE x
<1>7. u = IF node % 2 = 1
          THEN Climb(node \div 2, span, 2 * width, x, FALSE)
          ELSE IF next >= end - 1
          THEN Climb(sibling, next, width, best, TRUE)
          ELSE Climb(node \div 2, next, 2 * width, best, FALSE)
  BY DEF Up, node, span, width, x
<1>8. node \div 2 \in Nat /\ 2 * width \in Nat /\ sibling \in Nat /\ next \in Nat
  BY <1>5
<1>9. best \in Nat
  BY <1>4, <1>5 DEF Lesser
<1> HIDE DEF u, sibling, next, best
<1>10. u \in Climbs
  BY <1>4, <1>5, <1>7, <1>8, <1>9 DEF Climbs, Climb
<1>11. 2 * width <= v.internal
  BY <1>5, <1>6
<1>12. CASE node % 2 = 1
  <2>1. OnLevel(v, node \div 2, 2 * width, span)
    BY <1>1, <1>2, <1>6, <1>12, UpFromRight
  <2>2. u = Climb(node \div 2, span, 2 * width, x, FALSE)
    BY <1>7, <1>12
  <2>3. u.node = node \div 2 /\ u.span = span /\ u.width = 2 * width /\ u.best = x /\ ~u.met
    BY <2>2 DEF Climb
  <2>4. Rising(v, start, end, u)
    BY <1>2, <2>1, <2>3 DEF Rising
  <2> QED  BY <1>5, <1>10, <1>11, <2>3, <2>4 DEF u, width
<1>13. CASE node % 2 # 1
  <2>1. OnLevel(v, sibling, width, next) /\ OnLevel(v, node \div 2, 2 * width, next)
    BY <1>1, <1>2, <1>6, <1>13, UpFromLeft DEF sibling, next
  <2>2. next < end => Candidate(v, best, v.internal + start, v.internal + next)
    <3> SUFFICES ASSUME next < end PROVE Candidate(v, best, v.internal + start, v.internal + next)
      OBVIOUS
    <3> DEFINE lo == v.internal + start
               mid == v.internal + span
               hi == v.internal + next
    <3>1. /\ lo \in Nat \ {0} /\ mid \in Nat /\ hi \in Nat /\ lo <= mid /\ mid < hi /\ hi <= last
          /\ v.internal + next - width + 1 = mid + 1
      BY <1>1, <1>2, <1>5, <1>8 DEF next
    <3>2. Candidate(v, sibling, v.internal + next - width + 1, hi)
      BY <1>1, <2>1, <3>1, NodeIsCandidate
    <3>3. Candidate(v, sibling, mid + 1, hi) /\ Candidate(v, x, lo, mid)
      BY <1>2, <3>1, <3>2
    <3> HIDE DEF lo, mid, hi
    <3>4. Candidate(v, Lesser(v, sibling, x), lo, hi)
      BY <1>1, <3>1, <3>3, LesserIs
    <3> QED  BY <3>4 DEF best, lo, hi
  <2>3. CASE next >= end - 1
    <3>1. u = Climb(sibling, next, width, best, TRUE)
      BY <1>7, <1>13, <2>3
    <3>2. u.node = sibling /\ u.span = next /\ u.width = width /\ u.best = best /\ u.met
      BY <3>1 DEF Climb
    <3>3. next - width = span
      BY <1>5 DEF next
    <3>4. \/ Candidate(v, best, v.internal + start, v.internal + next - width)
          \/ next = end - 1 /\ Candidate(v, best, v.internal + start, v.internal + next)
      <4>1. CASE next < end
        BY <1>1, <1>8, <2>2, <2>3, <4>1
      <4>2. CASE ~(next < end)
        <5>1. best = x /\ v.internal + next - width = v.internal + span
          BY <1>1, <1>5, <4>2 DEF best, next
        <5> QED  BY <1>2, <5>1
      <4> QED  BY <4>1, <4>2
    <3>5. end - 1 <= next /\ next - width + 1 <= end - 1 /\ start <= next - width
      BY <1>1, <1>2, <1>5, <1>8, <2>3, <3>3
    <3>6. Sinking(v, start, end, u)
      BY <2>1, <3>2, <3>4, <3>5 DEF Sinking
    <3> QED  BY <1>5, <1>10, <1>11, <3>2, <3>6 DEF u, width
  <2>4. CASE ~(next >= end - 1)
    <3>1. u = Climb(node \div 2, next, 2 * width, best, FALSE)
      BY <1>7, <1>13, <2>4
    <3>2. u.node = node \div 2 /\ u.span = next /\ u.width = 2 * width /\ u.best = best /\ ~u.met
      BY <3>1 DEF Climb
    <3>3. start <= next /\ next < end - 1 /\ next < end
      BY <1>1, <1>2, <1>5, <2>4 DEF next
    <3>4. Rising(v, start, end, u)
      BY <2>1, <2>2, <3>2, <3>3 DEF Rising
    <3> QED  BY <1>5, <1>10, <1>11, <3>2, <3>4 DEF u, width
  <2> QED  BY <2>3, <2>4
<1> QED  BY <1>12, <1>13

LEMMA DownKeeps ==
    ASSUME NEW v, NEW last, NEW start, NEW end, Between(v, last, start, end),
           NEW s \in Climbs, Sinking(v, start, end, s)
    PROVE  LET u == Down(v, end)[s]
           IN  /\ u \in Climbs
               /\ Sinking(v, start, end, u)
               /\ s.width \in Nat \ {0} /\ s.width <= v.internal
               /\ s.span <= end - 1 => u = s
               /\ s.span > end - 1 => u.width < s.width
<1> DEFINE node == s.node
           span == s.span
           width == s.width
           x == s.best
           u == Down(v, end)[s]
<1>1. /\ RightTree(v, last) /\ v.internal \in PowersOfTwo /\ v.internal \in Nat \ {0}
      /\ start \in Nat /\ end \in Nat /\ start + 1 < end
      /\ v.internal + end - 1 <= last /\ last \in Nat /\ last < 2 * v.internal
  BY PowerFacts DEF Between, RightTree
<1>2. /\ OnLevel(v, node, width, span)
      /\ end - 1 <= span /\ span - width + 1 <= end - 1 /\ start <= span - width
      /\ \/ Candidate(v, x, v.internal + start, v.internal + span - width)
         \/ span = end - 1 /\ Candidate(v, x, v.internal + start, v.internal + span)
  BY DEF Sinking
<1>3. s.met \in BOOLEAN
  BY DEF Climbs
<1>4. x \in Nat
  BY DEF Climbs
<1> HIDE DEF node, span, width, x
<1>5. node \in Nat \ {0} /\ width \in Nat \ {0} /\ span \in Nat /\ width <= v.internal
  BY <1>1, <1>2, OnLevelFacts
<1> DEFINE left == 2 * node
           half == width \div 2
           best == Lesser(v, left, x)
<1>7. u = IF span <= end - 1 THEN s
          ELSE IF span - half >= end - 1
          THEN Climb(left, span - half, half, x, s.met)
          ELSE Climb(left + 1, span, half, best, s.met)
  BY DEF Down, node, span, width, x
<1> HIDE DEF u, left, half, best
<1>8. CASE span <= end - 1
  BY <1>1, <1>5, <1>7, <1>8 DEF u, width, span
<1>9. CASE ~(span <= end - 1)
  <2>1. width # 1
    BY <1>1, <1>2, <1>5, <1>9
  <2>2. /\ half \in Nat \ {0} /\ width = 2 * half
        /\ OnLevel(v, left, half, span - half)
        /\ OnLevel(v, left + 1, half, span)
    BY <1>1, <1>2, <2>1, DownFrom DEF left, half
  <2>3. Candidate(v, x, v.internal + start, v.internal + span - width)
    BY <1>2, <1>9
  <2>4. half < width /\ span - half \in Nat /\ left \in Nat \ {0}
    BY <1>1, <1>2, <1>5, <2>2 DEF left
  <2>5. best \in Nat
    BY <1>4, <2>4 DEF Lesser, best
  <2>6. CASE span - half >= end - 1
    <3>1. u = Climb(left, span - half, half, x, s.met)
      BY <1>7, <1>9, <2>6
    <3>2. /\ u \in Climbs /\ u.node = left /\ u.span = span - half /\ u.width = half /\ u.best = x
      BY <3>1, <1>3, <1>4, <1>5, <2>2, <2>4 DEF Climbs, Climb
    <3>3. span - half - half = span - width /\ v.internal + (span - half) - half = v.internal + span - width
      BY <1>1, <1>5, <2>2
    <3>4. Sinking(v, start, end, u)
      <4>1. Candidate(v, u.best, v.internal + start, v.internal + u.span - u.width)
        BY <2>3, <3>2, <3>3
      <4>2. u.span - u.width + 1 <= end - 1 /\ start <= u.span - u.width
        BY <1>2, <3>2, <3>3
      <4> QED  BY <2>2, <2>6, <3>2, <4>1, <4>2 DEF Sinking
    <3> QED  BY <1>1, <1>5, <1>9, <2>4, <3>2, <3>4 DEF u, width, span
  <2>7. CASE ~(span - half >= end - 1)
    <3>1. u = Climb(left + 1, span, half, best, s.met)
      BY <1>7, <1>9, <2>7
    <3>2. /\ u \in Climbs /\ u.node = left + 1 /\ u.span = span /\ u.width = half /\ u.best = best
      BY <3>1, <1>3, <1>5, <2>2, <2>4, <2>5 DEF Climbs, Climb
    <3>3. Candidate(v, best, v.internal + start, v.internal + span - half)
      <4> DEFINE lo == v.internal + start
                 mid == v.internal + span - width
                 hi == v.internal + (span - half)
      <4>1. /\ lo \in Nat \ {0} /\ mid \in Nat /\ hi \in Nat /\ lo <= mid /\ mid < hi /\ hi <= last
            /\ v.internal + (span - half) - half + 1 = mid + 1
            /\ hi = v.internal + span - half
        BY <1>1, <1>2, <1>5, <2>2, <2>4, <2>7
      <4>2. Candidate(v, left, v.internal + (span - half) - half + 1, hi)
        BY <1>1, <2>2, <4>1, NodeIsCandidate
      <4>3. Candidate(v, left, mid + 1, hi) /\ Candidate(v, x, lo, mid)
        BY <2>3, <4>1, <4>2
      <4> HIDE DEF lo, mid, hi
      <4>4. Candidate(v, Lesser(v, left, x), lo, hi)
        BY <1>1, <4>1, <4>3, LesserIs
      <4> QED  BY <4>1, <4>4 DEF best, lo
    <3>4. Sinking(v, start, end, u)
      <4>1. span - half + 1 <= end - 1 /\ start <= span - half
        BY <1>1, <1>2, <1>5, <2>2, <2>4, <2>7
      <4> QED  BY <1>2, <2>2, <3>2, <3>3, <4>1 DEF Sinking
    <3> QED  BY <1>1, <1>5, <1>9, <2>4, <3>2, <3>4 DEF u, width, span
  <2> QED  BY <2>6, <2>7
<1> QED  BY <1>8, <1>9

LEMMA GoUpIs ==
    ASSUME NEW v, NEW last, NEW start, NEW end, Between(v, last, start, end)
    PROVE  GoUp(v, start, end) \in Climbs /\ Sinking(v, start, end, GoUp(v, start, end))
<1> DEFINE internal == v.internal
           leaf == internal + start
           up == Up(v, end)
           first == Climb(leaf, start, 1, leaf, FALSE)
           P == {s \in Climbs : IF s.met THEN Sinking(v, start, end, s) ELSE Rising(v, start, end, s)}
           D == {s \in P : s.met}
           m == [s \in P |-> IF s.met THEN 0 ELSE internal - s.width]
<1>1. /\ RightTree(v, last) /\ internal \in PowersOfTwo /\ internal \in Nat \ {0}
      /\ start \in Nat /\ end \in Nat /\ start + 1 < end
      /\ internal + end - 1 <= last /\ last \in Nat /\ last < 2 * internal
  BY PowerFacts DEF Between, RightTree
<1>2. GoUp(v, start, end) = Rounds(internal, up, first)
  BY DEF GoUp, Up
<1>3. first \in P /\ ~first.met /\ first.width = 1
  <2>1. first \in Climbs
    BY <1>1 DEF Climbs, Climb
  <2>2. /\ first.node = leaf /\ first.span = start /\ first.width = 1 /\ first.best = leaf
        /\ ~first.met
    BY DEF Climb
  <2>3. OnLevel(v, leaf, 1, start)
    <3>1. Level(v, internal, 1)
      BY <1>1, PowerFacts DEF Level
    <3>2. leaf \in internal .. 2 * internal - 1 /\ leaf * 1 + 1 - 1 = internal + start
      BY <1>1
    <3> QED  BY <1>1, <3>1, <3>2 DEF OnLevel
  <2>4. Candidate(v, leaf, internal + start, internal + start)
    <3>1. internal + start <= last /\ internal + start - 1 + 1 = internal + start
      BY <1>1
    <3>2. Candidate(v, leaf, internal + start - 1 + 1, internal + start)
      BY <1>1, <2>3, <3>1, NodeIsCandidate
    <3> QED  BY <3>1, <3>2
  <2> HIDE DEF first
  <2>5. Rising(v, start, end, first)
    BY <1>1, <2>2, <2>3, <2>4 DEF Rising
  <2> QED  BY <2>1, <2>2, <2>5
<1> HIDE DEF first, up
<1>4. ASSUME NEW s \in P
      PROVE  /\ up[s] \in P
             /\ s.met => up[s] = s
             /\ ~s.met => /\ s.width \in Nat /\ 2 * s.width <= internal /\ s.width # 0
                          /\ up[s].met \/ up[s].width = 2 * s.width
  <2>1. s \in Climbs /\ IF s.met THEN Sinking(v, start, end, s) ELSE Rising(v, start, end, s)
    OBVIOUS
  <2>2. CASE s.met
    <3>1. up[s] = s
      BY <2>1, <2>2 DEF up, Up
    <3> QED  BY <2>2, <3>1
  <2>3. CASE ~s.met
    <3> HIDE DEF P
    <3>1. /\ up[s] \in Climbs
          /\ s.width \in Nat /\ 2 * s.width <= internal
          /\ up[s].met => Sinking(v, start, end, up[s])
          /\ ~up[s].met => Rising(v, start, end, up[s]) /\ up[s].width = 2 * s.width
      BY <2>1, <2>3, UpKeeps DEF up
    <3>2. s.width # 0
      BY <1>1, <2>1, <2>3, OnLevelFacts DEF Rising
    <3> QED  BY <2>3, <3>1, <3>2 DEF P
  <2> QED  BY <2>2, <2>3
<1>5. EndsWithin(internal, up, first, P, D, m)
  <2>1. \A s \in P : up[s] \in P
    <3> HIDE DEF P
    <3> QED  BY <1>4
  <2>2. \A s \in P : m[s] = IF s.met THEN 0 ELSE internal - s.width
    OBVIOUS
  <2>3. \A s \in P : s \in D <=> s.met
    OBVIOUS
  <2> HIDE DEF P, D, m
  <2>4. \A s \in P : m[s] \in Nat
    BY <1>1, <1>4, <2>2
  <2>5. \A s \in P : s \in D => up[s] \in D
    BY <1>4, <2>3
  <2>6. \A s \in P : s \in D \/ up[s] \in D \/ m[up[s]] < m[s]
    <3> TAKE s \in P
    <3> DEFINE u == up[s]
    <3>1. u \in P
      BY <2>1
    <3>2. ~s.met => /\ s.width \in Nat /\ 2 * s.width <= internal /\ s.width # 0
                    /\ u.met \/ u.width = 2 * s.width
      BY <1>4
    <3> HIDE DEF u
    <3>3. s \in D \/ u \in D \/ m[u] < m[s]
      BY <1>1, <2>2, <2>3, <3>1, <3>2
    <3> QED  BY <3>3 DEF u
  <2>7. m[first] < internal
    BY <1>1, <1>3, <2>2
  <2> QED  BY <1>3, <2>1, <2>4, <2>5, <2>6, <2>7 DEF EndsWithin
<1> DEFINE r == Rounds(internal, up, first)
<1>6. r \in P /\ r \in D
  <2>1. internal \in Nat
    BY <1>1
  <2> HIDE DEF P, D, m, internal
  <2> QED  BY <1>5, <2>1, RoundsEnd
<1> HIDE DEF r
<1>7. r \in Climbs /\ Sinking(v, start, end, r)
  BY <1>6
<1> QED  BY <1>2, <1>7 DEF r

LEMMA GoDownIs ==
    ASSUME NEW v, NEW last, NEW start, NEW end, Between(v, last, start, end),
           NEW from \in Climbs, Sinking(v, start, end, from)
    PROVE  Candidate(v, GoDown(v, end, from), v.internal + start, v.internal + end - 1)
<1> DEFINE internal == v.internal
           down == Down(v, end)
           P == {s \in Climbs : Sinking(v, start, end, s)}
           D == {s \in P : s.span <= end - 1}
           m == [s \in P |-> s.width - 1]
           r == Rounds(internal, down, from)
<1>1. /\ RightTree(v, last) /\ internal \in PowersOfTwo /\ internal \in Nat \ {0}
      /\ start \in Nat /\ end \in Nat /\ start + 1 < end
      /\ internal + end - 1 <= last /\ last \in Nat /\ last < 2 * internal
  BY PowerFacts DEF Between, RightTree
<1>2. GoDown(v, end, from) = IF r.span < end THEN Lesser(v, r.node, r.best) ELSE r.best
  BY DEF GoDown, Down
<1>3. from \in P
  OBVIOUS
<1> HIDE DEF down
<1>4. ASSUME NEW s \in P
      PROVE  /\ down[s] \in P
             /\ s.width \in Nat \ {0} /\ s.width <= internal
             /\ s.span <= end - 1 => down[s] = s
             /\ s.span > end - 1 => down[s].width < s.width
  BY DownKeeps DEF down
<1>5. EndsWithin(internal, down, from, P, D, m)
  <2>2. \A s \in P : m[s] = s.width - 1
    OBVIOUS
  <2>3. \A s \in P : (s \in D <=> s.span <= end - 1) /\ s.span \in Int
    BY DEF Climbs
  <2> HIDE DEF P, D, m
  <2>1. \A s \in P : down[s] \in P
    BY <1>4
  <2>4. \A s \in P : m[s] \in Nat
    BY <1>4, <2>2
  <2>5. \A s \in P : s \in D => down[s] \in D
    BY <1>4, <2>3
  <2>6. \A s \in P : s \in D \/ down[s] \in D \/ m[down[s]] < m[s]
    <3> TAKE s \in P
    <3> DEFINE u == down[s]
    <3>1. u \in P /\ s.width \in Nat \ {0}
      BY <1>4
    <3>2. u.width \in Nat \ {0} /\ s.span > end - 1 => u.width < s.width
      BY <1>4, <3>1
    <3> HIDE DEF u
    <3>3. s \in D \/ m[u] < m[s]
      <4>1. CASE s.span <= end - 1
        BY <2>3, <4>1
      <4>2. CASE s.span > end - 1
        <5>1. u.width < s.width /\ u.width \in Nat
          BY <1>4, <3>1, <4>2 DEF u
        <5> QED  BY <2>2, <3>1, <5>1
      <4> QED  BY <1>1, <2>3, <4>1, <4>2
    <3> QED  BY <3>3 DEF u
  <2>7. m[from] < internal
    BY <1>1, <1>3, <1>4, <2>2
  <2> QED  BY <1>3, <2>1, <2>4, <2>5, <2>6, <2>7 DEF EndsWithin
<1>6. r \in P /\ r \in D
  <2>1. internal \in Nat
    BY <1>1
  <2> HIDE DEF P, D, m, internal
  <2> QED  BY <1>5, <2>1, RoundsEnd
<1> HIDE DEF r
<1>7. r \in Climbs /\ Sinking(v, start, end, r) /\ r.span <= end - 1
  BY <1>6
<1>8. /\ OnLevel(v, r.node, r.width, r.span) /\ r.span = end - 1 /\ start <= r.span - r.width
      /\ \/ Candidate(v, r.best, v.internal + start, v.internal + r.span - r.width)
         \/ Candidate(v, r.best, v.internal + start, v.internal + r.span)
  BY <1>1, <1>7 DEF Sinking, Climbs
<1>9. r.width \in Nat \ {0}
  BY <1>1, <1>8, OnLevelFacts
<1> DEFINE lo == internal + start
           mid == internal + r.span - r.width
           hi == internal + r.span
<1>10. /\ lo \in Nat \ {0} /\ mid \in Nat /\ hi \in Nat /\ lo <= mid /\ mid < hi /\ hi <= last
       /\ internal + r.span - r.width + 1 = mid + 1 /\ mid + 1 \in Nat /\ lo <= mid + 1
       /\ hi = internal + end - 1
  BY <1>1, <1>8, <1>9
<1>11. Candidate(v, r.node, mid + 1, hi)
  BY <1>1, <1>8, <1>10, NodeIsCandidate
<1>12. Candidate(v, Lesser(v, r.node, r.best), lo, hi)
  <2>1. Candidate(v, r.best, lo, mid) \/ Candidate(v, r.best, lo, hi)
    BY <1>8
  <2> HIDE DEF lo, mid, hi
  <2>2. CASE Candidate(v, r.best, lo, mid)
    BY <1>1, <1>10, <1>11, <2>2, LesserIs
  <2>3. CASE Candidate(v, r.best, lo, hi)
    BY <1>1, <1>10, <1>11, <2>3, LesserStays
  <2> QED  BY <2>1, <2>2, <2>3
<1>13. GoDown(v, end, from) = Lesser(v, r.node, r.best)
  BY <1>1, <1>2, <1>8
<1> QED  BY <1>10, <1>12, <1>13

(***************************************************************************)
(* find_min_superblock() finds the leftmost of the superblocks with the    *)
(* least minimum.                                                          *)
(***************************************************************************)
LEMMA MinSuperblockIs ==
    ASSUME NEW v, NEW last, RightTree(v, last), NEW start \in Nat, NEW end \in Nat,
           start < end, v.internal + end - 1 <= last
    PROVE  AtLeftmost(v.tree, MinSuperblock(v, start, end), v.internal + start, v.internal + end - 1)
<1>1. v.internal \in Nat \ {0}
  BY PowerFacts DEF RightTree
<1>2. CASE end - start = 1
  <2>1. MinSuperblock(v, start, end) = v.internal + start /\ v.internal + end - 1 = v.internal + start
    BY <1>1, <1>2 DEF MinSuperblock
  <2> QED  BY <1>1, <2>1, LeftmostOfOne
<1>3. CASE end - start # 1
  <2>1. Between(v, last, start, end)
    BY <1>3 DEF Between
  <2> DEFINE from == GoUp(v, start, end)
             x == GoDown(v, end, from)
  <2>2. from \in Climbs /\ Sinking(v, start, end, from)
    BY <2>1, GoUpIs
  <2>3. MinSuperblock(v, start, end) = LeafOf(v, x)
    BY <1>3 DEF MinSuperblock
  <2> HIDE DEF from
  <2>4. Candidate(v, x, v.internal + start, v.internal + end - 1)
    BY <2>1, <2>2, GoDownIs
  <2> QED  BY <2>3, <2>4 DEF Candidate
<1> QED  BY <1>2, <1>3

-----------------------------------------------------------------------------
(***************************************************************************)
(* The minima of blocks and superblocks.                                   *)
(***************************************************************************)
ExcessOf(v) == [p \in 0 .. v.size |-> Excess(v, p)]

Blocks(v) == CeilDiv(v.size, BlockBits)

BlockMinOf(v) == [b \in 0 .. Blocks(v) - 1 |-> BlockMin(v, b)]

LEMMA BitsPerBlock ==
    /\ BlockBits \in Nat \ {0} /\ SuperblockSize \in Nat \ {0}
    /\ WordBits \in Nat \ {0} /\ BlockWords \in Nat \ {0}
    /\ SuperblockBits \in Nat \ {0} /\ SuperblockBits = BlockBits * SuperblockSize
    /\ BlockBits = WordBits * BlockWords
BY BlockAssumption DEF BlockBits, SuperblockBits

LEMMA ExcessIs ==
    ASSUME NEW v, v.size \in Nat, CountsZeros(v.zeros, v.size)
    PROVE  \A p \in 0 .. v.size : ExcessOf(v)[p] = Excess(v, p) /\ ExcessOf(v)[p] \in Int
                                      /\ ExcessOf(v)[p] <= v.size
<1> TAKE p \in 0 .. v.size
<1>1. v.zeros[p] \in Nat
  BY DEF CountsZeros
<1>2. ExcessOf(v)[p] = p - 2 * v.zeros[p] /\ Excess(v, p) = p - 2 * v.zeros[p]
  BY DEF ExcessOf, Excess, Rank0
<1> QED  BY <1>1, <1>2

LEMMA BelowCeiling ==
    ASSUME NEW n \in Nat, NEW d \in Nat \ {0}, NEW b \in Nat
    PROVE  /\ b < CeilDiv(n, d) <=> b * d < n
           /\ b <= CeilDiv(n, d) <=> b * d < n + d
<1> DEFINE c == CeilDiv(n, d)
<1>1. c \in Nat /\ n <= c * d /\ c * d < n + d
  BY CeilDivIs
<1> HIDE DEF c
<1> DEFINE x == b * d
           y == c * d
<1>2. x \in Nat /\ y \in Nat /\ (b + 1) * d = x + d
  BY <1>1
<1>3. ASSUME b < c PROVE x + d <= y
  <2>1. (b + 1) * d <= c * d
    BY <1>1, <1>3, TimesGrow
  <2> QED  BY <1>2, <2>1
<1>4. ASSUME c <= b PROVE y <= x
  BY <1>1, <1>4, TimesGrow
<1>5. ASSUME c < b PROVE y + d <= x
  <2>1. c + 1 \in Nat /\ c + 1 <= b
    BY <1>1, <1>5
  <2>2. (c + 1) * d <= b * d
    BY <2>1, TimesGrow
  <2>3. (c + 1) * d = y + d
    BY <1>1
  <2> QED  BY <2>2, <2>3
<1> HIDE DEF x, y
<1>6. n <= y /\ y < n + d
  BY <1>1 DEF y
<1>7. b < c <=> x < n
  BY <1>1, <1>2, <1>3, <1>4, <1>6
<1>8. b <= c <=> x < n + d
  BY <1>1, <1>2, <1>4, <1>5, <1>6, <1>3
<1> QED  BY <1>7, <1>8 DEF x, c

LEMMA BlockMinIs ==
    ASSUME NEW v, v.size \in Nat, CountsZeros(v.zeros, v.size),
           NEW b \in Nat, b * BlockBits <= v.size,
           NEW hi, hi = IF (b + 1) * BlockBits <= v.size THEN (b + 1) * BlockBits ELSE v.size
    PROVE  /\ \E r : AtLeftmost(ExcessOf(v), r, b * BlockBits, hi) /\ BlockMin(v, b) = ExcessOf(v)[r]
           /\ BlockMin(v, b) \in Int /\ BlockMin(v, b) <= v.size
<1> DEFINE lo == b * BlockBits
           next == (b + 1) * BlockBits
           E == ExcessOf(v)
<1>1. lo \in Nat /\ next \in Nat /\ next = lo + BlockBits /\ BlockBits \in Nat \ {0}
  BY BitsPerBlock
<1>2. Min({next, v.size}) = hi
  <2> HIDE DEF next
  <2> QED  BY <1>1, MinOfPair DEF next
<1> HIDE DEF lo, next
<1>3. hi \in Nat /\ lo <= hi /\ hi <= v.size
  BY <1>1 DEF lo, next
<1>4. \A p \in lo .. hi : E[p] = Excess(v, p) /\ E[p] \in Int /\ E[p] <= v.size
  <2> HIDE DEF E
  <2>1. \A p \in lo .. hi : p \in 0 .. v.size
    BY <1>1, <1>3
  <2> QED  BY <2>1, ExcessIs DEF E
<1> HIDE DEF E
<1>5. BlockMin(v, b) = Min({Excess(v, p) : p \in lo .. hi})
  BY <1>2 DEF BlockMin, lo, next
<1>6. {Excess(v, p) : p \in lo .. hi} = {E[p] : p \in lo .. hi}
  BY <1>4
<1>11. lo \in Int /\ hi \in Int /\ lo <= hi
  BY <1>1, <1>3
<1>12. \A p \in lo .. hi : E[p] \in Int
  BY <1>4
<1>7. PICK r : AtLeftmost(E, r, lo, hi)
  BY ONLY <1>11, <1>12, LeftmostThere
<1>8. Min({E[p] : p \in lo .. hi}) = E[r]
  BY ONLY <1>11, <1>12, <1>7, LeastIsLeftmost
<1>9. BlockMin(v, b) = E[r]
  BY <1>5, <1>6, <1>8
<1>10. r \in lo .. hi
  BY <1>7 DEF AtLeftmost
<1> QED  BY <1>4, <1>7, <1>9, <1>10 DEF E, lo

LEMMA SuperblockMinIs ==
    ASSUME NEW v, v.size \in Nat, CountsZeros(v.zeros, v.size),
           NEW s \in Nat, s < CeilDiv(v.size, SuperblockBits),
           NEW hi, hi = (IF (s + 1) * SuperblockSize <= Blocks(v)
                         THEN (s + 1) * SuperblockSize ELSE Blocks(v)) - 1
    PROVE  /\ s * SuperblockSize < Blocks(v)
           /\ \E r : /\ AtLeftmost(BlockMinOf(v), r, s * SuperblockSize, hi)
                     /\ SuperblockMin(v, s) = BlockMinOf(v)[r]
           /\ SuperblockMin(v, s) \in Int /\ SuperblockMin(v, s) <= v.size
<1> DEFINE lo == s * SuperblockSize
           next == (s + 1) * SuperblockSize
           blocks == Blocks(v)
           F == BlockMinOf(v)
<1>1. lo \in Nat /\ next \in Nat /\ next = lo + SuperblockSize /\ SuperblockSize \in Nat \ {0}
  BY BitsPerBlock
<1>2. blocks \in Nat
  BY BitsPerBlock, CeilDivIs DEF Blocks
<1>3. lo < blocks
  <2>1. s * SuperblockBits < v.size
    <3>1. SuperblockBits \in Nat \ {0}
      BY BitsPerBlock
    <3> QED  BY <3>1, BelowCeiling
  <2>2. s * SuperblockBits = lo * BlockBits
    BY BitsPerBlock
  <2> HIDE DEF lo, blocks
  <2>3. lo < CeilDiv(v.size, BlockBits)
    BY <1>1, <2>1, <2>2, BitsPerBlock, BelowCeiling
  <2> QED  BY <2>3 DEF blocks, Blocks
<1>4. Min({next, blocks}) = IF next <= blocks THEN next ELSE blocks
  <2> HIDE DEF next, blocks
  <2> QED  BY <1>1, <1>2, MinOfPair
<1> HIDE DEF lo, next, blocks
<1>5. hi = (IF next <= blocks THEN next ELSE blocks) - 1
  BY DEF next, blocks
<1>6. hi \in Nat /\ lo <= hi /\ hi <= blocks - 1
  BY <1>1, <1>2, <1>3, <1>5
<1>7. \A b \in lo .. hi : F[b] = BlockMin(v, b) /\ F[b] \in Int /\ F[b] <= v.size
  <2> TAKE b \in lo .. hi
  <2>1. b \in 0 .. blocks - 1 /\ b \in Nat /\ b < blocks
    BY <1>1, <1>2, <1>6
  <2>2. F[b] = BlockMin(v, b)
    BY <2>1 DEF BlockMinOf, blocks
  <2>3. b * BlockBits < v.size
    BY <2>1, BitsPerBlock, BelowCeiling DEF blocks, Blocks
  <2>4. b * BlockBits <= v.size
    <3> DEFINE x == b * BlockBits
    <3>1. x \in Nat /\ x < v.size
      BY <2>1, <2>3, BitsPerBlock
    <3> HIDE DEF x
    <3>2. x <= v.size
      BY <3>1
    <3> QED  BY <3>2 DEF x
  <2>5. BlockMin(v, b) \in Int /\ BlockMin(v, b) <= v.size
    BY <2>1, <2>4, BlockMinIs
  <2> QED  BY <2>2, <2>5
<1> HIDE DEF F
<1>8. SuperblockMin(v, s) = Min({BlockMin(v, b) : b \in lo .. hi})
  <2>1. SuperblockMin(v, s) = Min({BlockMin(v, b) : b \in lo .. Min({next, blocks}) - 1})
    BY DEF SuperblockMin, lo, next, blocks, Blocks
  <2> QED  BY <2>1, <1>4, <1>5
<1>9. {BlockMin(v, b) : b \in lo .. hi} = {F[b] : b \in lo .. hi}
  BY <1>7
<1>13. lo \in Int /\ hi \in Int /\ lo <= hi
  BY <1>1, <1>6
<1>14. \A p \in lo .. hi : F[p] \in Int
  BY <1>7
<1>10. PICK r : AtLeftmost(F, r, lo, hi)
  BY ONLY <1>13, <1>14, LeftmostThere
<1>11. Min({F[p] : p \in lo .. hi}) = F[r]
  BY ONLY <1>13, <1>14, <1>10, LeastIsLeftmost
<1>12. SuperblockMin(v, s) = F[r] /\ r \in lo .. hi
  BY <1>8, <1>9, <1>10, <1>11 DEF AtLeftmost
<1> QED  BY <1>3, <1>7, <1>10, <1>12 DEF lo, blocks, F

-----------------------------------------------------------------------------
(***************************************************************************)
(* The structure that is built of a sequence of bits.                      *)
(***************************************************************************)
ZerosTo(Z, bits, n) ==
    Z = [p \in 0 .. n |-> IF p = 0 THEN 0 ELSE Z[p - 1] + (1 - bits[p])]

LEMMA ZerosExist ==
    ASSUME NEW n \in Nat, NEW bits
    PROVE  \E Z : ZerosTo(Z, bits, n)
<1> DEFINE S == {i \in Nat : \E Z : ZerosTo(Z, bits, i)}
<1>1. 0 \in S
  <2> DEFINE Z == [i \in 0 .. 0 |-> 0]
  <2>1. Z = [i \in 0 .. 0 |-> IF i = 0 THEN 0 ELSE Z[i - 1] + (1 - bits[i])]
    OBVIOUS
  <2>2. ZerosTo(Z, bits, 0)
    BY <2>1 DEF ZerosTo
  <2> QED  BY <2>2
<1>2. ASSUME NEW j \in Nat, j \in S
      PROVE  j + 1 \in S
  <2>1. PICK Y : ZerosTo(Y, bits, j)
    BY <1>2
  <2> DEFINE Step(F, i) == IF i = 0 THEN 0 ELSE F[i - 1] + (1 - bits[i])
             Z == [i \in 0 .. j + 1 |-> IF i <= j THEN Y[i] ELSE Step(Y, i)]
  <2>2. \A i \in 0 .. j : Y[i] = Step(Y, i)
    <3>1. Y = [i \in 0 .. j |-> Step(Y, i)]
      BY <2>1 DEF ZerosTo
    <3> QED  BY <3>1
  <2>3. \A i \in 0 .. j + 1 : Z[i] = Step(Z, i)
    <3> TAKE i \in 0 .. j + 1
    <3>1. Z[i] = Step(Y, i)
      BY <2>2
    <3>2. i # 0 => i - 1 \in 0 .. j + 1 /\ i - 1 <= j
      OBVIOUS
    <3>3. i # 0 => Z[i - 1] = Y[i - 1]
      BY <3>2
    <3> QED  BY <3>1, <3>3
  <2>4. Z = [i \in 0 .. j + 1 |-> Step(Z, i)]
    <3>1. Z = [i \in 0 .. j + 1 |-> Z[i]]
      OBVIOUS
    <3> HIDE DEF Z, Step
    <3> QED  BY <3>1, <2>3, Zenon
  <2>5. ZerosTo(Z, bits, j + 1)
    BY <2>4 DEF ZerosTo
  <2> HIDE DEF Z
  <2> QED  BY <2>5
<1>3. \A i \in Nat : i \in S
  <2> HIDE DEF S
  <2> QED  BY <1>1, <1>2, EveryNumber
<1> QED  BY <1>3

LEMMA ZerosOfIs ==
    ASSUME NEW bits \in Seq({0, 1})
    PROVE  /\ CountsZeros(ZerosOf(bits), Len(bits))
           /\ \A p \in 0 .. Len(bits) - 1 : ZerosOf(bits)[p + 1] = ZerosOf(bits)[p] + (1 - bits[p + 1])
<1> DEFINE n == Len(bits)
           Z == CHOOSE Y : ZerosTo(Y, bits, n)
           zeros == ZerosOf(bits)
<1>0. n \in Nat /\ \A p \in 1 .. n : bits[p] \in {0, 1}
  OBVIOUS
<1>1. ZerosTo(Z, bits, n)
  BY <1>0, ZerosExist
<1>2. zeros = [p \in 0 .. n |-> Z[p]]
  BY DEF ZerosOf, ZerosTo
<1> HIDE DEF Z, zeros, n
<1>3. \A p \in 0 .. n : zeros[p] = IF p = 0 THEN 0 ELSE Z[p - 1] + (1 - bits[p])
  BY <1>1, <1>2 DEF ZerosTo
<1>4. zeros[0] = 0
  BY <1>0, <1>3
<1>5. \A p \in 0 .. n - 1 : zeros[p + 1] = zeros[p] + (1 - bits[p + 1])
  <2> TAKE p \in 0 .. n - 1
  <2>1. p + 1 \in 0 .. n /\ p \in 0 .. n /\ p + 1 # 0 /\ p + 1 - 1 = p
    BY <1>0
  <2> QED  BY <2>1, <1>2, <1>3
<1>6. \A p \in 0 .. n - 1 : bits[p + 1] \in {0, 1}
  BY <1>0
<1> DEFINE S == {p \in Nat : zeros[p] \in Nat}
<1>7. 0 \in S
  BY <1>4
<1>8. \A p \in 0 .. n - 1 : p \in S => p + 1 \in S
  BY <1>5, <1>6
<1>9. \A p \in 0 .. n : p \in S
  <2> HIDE DEF S
  <2> QED  BY <1>0, <1>7, <1>8, NumbersUpTo
<1>10. \A p \in 0 .. n - 1 : zeros[p + 1] = zeros[p] \/ zeros[p + 1] = zeros[p] + 1
  <2> TAKE p \in 0 .. n - 1
  <2>1. p \in 0 .. n
    BY <1>0
  <2>2. p \in S
    <3> HIDE DEF S
    <3> QED  BY <1>9, <2>1
  <2>3. zeros[p] \in Nat
    BY <2>2
  <2>4. bits[p + 1] \in {0, 1} /\ zeros[p + 1] = zeros[p] + (1 - bits[p + 1])
    BY <1>5, <1>6
  <2> QED  BY <2>3, <2>4
<1>11. CountsZeros(zeros, n)
  BY <1>4, <1>9, <1>10 DEF CountsZeros
<1> QED  BY <1>5, <1>11 DEF zeros, n

LEMMA SameMinima ==
    ASSUME NEW v, NEW w, v.size = w.size, v.zeros = w.zeros
    PROVE  /\ \A b : BlockMin(v, b) = BlockMin(w, b)
           /\ \A s : SuperblockMin(v, s) = SuperblockMin(w, s)
<1>1. \A p : Excess(v, p) = Excess(w, p)
  BY DEF Excess, Rank0
<1>2. ASSUME NEW b PROVE BlockMin(v, b) = BlockMin(w, b)
  <2> DEFINE X == b * BlockBits .. Min({(b + 1) * BlockBits, v.size})
  <2>1. BlockMin(v, b) = Min({Excess(v, p) : p \in X}) /\ BlockMin(w, b) = Min({Excess(w, p) : p \in X})
    BY DEF BlockMin
  <2> HIDE DEF X
  <2>2. {Excess(v, p) : p \in X} = {Excess(w, p) : p \in X}
    BY <1>1
  <2> QED  BY <2>1, <2>2
<1>3. ASSUME NEW s PROVE SuperblockMin(v, s) = SuperblockMin(w, s)
  <2> DEFINE X == s * SuperblockSize .. Min({(s + 1) * SuperblockSize, CeilDiv(v.size, BlockBits)}) - 1
  <2>1. /\ SuperblockMin(v, s) = Min({BlockMin(v, b) : b \in X})
        /\ SuperblockMin(w, s) = Min({BlockMin(w, b) : b \in X})
    BY DEF SuperblockMin
  <2> HIDE DEF X
  <2>2. {BlockMin(v, b) : b \in X} = {BlockMin(w, b) : b \in X}
    BY <1>2
  <2> QED  BY <2>1, <2>2
<1> QED  BY <1>2, <1>3

Superblocks(v) == CeilDiv(v.size, SuperblockBits)

RightParens(v) ==
    /\ v.size \in Nat \ {0}
    /\ CountsZeros(v.zeros, v.size)
    /\ v.hints = HintsOf(v.zeros, v.size)
    /\ RightTree(v, v.internal + Superblocks(v) - 1)
    /\ \A s \in 0 .. Superblocks(v) - 1 : v.tree[v.internal + s] = SuperblockMin(v, s)
    /\ v.blockMin = BlockMinOf(v)

LEMMA ParensIs ==
    ASSUME NEW bits \in Seq({0, 1}), Len(bits) # 0
    PROVE  /\ RightParens(Parens(bits))
           /\ Parens(bits).size = Len(bits)
           /\ \A p \in 0 .. Len(bits) - 1 :
                  Parens(bits).zeros[p + 1] = Parens(bits).zeros[p] + (1 - bits[p + 1])
<1> DEFINE zeros == ZerosOf(bits)
           w == [size |-> Len(bits), zeros |-> zeros, hints |-> HintsOf(zeros, Len(bits))]
           v == Parens(bits)
           blocks == CeilDiv(w.size, BlockBits)
           superblocks == CeilDiv(w.size, SuperblockBits)
<1>1. w.size = Len(bits) /\ w.zeros = zeros /\ w.hints = HintsOf(zeros, Len(bits)) /\ Len(bits) \in Nat \ {0}
  OBVIOUS
<1>2. v = [size |-> w.size, zeros |-> w.zeros, hints |-> w.hints,
           internal |-> Internal(w.size), tree |-> MinTree(w),
           blockMin |-> [b \in 0 .. blocks - 1 |-> BlockMin(w, b)]]
  BY DEF Parens
<1> HIDE DEF v, w, blocks, zeros, superblocks
<1>3. /\ v.size = w.size /\ v.zeros = w.zeros /\ v.hints = w.hints
      /\ v.internal = Internal(w.size) /\ v.tree = MinTree(w)
      /\ v.blockMin = [b \in 0 .. blocks - 1 |-> BlockMin(w, b)]
  BY <1>2
<1>4. /\ CountsZeros(zeros, Len(bits))
      /\ \A p \in 0 .. Len(bits) - 1 : zeros[p + 1] = zeros[p] + (1 - bits[p + 1])
  BY ZerosOfIs DEF zeros
<1>5. w.size \in Nat /\ CountsZeros(w.zeros, w.size)
  BY <1>1, <1>4
<1>6. superblocks \in Nat \ {0}
  <2>1. superblocks \in Nat /\ (0 < superblocks <=> 0 * SuperblockBits < w.size)
    BY <1>5, BitsPerBlock, CeilDivIs, BelowCeiling DEF superblocks
  <2>2. 0 * SuperblockBits = 0
    BY BitsPerBlock
  <2> QED  BY <1>1, <2>1, <2>2
<1>7. ASSUME NEW s \in 0 .. superblocks - 1
      PROVE  SuperblockMin(w, s) \in Int /\ SuperblockMin(w, s) <= w.size
  <2>1. s \in Nat /\ s < CeilDiv(w.size, SuperblockBits)
    BY <1>6 DEF superblocks
  <2> QED  BY <1>5, <2>1, SuperblockMinIs
<1>8. /\ v.internal \in PowersOfTwo /\ superblocks <= v.internal
      /\ Updated(MinTree(w), w.size, v.internal, v.internal + superblocks - 1, 1)
      /\ HasLeaves(MinTree(w), w, v.internal, v.internal + superblocks - 1)
  BY <1>3, <1>5, <1>6, <1>7, MinTreeIs DEF superblocks
<1>9. RightTree(v, v.internal + superblocks - 1)
  <2> DEFINE last == v.internal + superblocks - 1
  <2>1. v.internal \in Nat \ {0}
    BY <1>8, PowerFacts
  <2>2. last \in Nat /\ v.internal <= last /\ last < 2 * v.internal
    BY <1>6, <1>8, <2>1
  <2>3. Updated(v.tree, w.size, v.internal, last, 1) /\ w.size \in Int
    BY <1>3, <1>5, <1>8
  <2> HIDE DEF last
  <2>4. RightTree(v, last)
    BY <1>8, <2>2, <2>3, UpdatedIsRight
  <2> QED  BY <2>4 DEF last
<1>10. ASSUME NEW s \in 0 .. superblocks - 1
       PROVE  v.tree[v.internal + s] = SuperblockMin(v, s)
  <2>1. v.internal \in Nat \ {0}
    BY <1>8, PowerFacts
  <2>2. v.internal + s \in v.internal .. v.internal + superblocks - 1 /\ v.internal + s - v.internal = s
    BY <1>6, <2>1
  <2> DEFINE x == v.internal + s
  <2>3. v.internal \in Int /\ x \in v.internal .. v.internal + superblocks - 1 /\ x - v.internal = s
    BY <2>2, <2>1
  <2> HIDE DEF x
  <2>4. MinTree(w)[x] = SuperblockMin(w, x - v.internal)
    BY <1>8, <2>3 DEF HasLeaves
  <2>5. v.tree[x] = SuperblockMin(w, s)
    BY <1>3, <2>3, <2>4
  <2> QED  BY <1>3, <2>5, SameMinima DEF x
<1>11. v.blockMin = BlockMinOf(v)
  <2>1. \A b : BlockMin(v, b) = BlockMin(w, b)
    BY <1>3, SameMinima
  <2>2. BlockMinOf(v) = [b \in 0 .. blocks - 1 |-> BlockMin(v, b)]
    BY <1>3 DEF BlockMinOf, Blocks, blocks
  <2> QED  BY <1>3, <2>1, <2>2
<1>12. v.hints = HintsOf(v.zeros, v.size)
  BY <1>1, <1>3
<1>13. RightParens(v)
  BY <1>1, <1>3, <1>5, <1>9, <1>10, <1>11, <1>12 DEF RightParens, Superblocks, superblocks
<1> QED  BY <1>1, <1>3, <1>4, <1>13 DEF v

-----------------------------------------------------------------------------
(***************************************************************************)
(* One more part of a range: what is found so far, and the part's minimum. *)
(***************************************************************************)
LEMMA LeftmostOfPart ==
    ASSUME NEW f, NEW lo \in Int, NEW hi \in Int, NEW from \in Int, NEW to \in Int,
           lo <= from, to <= hi,
           NEW x \in from .. to, AtLeftmost(f, x, lo, hi)
    PROVE  AtLeftmost(f, x, from, to)
BY DEF AtLeftmost

LEMMA LeftmostStays ==
    ASSUME NEW f, NEW lo \in Int, NEW mid \in Int, NEW hi \in Int, mid < hi,
           NEW r, AtLeftmost(f, r, lo, mid),
           \A q \in mid + 1 .. hi : f[r] <= f[q],
           \A q \in lo .. hi : f[q] \in Int
    PROVE  AtLeftmost(f, r, lo, hi)
<1>1. r \in lo .. hi /\ f[r] \in Int /\ r <= mid
  BY DEF AtLeftmost
<1>2. \A q \in lo .. hi : f[r] < f[q] \/ (f[r] = f[q] /\ r <= q)
  <2> TAKE q \in lo .. hi
  <2>1. CASE q <= mid
    BY <2>1 DEF AtLeftmost
  <2>2. CASE mid < q
    <3>1. q \in mid + 1 .. hi
      BY <2>2
    <3>2. f[r] <= f[q] /\ f[q] \in Int /\ r <= q
      BY <3>1, <1>1
    <3> QED  BY <3>2, <1>1
  <2> QED  BY <2>1, <2>2
<1> QED  BY <1>1, <1>2 DEF AtLeftmost

LEMMA LeastBelow ==
    ASSUME NEW f, NEW lo \in Int, NEW hi \in Int, NEW r, AtLeftmost(f, r, lo, hi),
           \A q \in lo .. hi : f[q] \in Int
    PROVE  \A q \in lo .. hi : f[r] <= f[q]
<1>1. r \in lo .. hi
  BY DEF AtLeftmost
<1> QED  BY <1>1 DEF AtLeftmost

LEMMA InWordsPart ==
    ASSUME NEW v, v.size \in Nat, CountsZeros(v.zeros, v.size),
           NEW a \in Nat, NEW mid \in Int, NEW hi \in Int, a <= mid, mid < hi, hi <= v.size,
           NEW best, AtLeftmost(ExcessOf(v), best, a, mid),
           NEW x, AtLeftmost(ExcessOf(v), x, mid + 1, hi),
           NEW from \in Int, NEW to \in Int, mid < from, to <= hi, x \in from .. to
    PROVE  AtLeftmost(ExcessOf(v), InWords(v, from .. to, best), a, hi)
<1> DEFINE E == ExcessOf(v)
<1>1. \A q \in a .. hi : E[q] = Excess(v, q) /\ E[q] \in Int
  <2>1. \A q \in a .. hi : q \in 0 .. v.size
    OBVIOUS
  <2> HIDE DEF E
  <2> QED  BY <2>1, ExcessIs DEF E
<1>2. AtLeftmost(E, best, a, mid) /\ AtLeftmost(E, x, mid + 1, hi)
  OBVIOUS
<1> HIDE DEF E
<1>3. best \in a .. hi /\ x \in a .. hi
  BY <1>2 DEF AtLeftmost
<1>4. \A q \in from .. to : q \in a .. hi
  OBVIOUS
<1>5. /\ Min({E[q] : q \in from .. to}) = E[x] /\ Min({q \in from .. to : E[q] = E[x]}) = x
      /\ from .. to # {}
  <2> DEFINE next == mid + 1
  <2>1. next \in Int /\ next <= from /\ \A q \in from .. to : E[q] \in Int
    BY <1>1, <1>4
  <2>2. AtLeftmost(E, x, next, hi)
    BY <1>2
  <2> HIDE DEF next
  <2>3. /\ next \in Int /\ hi \in Int /\ from \in Int /\ to \in Int /\ next <= from /\ to <= hi
        /\ x \in from .. to /\ \A q \in from .. to : E[q] \in Int
    BY <2>1
  <2>4. AtLeftmost(E, x, from, to)
    BY ONLY <2>2, <2>3, LeftmostOfPart
  <2>5. Min({E[q] : q \in from .. to}) = E[x]
    BY ONLY <2>2, <2>3, <2>4, LeastIsLeftmost
  <2>6. Min({q \in from .. to : E[q] = E[x]}) = x
    BY ONLY <2>2, <2>3, <2>4, FirstIsLeftmost
  <2> QED  BY <2>3, <2>5, <2>6
<1>6. /\ {Excess(v, q) : q \in from .. to} = {E[q] : q \in from .. to}
      /\ {q \in from .. to : Excess(v, q) = E[x]} = {q \in from .. to : E[q] = E[x]}
  BY <1>1, <1>4
<1>7. Min({Excess(v, p) : p \in from .. to}) = E[x] /\ Excess(v, best) = E[best]
  BY <1>1, <1>3, <1>5, <1>6
<1>8. Min({p \in from .. to : Excess(v, p) = E[x]}) = x
  BY <1>5, <1>6
<1>9. InWords(v, from .. to, best) = IF E[x] >= E[best] THEN best ELSE x
  BY <1>5, <1>7, <1>8 DEF InWords
<1>10. E[x] \in Int /\ E[best] \in Int
  BY <1>1, <1>3
<1>11. InWords(v, from .. to, best) = IF E[x] < E[best] THEN x ELSE best
  BY <1>9, <1>10
<1>12. AtLeftmost(E, IF E[x] < E[best] THEN x ELSE best, a, hi)
  BY <1>1, <1>2, LeftmostJoin
<1> QED  BY <1>11, <1>12 DEF E

LEMMA InWordsIs ==
    ASSUME NEW v, v.size \in Nat, CountsZeros(v.zeros, v.size),
           NEW a \in Nat, NEW mid \in Int, NEW hi \in Int, a <= mid, mid <= hi, hi <= v.size,
           NEW best, AtLeftmost(ExcessOf(v), best, a, mid)
    PROVE  AtLeftmost(ExcessOf(v), InWords(v, mid + 1 .. hi, best), a, hi)
<1>1. CASE mid = hi
  <2>1. mid + 1 .. hi = {}
    BY <1>1
  <2>2. InWords(v, mid + 1 .. hi, best) = best
    BY <2>1 DEF InWords
  <2> QED  BY <1>1, <2>2
<1>2. CASE mid < hi
  <2> DEFINE E == ExcessOf(v)
  <2>1. \A q \in mid + 1 .. hi : E[q] \in Int
    <3>1. \A q \in mid + 1 .. hi : q \in 0 .. v.size
      OBVIOUS
    <3> HIDE DEF E
    <3> QED  BY <3>1, ExcessIs DEF E
  <2>2. mid + 1 \in Int /\ mid + 1 <= hi
    BY <1>2
  <2>3. PICK x : AtLeftmost(E, x, mid + 1, hi)
    <3> HIDE DEF E
    <3> QED  BY <2>1, <2>2, LeftmostThere
  <2> DEFINE next == mid + 1
  <2>4. x \in next .. hi /\ next \in Int /\ mid < next /\ hi \in Int /\ hi <= hi
    BY <2>3 DEF AtLeftmost
  <2> HIDE DEF next, E
  <2>5. AtLeftmost(ExcessOf(v), x, mid + 1, hi)
    BY <2>3 DEF E
  <2>6. AtLeftmost(ExcessOf(v), InWords(v, next .. hi, best), a, hi)
    BY <1>2, <2>4, <2>5, InWordsPart
  <2> QED  BY <2>6 DEF next
<1> QED  BY <1>1, <1>2

-----------------------------------------------------------------------------
(***************************************************************************)
(* What a search of the blocks lo .. hi with the minima f finds that is    *)
(* less than exc.                                                          *)
(***************************************************************************)
FoundBlock(f, r, lo, hi, exc) ==
    \/ r.exc = exc /\ \A b \in lo .. hi : exc <= f[b]
    \/ r.exc < exc /\ AtLeftmost(f, r.block, lo, hi) /\ r.exc = f[r.block]

LEMMA FoundNone ==
    ASSUME NEW f, NEW lo \in Int, NEW exc
    PROVE  FoundBlock(f, [exc |-> exc, block |-> -1], lo, lo - 1, exc)
<1>1. lo .. lo - 1 = {}
  OBVIOUS
<1> QED  BY <1>1 DEF FoundBlock

LEMMA FoundStays ==
    ASSUME NEW f, NEW lo \in Int, NEW mid \in Int, NEW hi \in Int, lo - 1 <= mid, mid < hi,
           \A b \in lo .. hi : f[b] \in Int, NEW exc \in Int,
           NEW r, FoundBlock(f, r, lo, mid, exc),
           \A b \in mid + 1 .. hi : r.exc <= f[b]
    PROVE  FoundBlock(f, r, lo, hi, exc)
<1>1. CASE r.exc = exc /\ \A b \in lo .. mid : exc <= f[b]
  <2>1. \A b \in lo .. hi : b \in lo .. mid \/ b \in mid + 1 .. hi
    OBVIOUS
  <2> QED  BY <1>1, <2>1 DEF FoundBlock
<1>2. CASE r.exc < exc /\ AtLeftmost(f, r.block, lo, mid) /\ r.exc = f[r.block]
  <2>1. AtLeftmost(f, r.block, lo, hi)
    BY <1>2, LeftmostStays
  <2> QED  BY <1>2, <2>1 DEF FoundBlock
<1> QED  BY <1>1, <1>2 DEF FoundBlock

LEMMA FoundMore ==
    ASSUME NEW f, NEW lo \in Int, NEW mid \in Int, NEW hi \in Int, lo - 1 <= mid, mid < hi,
           \A b \in lo .. hi : f[b] \in Int, NEW exc \in Int,
           NEW r, FoundBlock(f, r, lo, mid, exc),
           NEW x, AtLeftmost(f, x, mid + 1, hi), f[x] < r.exc
    PROVE  FoundBlock(f, [exc |-> f[x], block |-> x], lo, hi, exc)
<1>1. x \in mid + 1 .. hi /\ x \in lo .. hi /\ f[x] \in Int
  BY DEF AtLeftmost
<1>2. \A q \in mid + 1 .. hi : f[x] < f[q] \/ (f[x] = f[q] /\ x <= q)
  BY DEF AtLeftmost
<1>3. f[x] < exc /\ \A q \in lo .. mid : f[x] < f[q]
  <2>1. CASE r.exc = exc /\ \A b \in lo .. mid : exc <= f[b]
    <3>1. f[x] < exc
      BY <2>1
    <3>2. \A q \in lo .. mid : f[x] < f[q]
      <4> TAKE q \in lo .. mid
      <4>1. f[q] \in Int /\ exc <= f[q]
        BY <2>1
      <4> QED  BY <1>1, <3>1, <4>1
    <3> QED  BY <3>1, <3>2
  <2>2. CASE r.exc < exc /\ AtLeftmost(f, r.block, lo, mid) /\ r.exc = f[r.block]
    <3>1. f[r.block] \in Int /\ r.block \in lo .. mid
      BY <2>2 DEF AtLeftmost
    <3>2. f[x] < exc
      BY <2>2, <3>1, <1>1
    <3>3. \A q \in lo .. mid : f[x] < f[q]
      <4> TAKE q \in lo .. mid
      <4>1. f[q] \in Int /\ f[r.block] <= f[q]
        BY <2>2, <3>1 DEF AtLeftmost
      <4> QED  BY <1>1, <2>2, <3>1, <4>1
    <3> QED  BY <3>2, <3>3
  <2> QED  BY <2>1, <2>2 DEF FoundBlock
<1>4. AtLeftmost(f, x, lo, hi)
  <2>1. \A q \in lo .. hi : q \in lo .. mid \/ q \in mid + 1 .. hi
    OBVIOUS
  <2> QED  BY <1>1, <1>2, <1>3, <2>1 DEF AtLeftmost
<1> QED  BY <1>3, <1>4 DEF FoundBlock

LEMMA FoundLess ==
    ASSUME NEW f, NEW lo \in Int, NEW hi \in Int, NEW exc \in Int,
           \A b \in lo .. hi : f[b] \in Int,
           NEW r, FoundBlock(f, r, lo, hi, exc)
    PROVE  r.exc \in Int /\ r.exc <= exc
<1>1. CASE r.exc = exc
  BY <1>1
<1>2. CASE r.exc < exc /\ AtLeftmost(f, r.block, lo, hi) /\ r.exc = f[r.block]
  BY <1>2 DEF AtLeftmost
<1> QED  BY <1>1, <1>2 DEF FoundBlock

LEMMA InBlocksPart ==
    ASSUME NEW v, NEW lo \in Int, NEW mid \in Int, NEW hi \in Int, lo - 1 <= mid, mid < hi,
           \A b \in lo .. hi : v.blockMin[b] \in Int, NEW exc \in Int,
           NEW best, FoundBlock(v.blockMin, best, lo, mid, exc),
           NEW x, AtLeftmost(v.blockMin, x, mid + 1, hi),
           NEW from \in Int, NEW to \in Int, mid < from, to <= hi, x \in from .. to
    PROVE  FoundBlock(v.blockMin, InBlocks(v, from .. to, best), lo, hi, exc)
<1> DEFINE f == v.blockMin
<1>1. /\ FoundBlock(f, best, lo, mid, exc) /\ AtLeftmost(f, x, mid + 1, hi)
      /\ \A b \in lo .. hi : f[b] \in Int
      /\ InBlocks(v, from .. to, best) =
             LET least == Min({f[b] : b \in from .. to})
             IN  IF from .. to = {} \/ least >= best.exc THEN best
                 ELSE [exc |-> least, block |-> Min({b \in from .. to : f[b] = least})]
  BY DEF InBlocks
<1> HIDE DEF f
<1>2. x \in lo .. hi /\ f[x] \in Int /\ mid + 1 <= from
  BY <1>1
<1>9. \A q \in from .. to : f[q] \in Int
  BY <1>1
<1>3. /\ Min({f[q] : q \in from .. to}) = f[x] /\ Min({q \in from .. to : f[q] = f[x]}) = x
      /\ from .. to # {}
  <2> DEFINE next == mid + 1
  <2>1. next \in Int /\ next <= from
    OBVIOUS
  <2>2. AtLeftmost(f, x, next, hi)
    BY <1>1
  <2> HIDE DEF next
  <2>3. /\ next \in Int /\ hi \in Int /\ from \in Int /\ to \in Int /\ next <= from /\ to <= hi
        /\ x \in from .. to
    BY <2>1
  <2>4. AtLeftmost(f, x, from, to)
    BY ONLY <2>2, <2>3, LeftmostOfPart
  <2>5. Min({f[q] : q \in from .. to}) = f[x]
    BY ONLY <1>9, <2>2, <2>3, <2>4, LeastIsLeftmost
  <2>6. Min({q \in from .. to : f[q] = f[x]}) = x
    BY ONLY <1>9, <2>2, <2>3, <2>4, FirstIsLeftmost
  <2> QED  BY <2>3, <2>5, <2>6
<1>4. InBlocks(v, from .. to, best) = IF f[x] >= best.exc THEN best ELSE [exc |-> f[x], block |-> x]
  BY <1>1, <1>3
<1>5. best.exc \in Int
  <2>1. \A b \in lo .. mid : f[b] \in Int
    BY <1>1
  <2> QED  BY <1>1, <2>1, FoundLess
<1>6. CASE f[x] >= best.exc
  <2>1. \A b \in mid + 1 .. hi : best.exc <= f[b]
    <3> TAKE b \in mid + 1 .. hi
    <3>1. f[b] \in Int /\ f[x] <= f[b]
      BY <1>1, <1>2 DEF AtLeftmost
    <3> QED  BY <3>1, <1>2, <1>5, <1>6
  <2>2. FoundBlock(f, best, lo, hi, exc)
    BY <1>1, <2>1, FoundStays
  <2> QED  BY <1>4, <1>6, <2>2 DEF f
<1>7. CASE f[x] < best.exc
  <2>1. FoundBlock(f, [exc |-> f[x], block |-> x], lo, hi, exc)
    BY <1>1, <1>7, FoundMore
  <2>2. ~(f[x] >= best.exc)
    BY <1>2, <1>5, <1>7
  <2> QED  BY <1>4, <2>1, <2>2 DEF f
<1> QED  BY <1>2, <1>5, <1>6, <1>7

LEMMA InBlocksIs ==
    ASSUME NEW v, NEW lo \in Int, NEW mid \in Int, NEW hi \in Int, lo - 1 <= mid, mid <= hi,
           \A b \in lo .. hi : v.blockMin[b] \in Int, NEW exc \in Int,
           NEW best, FoundBlock(v.blockMin, best, lo, mid, exc)
    PROVE  FoundBlock(v.blockMin, InBlocks(v, mid + 1 .. hi, best), lo, hi, exc)
<1>1. CASE mid = hi
  <2>1. mid + 1 .. hi = {}
    BY <1>1
  <2>2. InBlocks(v, mid + 1 .. hi, best) = best
    BY <2>1 DEF InBlocks
  <2> QED  BY <1>1, <2>2
<1>2. CASE mid < hi
  <2>1. mid + 1 \in Int /\ mid + 1 <= hi /\ \A q \in mid + 1 .. hi : v.blockMin[q] \in Int
    BY <1>2
  <2>2. PICK x : AtLeftmost(v.blockMin, x, mid + 1, hi)
    BY <2>1, LeftmostThere
  <2> DEFINE next == mid + 1
  <2>3. x \in next .. hi /\ next \in Int /\ mid < next /\ hi \in Int /\ hi <= hi
    BY <2>2 DEF AtLeftmost
  <2> HIDE DEF next
  <2>4. FoundBlock(v.blockMin, InBlocks(v, next .. hi, best), lo, hi, exc)
    BY <1>2, <2>2, <2>3, InBlocksPart
  <2> QED  BY <2>4 DEF next
<1> QED  BY <1>1, <1>2

-----------------------------------------------------------------------------
(***************************************************************************)
(* A range of whole parts, each of `size` positions: its leftmost minimum  *)
(* is that of the first part with the least minimum.                       *)
(***************************************************************************)
PartFrom(o, size, s) == o + s * size
PartTo(o, size, s) == o + (s + 1) * size - 1

LEMMA PartsAre ==
    ASSUME NEW o \in Nat, NEW size \in Nat \ {0}, NEW A \in Nat, NEW B \in Nat
    PROVE  /\ \A s \in A .. B : /\ PartFrom(o, size, s) \in Nat /\ PartTo(o, size, s) \in Nat
                                /\ PartFrom(o, size, A) <= PartFrom(o, size, s)
                                /\ PartTo(o, size, s) <= PartTo(o, size, B)
           /\ \A s, t \in A .. B : s < t => PartTo(o, size, s) < PartFrom(o, size, t)
           /\ \A q \in PartFrom(o, size, A) .. PartTo(o, size, B) :
                  \E t \in A .. B : q \in PartFrom(o, size, t) .. PartTo(o, size, t)
<1>1. \A s \in Nat : /\ s * size \in Nat /\ (s + 1) * size \in Nat /\ (s + 1) * size = s * size + size
                     /\ PartFrom(o, size, s) = o + s * size /\ PartTo(o, size, s) = o + s * size + size - 1
  BY DEF PartFrom, PartTo
<1>2. \A s, t \in Nat : s <= t => s * size <= t * size
  BY TimesGrow
<1>3. \A s \in A .. B : s \in Nat
  OBVIOUS
<1>4. ASSUME NEW s \in A .. B
      PROVE  /\ PartFrom(o, size, s) \in Nat /\ PartTo(o, size, s) \in Nat
             /\ PartFrom(o, size, A) <= PartFrom(o, size, s)
             /\ PartTo(o, size, s) <= PartTo(o, size, B)
  <2> DEFINE x == s * size
             y == A * size
             z == B * size
  <2>1. x \in Nat /\ y \in Nat /\ z \in Nat /\ y <= x /\ x <= z
    BY <1>1, <1>2, <1>3
  <2>2. /\ PartFrom(o, size, s) = o + x /\ PartTo(o, size, s) = o + x + size - 1
        /\ PartFrom(o, size, A) = o + y /\ PartTo(o, size, B) = o + z + size - 1
    BY <1>1, <1>3
  <2> HIDE DEF x, y, z
  <2> QED  BY <2>1, <2>2
<1>5. ASSUME NEW s \in A .. B, NEW t \in A .. B, s < t
      PROVE  PartTo(o, size, s) < PartFrom(o, size, t)
  <2> DEFINE x == s * size
             y == t * size
  <2>1. s + 1 \in Nat /\ s + 1 <= t /\ s \in Nat /\ t \in Nat
    BY <1>5
  <2>2. (s + 1) * size <= t * size
    BY <1>2, <2>1
  <2>3. x \in Nat /\ y \in Nat /\ x + size <= y
    BY <1>1, <2>1, <2>2
  <2>4. PartTo(o, size, s) = o + x + size - 1 /\ PartFrom(o, size, t) = o + y
    BY <1>1, <2>1
  <2> HIDE DEF x, y
  <2> QED  BY <2>3, <2>4
<1>6. ASSUME NEW q \in PartFrom(o, size, A) .. PartTo(o, size, B)
      PROVE  \E t \in A .. B : q \in PartFrom(o, size, t) .. PartTo(o, size, t)
  <2> DEFINE y == A * size
             z == B * size
  <2>1. y \in Nat /\ z \in Nat /\ PartFrom(o, size, A) = o + y /\ PartTo(o, size, B) = o + z + size - 1
    BY <1>1
  <2> HIDE DEF y, z
  <2>2. q \in Int /\ q - o \in Nat /\ y <= q - o /\ q - o < z + size
    BY <2>1
  <2>3. PICK t \in Nat : t * size <= q - o /\ q - o < t * size + size
    <3> DEFINE n == q - o
    <3>1. n \in Nat
      BY <2>2
    <3> HIDE DEF n
    <3>2. n \div size \in Nat /\ (n \div size) * size <= n /\ n < (n \div size) * size + size
      BY <3>1, QuotientIs
    <3> QED  BY <3>2 DEF n
  <2> DEFINE x == t * size
  <2>4. x \in Nat /\ PartFrom(o, size, t) = o + x /\ PartTo(o, size, t) = o + x + size - 1
    BY <1>1
  <2>5. A <= t
    <3> SUFFICES ASSUME t + 1 <= A PROVE FALSE
      OBVIOUS
    <3>1. (t + 1) * size <= A * size
      BY <1>2
    <3>2. (t + 1) * size = x + size
      BY <1>1
    <3>3. x + size <= y
      BY <3>1, <3>2 DEF y
    <3>4. q - o < x + size
      BY <2>3
    <3> HIDE DEF x
    <3> QED  BY <2>1, <2>2, <2>4, <3>3, <3>4
  <2>6. t <= B
    <3> SUFFICES ASSUME B + 1 <= t PROVE FALSE
      OBVIOUS
    <3>1. (B + 1) * size <= t * size
      BY <1>2
    <3>2. (B + 1) * size = z + size
      BY <1>1 DEF z
    <3>3. z + size <= x /\ x <= q - o
      BY <3>1, <3>2, <2>3
    <3> HIDE DEF x
    <3> QED  BY <2>1, <2>2, <2>4, <3>3
  <2>7. x <= q - o /\ q - o < x + size
    BY <2>3
  <2> HIDE DEF x
  <2>8. q \in PartFrom(o, size, t) .. PartTo(o, size, t)
    BY <2>2, <2>4, <2>7
  <2> QED  BY <2>5, <2>6, <2>8
<1> QED  BY <1>4, <1>5, <1>6

LEMMA LeftmostOfParts ==
    ASSUME NEW f, NEW m, NEW o \in Nat, NEW size \in Nat \ {0}, NEW A \in Nat, NEW B \in Nat,
           \A q \in PartFrom(o, size, A) .. PartTo(o, size, B) : f[q] \in Int,
           \A t \in A .. B : m[t] \in Int
               /\ \A q \in PartFrom(o, size, t) .. PartTo(o, size, t) : m[t] <= f[q],
           NEW s, AtLeftmost(m, s, A, B),
           NEW r, AtLeftmost(f, r, PartFrom(o, size, s), PartTo(o, size, s)), m[s] = f[r]
    PROVE  AtLeftmost(f, r, PartFrom(o, size, A), PartTo(o, size, B))
<1> DEFINE lo(t) == PartFrom(o, size, t)
           hi(t) == PartTo(o, size, t)
<1>1. s \in A .. B /\ r \in lo(s) .. hi(s)
  BY DEF AtLeftmost
<1>2. /\ \A t \in A .. B : lo(t) \in Nat /\ hi(t) \in Nat /\ lo(A) <= lo(t) /\ hi(t) <= hi(B)
      /\ \A x, y \in A .. B : x < y => hi(x) < lo(y)
      /\ \A q \in lo(A) .. hi(B) : \E t \in A .. B : q \in lo(t) .. hi(t)
  BY PartsAre
<1>3. /\ \A q \in lo(A) .. hi(B) : f[q] \in Int
      /\ \A t \in A .. B : m[t] \in Int /\ \A q \in lo(t) .. hi(t) : m[t] <= f[q]
      /\ AtLeftmost(f, r, lo(s), hi(s))
  OBVIOUS
<1> HIDE DEF lo, hi
<1>8. A \in A .. B /\ B \in A .. B
  BY <1>1
<1>4. lo(A) \in Nat /\ hi(B) \in Nat /\ lo(s) \in Nat /\ hi(s) \in Nat /\ lo(A) <= lo(s) /\ hi(s) <= hi(B)
  BY <1>1, <1>2, <1>8
<1>5. r \in lo(A) .. hi(B) /\ r \in Int
  BY <1>1, <1>4
<1>6. \A q \in lo(A) .. hi(B) : f[r] < f[q] \/ (f[r] = f[q] /\ r <= q)
  <2> TAKE q \in lo(A) .. hi(B)
  <2>1. PICK t \in A .. B : q \in lo(t) .. hi(t)
    BY <1>2
  <2>2. m[t] \in Int /\ m[t] <= f[q] /\ f[q] \in Int /\ m[s] \in Int /\ f[r] = m[s]
    BY <1>1, <1>3, <2>1
  <2>3. m[s] < m[t] \/ (m[s] = m[t] /\ s <= t)
    BY DEF AtLeftmost
  <2>4. CASE m[s] < m[t]
    BY <2>2, <2>4
  <2>5. CASE m[s] = m[t] /\ s = t
    BY <1>3, <2>1, <2>5 DEF AtLeftmost
  <2>6. CASE m[s] = m[t] /\ s < t
    <3>1. hi(s) < lo(t) /\ lo(t) \in Nat
      BY <1>1, <1>2, <2>6
    <3>2. r <= q
      BY <1>1, <1>4, <2>1, <3>1
    <3> QED  BY <2>2, <2>6, <3>2
  <2> QED  BY <1>1, <2>3, <2>4, <2>5, <2>6
<1> QED  BY <1>5, <1>6 DEF AtLeftmost, lo, hi

-----------------------------------------------------------------------------
(***************************************************************************)
(* Blocks by superblocks.                                                  *)
(***************************************************************************)
LEMMA BlockMinimaAre ==
    ASSUME NEW v, RightParens(v)
    PROVE  /\ Blocks(v) \in Nat
           /\ \A b \in 0 .. Blocks(v) - 1 : /\ b * BlockBits < v.size
                                            /\ v.blockMin[b] = BlockMin(v, b)
                                            /\ v.blockMin[b] \in Int
<1>1. v.size \in Nat /\ CountsZeros(v.zeros, v.size) /\ v.blockMin = BlockMinOf(v)
  BY DEF RightParens
<1>2. Blocks(v) \in Nat
  BY <1>1, BitsPerBlock, CeilDivIs DEF Blocks
<1>3. ASSUME NEW b \in 0 .. Blocks(v) - 1
      PROVE  b * BlockBits < v.size /\ v.blockMin[b] = BlockMin(v, b) /\ v.blockMin[b] \in Int
  <2>1. b \in Nat /\ b < Blocks(v)
    BY <1>2
  <2>2. b * BlockBits < v.size
    BY <1>1, <2>1, BitsPerBlock, BelowCeiling DEF Blocks
  <2>3. b * BlockBits <= v.size
    <3> DEFINE x == b * BlockBits
    <3>1. x \in Nat /\ x < v.size
      BY <2>1, <2>2, BitsPerBlock
    <3> HIDE DEF x
    <3>2. x <= v.size
      BY <1>1, <3>1
    <3> QED  BY <3>2 DEF x
  <2>4. BlockMin(v, b) \in Int
    BY <1>1, <2>1, <2>3, BlockMinIs
  <2> QED  BY <1>1, <2>2, <2>4 DEF BlockMinOf
<1> QED  BY <1>2, <1>3

LEMMA WholeSuperblock ==
    ASSUME NEW v, RightParens(v), NEW s \in Nat, (s + 1) * SuperblockSize <= Blocks(v)
    PROVE  /\ s \in 0 .. Superblocks(v) - 1
           /\ \E r : /\ AtLeftmost(v.blockMin, r, PartFrom(0, SuperblockSize, s), PartTo(0, SuperblockSize, s))
                     /\ v.tree[v.internal + s] = v.blockMin[r]
<1> DEFINE x == s * SuperblockSize
           next == (s + 1) * SuperblockSize
<1>0. /\ v.size \in Nat /\ CountsZeros(v.zeros, v.size) /\ v.blockMin = BlockMinOf(v)
      /\ \A t \in 0 .. Superblocks(v) - 1 : v.tree[v.internal + t] = SuperblockMin(v, t)
  BY DEF RightParens
<1>1. x \in Nat /\ next = x + SuperblockSize /\ SuperblockSize \in Nat \ {0} /\ next <= Blocks(v) /\ Blocks(v) \in Nat
  BY BitsPerBlock, BlockMinimaAre
<1>2. x < Blocks(v)
  <2> HIDE DEF x, next
  <2> QED  BY <1>1
<1>3. x * BlockBits < v.size
  <2> HIDE DEF x
  <2>1. x \in 0 .. Blocks(v) - 1
    BY <1>1, <1>2
  <2> QED  BY <2>1, BlockMinimaAre
<1>4. s * SuperblockBits < v.size
  <2>1. s * SuperblockBits = x * BlockBits
    BY BitsPerBlock
  <2> HIDE DEF x
  <2> QED  BY <1>3, <2>1
<1>5. s < CeilDiv(v.size, SuperblockBits)
  BY <1>0, <1>4, BitsPerBlock, BelowCeiling
<1>6. s \in 0 .. Superblocks(v) - 1
  <2>1. CeilDiv(v.size, SuperblockBits) \in Nat
    BY <1>0, BitsPerBlock, CeilDivIs
  <2> QED  BY <1>5, <2>1 DEF Superblocks
<1> DEFINE hi == next - 1
<1>7. hi = (IF (s + 1) * SuperblockSize <= Blocks(v) THEN (s + 1) * SuperblockSize ELSE Blocks(v)) - 1
  OBVIOUS
<1>8. x = PartFrom(0, SuperblockSize, s) /\ hi = PartTo(0, SuperblockSize, s)
  BY <1>1 DEF PartFrom, PartTo
<1> HIDE DEF hi
<1>9. PICK r : /\ AtLeftmost(BlockMinOf(v), r, s * SuperblockSize, hi)
               /\ SuperblockMin(v, s) = BlockMinOf(v)[r]
  BY <1>0, <1>5, <1>7, SuperblockMinIs
<1> QED  BY <1>0, <1>6, <1>8, <1>9

LEMMA MinSuperblockFinds ==
    ASSUME NEW v, RightParens(v), NEW A \in Nat, NEW end \in Nat, A < end,
           end * SuperblockSize <= Blocks(v), NEW s, s = MinSuperblock(v, A, end) - v.internal
    PROVE  /\ s \in A .. end - 1
           /\ \E r : /\ AtLeftmost(v.blockMin, r, A * SuperblockSize, end * SuperblockSize - 1)
                     /\ r \in s * SuperblockSize .. s * SuperblockSize + SuperblockSize - 1
                     /\ v.tree[MinSuperblock(v, A, end)] = v.blockMin[r]
<1> DEFINE size == SuperblockSize
           B == end - 1
           node == MinSuperblock(v, A, end)
           F == v.blockMin
           M == [t \in A .. B |-> v.tree[v.internal + t]]
           last == v.internal + Superblocks(v) - 1
<1>0. size \in Nat \ {0} /\ B \in Nat /\ B + 1 = end /\ A <= B
  BY BitsPerBlock
<1>1. RightTree(v, last)
  BY DEF RightParens
<1>2. v.internal \in Nat \ {0}
  BY <1>1, PowerFacts DEF RightTree
<1>3. \A b \in 0 .. Blocks(v) - 1 : F[b] \in Int
  BY BlockMinimaAre
<1>4. ASSUME NEW t \in A .. B
      PROVE  /\ t \in 0 .. Superblocks(v) - 1
             /\ \E r : /\ AtLeftmost(F, r, PartFrom(0, size, t), PartTo(0, size, t))
                       /\ M[t] = F[r]
             /\ PartTo(0, size, t) <= Blocks(v) - 1 /\ PartTo(0, size, t) \in Nat
             /\ PartFrom(0, size, t) \in Nat
  <2>1. t \in Nat /\ t + 1 \in Nat /\ t + 1 <= end
    BY <1>0
  <2>2. (t + 1) * size <= end * size
    BY <1>0, <2>1, TimesGrow
  <2>3. (t + 1) * size <= Blocks(v) /\ (t + 1) * size \in Nat
    <3> DEFINE x == (t + 1) * size
               y == end * size
    <3>1. x \in Nat /\ y \in Nat /\ x <= y /\ y <= Blocks(v) /\ Blocks(v) \in Nat
      BY <1>0, <2>1, <2>2, BlockMinimaAre
    <3> HIDE DEF x, y
    <3>2. x <= Blocks(v)
      BY <3>1
    <3> QED  BY <3>1, <3>2 DEF x
  <2>4. M[t] = v.tree[v.internal + t]
    OBVIOUS
  <2> HIDE DEF M
  <2>5. /\ t \in 0 .. Superblocks(v) - 1
        /\ \E r : /\ AtLeftmost(F, r, PartFrom(0, size, t), PartTo(0, size, t))
                  /\ M[t] = F[r]
    BY <2>1, <2>3, <2>4, WholeSuperblock
  <2>6. PartFrom(0, size, t) \in Nat /\ PartTo(0, size, t) \in Nat
    BY <1>0, PartsAre
  <2>7. PartTo(0, size, t) <= Blocks(v) - 1
    <3> DEFINE x == (t + 1) * size
    <3>1. PartTo(0, size, t) = x - 1 /\ x \in Nat /\ x <= Blocks(v) /\ Blocks(v) \in Nat
      BY <2>3, BlockMinimaAre DEF PartTo
    <3> HIDE DEF x
    <3> QED  BY <3>1
  <2> QED  BY <2>5, <2>6, <2>7
<1>5. node \in v.internal + A .. v.internal + B /\ AtLeftmost(v.tree, node, v.internal + A, v.internal + B)
  <2>1. B \in A .. B
    BY <1>0
  <2>2. B \in 0 .. Superblocks(v) - 1
    BY <1>4, <2>1
  <2>3. v.internal + end - 1 <= last
    <3>1. Superblocks(v) \in Nat
      BY BitsPerBlock, CeilDivIs DEF Superblocks, RightParens
    <3> QED  BY <1>0, <1>2, <2>2, <3>1
  <2> HIDE DEF last
  <2>4. AtLeftmost(v.tree, node, v.internal + A, v.internal + end - 1)
    BY <1>1, <2>3, MinSuperblockIs
  <2>5. v.internal + end - 1 = v.internal + B
    BY <1>0, <1>2
  <2>6. AtLeftmost(v.tree, node, v.internal + A, v.internal + B)
    BY <2>4, <2>5
  <2> HIDE DEF node, B
  <2> QED  BY <2>6 DEF AtLeftmost
<1>6. s \in A .. B /\ v.internal + s = node
  <2> HIDE DEF node
  <2>1. s = node - v.internal
    BY DEF node
  <2> QED  BY <1>2, <1>5, <2>1, <1>0
<1>7. AtLeftmost(M, s, A, B)
  <2>1. \A t \in A .. B : M[t] = v.tree[v.internal + t] /\ v.internal + t \in v.internal + A .. v.internal + B
    BY <1>2
  <2> HIDE DEF M, B, node
  <2>2. M[s] = v.tree[node]
    BY <1>6, <2>1
  <2>3. \A t \in A .. B : M[s] < M[t] \/ (M[s] = M[t] /\ s <= t)
    <3> TAKE t \in A .. B
    <3> DEFINE y == v.internal + t
    <3>1. y \in v.internal + A .. v.internal + B /\ M[t] = v.tree[y]
      BY <2>1
    <3>2. (node <= y) => s <= t
      BY <1>0, <1>2, <1>6
    <3> HIDE DEF y
    <3>3. v.tree[node] < v.tree[y] \/ (v.tree[node] = v.tree[y] /\ node <= y)
      BY <1>5, <3>1 DEF AtLeftmost
    <3> QED  BY <2>2, <3>1, <3>2, <3>3
  <2> QED  BY <1>6, <2>3 DEF AtLeftmost
<1>8. PICK r : /\ AtLeftmost(F, r, PartFrom(0, size, s), PartTo(0, size, s))
               /\ M[s] = F[r]
  BY <1>4, <1>6
<1>9. \A q \in PartFrom(0, size, A) .. PartTo(0, size, B) : F[q] \in Int
  <2>1. PartFrom(0, size, A) \in Nat /\ PartTo(0, size, B) \in Nat /\ PartTo(0, size, B) <= Blocks(v) - 1
    <3>1. A \in A .. B /\ B \in A .. B
      BY <1>0
    <3> QED  BY <1>4, <3>1
  <2>2. Blocks(v) \in Nat
    BY BlockMinimaAre
  <2>3. \A q \in PartFrom(0, size, A) .. PartTo(0, size, B) : q \in 0 .. Blocks(v) - 1
    BY <2>1, <2>2
  <2> QED  BY <1>3, <2>3
<1>10. ASSUME NEW t \in A .. B
       PROVE  M[t] \in Int /\ \A q \in PartFrom(0, size, t) .. PartTo(0, size, t) : M[t] <= F[q]
  <2>1. PICK x : AtLeftmost(F, x, PartFrom(0, size, t), PartTo(0, size, t)) /\ M[t] = F[x]
    BY <1>4
  <2>2. PartFrom(0, size, t) \in Nat /\ PartTo(0, size, t) \in Nat /\ PartTo(0, size, t) <= Blocks(v) - 1
    BY <1>4
  <2>3. Blocks(v) \in Nat
    BY BlockMinimaAre
  <2> DEFINE lo == PartFrom(0, size, t)
             hi == PartTo(0, size, t)
  <2>4. \A q \in lo .. hi : F[q] \in Int
    <3>1. \A q \in lo .. hi : q \in 0 .. Blocks(v) - 1
      BY <2>2, <2>3
    <3> QED  BY <1>3, <3>1
  <2>5. lo \in Int /\ hi \in Int /\ AtLeftmost(F, x, lo, hi)
    BY <2>1, <2>2
  <2> HIDE DEF lo, hi, F, M
  <2>6. x \in lo .. hi
    BY <2>5 DEF AtLeftmost
  <2>7. \A q \in lo .. hi : F[x] <= F[q]
    BY <2>4, <2>5, LeastBelow
  <2>8. M[t] \in Int /\ \A q \in lo .. hi : M[t] <= F[q]
    BY <2>1, <2>4, <2>6, <2>7
  <2> QED  BY <2>8 DEF lo, hi
<1>11. AtLeftmost(F, r, PartFrom(0, size, A), PartTo(0, size, B))
  <2> HIDE DEF F, M, B, size
  <2> QED  BY <1>0, <1>7, <1>8, <1>9, <1>10, LeftmostOfParts
<1>12. PartFrom(0, size, A) = A * size /\ PartTo(0, size, B) = end * size - 1
  <2>1. A * size \in Nat /\ end * size \in Nat
    BY <1>0
  <2> HIDE DEF size
  <2> QED  BY <1>0, <2>1 DEF PartFrom, PartTo
<1>13. PartFrom(0, size, s) = s * size /\ PartTo(0, size, s) = s * size + size - 1
  <2>1. s \in Nat /\ s * size \in Nat /\ (s + 1) * size = s * size + size
    BY <1>0, <1>6
  <2> HIDE DEF size
  <2> QED  BY <1>0, <2>1 DEF PartFrom, PartTo
<1>14. v.tree[node] = F[r]
  BY <1>6, <1>8
<1>15. r \in PartFrom(0, size, s) .. PartTo(0, size, s)
  BY <1>8 DEF AtLeftmost
<1> QED  BY <1>0, <1>6, <1>11, <1>12, <1>13, <1>14, <1>15

LEMMA InBlocksFrom ==
    ASSUME NEW v, NEW lo \in Int, NEW from \in Int, NEW to \in Int, lo <= from, from <= to + 1,
           \A b \in lo .. to : v.blockMin[b] \in Int, NEW exc \in Int,
           NEW best, FoundBlock(v.blockMin, best, lo, from - 1, exc)
    PROVE  FoundBlock(v.blockMin, InBlocks(v, from .. to, best), lo, to, exc)
<1> DEFINE mid == from - 1
<1>1. mid \in Int /\ lo - 1 <= mid /\ mid <= to /\ mid + 1 = from /\ FoundBlock(v.blockMin, best, lo, mid, exc)
  OBVIOUS
<1> HIDE DEF mid
<1>2. FoundBlock(v.blockMin, InBlocks(v, mid + 1 .. to, best), lo, to, exc)
  BY <1>1, InBlocksIs
<1> QED  BY <1>1, <1>2

LEMMA MinBlockIs ==
    ASSUME NEW v, RightParens(v), NEW first \in Nat, NEW last \in Nat, first <= last,
           last < Blocks(v), NEW exc \in Int
    PROVE  FoundBlock(v.blockMin, MinBlock(v, first, last, exc), first, last - 1, exc)
<1> DEFINE size == SuperblockSize
           F == v.blockMin
           none == [exc |-> exc, block |-> -1]
           start == first \div size
           end == last \div size
           x == start * size
           next == (start + 1) * size
           y == end * size
           head == InBlocks(v, first .. next - 1, none)
           node == MinSuperblock(v, start + 1, end)
           inner == (node - v.internal) * size
           middle == IF start + 1 = end \/ v.tree[node] >= exc THEN head
                     ELSE InBlocks(v, inner .. inner + size - 1, head)
<1>1. /\ size \in Nat \ {0} /\ start \in Nat /\ end \in Nat /\ x \in Nat /\ y \in Nat
      /\ x <= first /\ first < x + size /\ y <= last /\ last < y + size /\ next = x + size
  <2>1. size \in Nat \ {0}
    BY BitsPerBlock
  <2> HIDE DEF size
  <2> QED  BY <2>1, QuotientIs
<1>2. MinBlock(v, first, last, exc) =
          IF start = end THEN InBlocks(v, first .. last - 1, none)
          ELSE InBlocks(v, y .. last - 1, middle)
  BY DEF MinBlock
<1>3. /\ \A b \in first .. last - 1 : F[b] \in Int
      /\ Blocks(v) \in Nat /\ \A b \in 0 .. Blocks(v) - 1 : F[b] \in Int
  <2>1. Blocks(v) \in Nat /\ \A b \in 0 .. Blocks(v) - 1 : F[b] \in Int
    BY BlockMinimaAre
  <2>2. \A b \in first .. last - 1 : b \in 0 .. Blocks(v) - 1
    BY <2>1
  <2> QED  BY <2>1, <2>2
<1>4. FoundBlock(F, none, first, first - 1, exc)
  BY FoundNone
<1>5. CASE start = end
  <2> DEFINE to == last - 1
  <2>1. /\ to \in Int /\ first \in Int /\ first <= to + 1 /\ first <= first
        /\ \A b \in first .. to : F[b] \in Int
        /\ exc \in Int
    BY <1>3
  <2>2. FoundBlock(F, InBlocks(v, first .. to, none), first, to, exc)
    <3> HIDE DEF to, none
    <3> QED  BY ONLY <2>1, <1>4, InBlocksFrom
  <2> QED  BY <1>2, <1>5, <2>2
<1>6. CASE start # end
  <2>1. start + 1 <= end /\ start + 1 \in Nat
    <3> SUFFICES ASSUME end < start PROVE FALSE
      BY <1>1, <1>6
    <3>1. end + 1 \in Nat /\ end + 1 <= start /\ (end + 1) * size = y + size
      BY <1>1
    <3>2. (end + 1) * size <= start * size
      <4> HIDE DEF size, start, end
      <4> QED  BY <1>1, <3>1, TimesGrow
    <3> HIDE DEF x, y
    <3>3. y + size <= x
      BY <3>1, <3>2 DEF x
    <3> QED  BY <1>1, <3>3
  <2>2. next <= y
    <3> HIDE DEF size, start, end
    <3>1. (start + 1) * size <= end * size
      BY <1>1, <2>1, TimesGrow
    <3> QED  BY <3>1
  <2>3. first <= next /\ next \in Nat /\ next <= last /\ y <= last
    <3> HIDE DEF x, y, next
    <3> QED  BY <1>1, <2>2
  <2>4. FoundBlock(F, head, first, next - 1, exc)
    <3> DEFINE to == next - 1
    <3> HIDE DEF next, none
    <3>1. /\ to \in Int /\ first \in Int /\ first <= to + 1 /\ first <= first
          /\ \A b \in first .. to : F[b] \in Int
          /\ exc \in Int
      BY <1>3, <2>3
    <3> HIDE DEF to
    <3>2. FoundBlock(F, InBlocks(v, first .. to, none), first, to, exc)
      BY ONLY <3>1, <1>4, InBlocksFrom
    <3> QED  BY <3>2 DEF to
  <2>5. FoundBlock(F, middle, first, y - 1, exc)
    <3>1. CASE start + 1 = end
      <4>1. middle = head /\ next = y
        BY <3>1
      <4> QED  BY <2>4, <4>1
    <3>2. CASE start + 1 # end
      <4> DEFINE s == node - v.internal
      <4>0. start + 1 < end
        BY <1>1, <2>1, <3>2
      <4>1. y <= Blocks(v)
        <5> HIDE DEF y
        <5> QED  BY <1>1, <1>3
      <4>2. /\ s \in start + 1 .. end - 1
            /\ \E r : /\ AtLeftmost(F, r, next, y - 1)
                      /\ r \in s * size .. s * size + size - 1
                      /\ v.tree[node] = F[r]
        <5> DEFINE A == start + 1
        <5> HIDE DEF start, end
        <5>1. A \in Nat /\ A < end /\ end \in Nat /\ end * SuperblockSize <= Blocks(v)
          BY <1>1, <2>1, <4>0, <4>1
        <5> HIDE DEF A
        <5>2. /\ MinSuperblock(v, A, end) - v.internal \in A .. end - 1
              /\ \E r : /\ AtLeftmost(v.blockMin, r, A * SuperblockSize, end * SuperblockSize - 1)
                        /\ r \in (MinSuperblock(v, A, end) - v.internal) * SuperblockSize ..
                                 (MinSuperblock(v, A, end) - v.internal) * SuperblockSize + SuperblockSize - 1
                        /\ v.tree[MinSuperblock(v, A, end)] = v.blockMin[r]
          BY <5>1, MinSuperblockFinds
        <5> QED  BY <5>2 DEF A
      <4>3. PICK r : /\ AtLeftmost(F, r, next, y - 1)
                     /\ r \in s * size .. s * size + size - 1
                     /\ v.tree[node] = F[r]
        BY <4>2
      <4>4. s \in Nat /\ inner = s * size /\ inner \in Nat /\ s + 1 <= end /\ start + 1 <= s
        BY <1>1, <4>2
      <4>5. next <= inner /\ inner + size <= y
        <5> HIDE DEF size, start, end, s
        <5>1. (start + 1) * size <= s * size
          BY <1>1, <4>4, TimesGrow
        <5>2. (s + 1) * size <= end * size
          BY <1>1, <4>4, TimesGrow
        <5>3. (s + 1) * size = s * size + size
          BY <1>1, <4>4
        <5> HIDE DEF inner
        <5> QED  BY <4>4, <5>1, <5>2, <5>3
      <4>6. r \in inner .. inner + size - 1
        BY <4>3, <4>4
      <4> HIDE DEF inner, node, s, x, y, next, start, end, size, head
      <4> DEFINE mid == next - 1
                 hi == y - 1
                 to == inner + size - 1
      <4>7. /\ mid \in Int /\ hi \in Int /\ first - 1 <= mid /\ mid < hi /\ mid + 1 = next /\ to \in Int
            /\ mid < inner /\ to <= hi /\ inner \in Int /\ r \in inner .. to
        BY <1>1, <2>3, <4>4, <4>5, <4>6
      <4>8. \A b \in first .. hi : F[b] \in Int
        BY <1>3, <2>3, <4>7, <1>1
      <4>9. AtLeftmost(F, r, mid + 1, hi) /\ FoundBlock(F, head, first, mid, exc)
        BY <4>3, <4>7, <2>4
      <4> HIDE DEF mid, hi, to, none, F
      <4>11. r \in mid + 1 .. hi /\ F[r] \in Int
        <5>1. r \in mid + 1 .. hi
          BY <4>9 DEF AtLeftmost
        <5> QED  BY <5>1, <4>7, <4>8
      <4>12. CASE F[r] >= exc
        <5>1. middle = head
          BY <4>3, <4>12
        <5>2. \A b \in first .. mid : F[b] \in Int
          BY <4>7, <4>8
        <5>3. head.exc \in Int /\ head.exc <= exc
          BY ONLY first \in Int, exc \in Int, <4>7, <4>9, <5>2, FoundLess
        <5>4. \A b \in mid + 1 .. hi : head.exc <= F[b]
          <6> TAKE b \in mid + 1 .. hi
          <6>1. F[b] \in Int /\ F[r] <= F[b]
            BY <4>7, <4>8, <4>9, <4>11 DEF AtLeftmost
          <6> QED  BY <6>1, <5>3, <4>11, <4>12
        <5>5. FoundBlock(F, head, first, hi, exc)
          BY <4>7, <4>8, <4>9, <5>4, FoundStays
        <5> QED  BY <5>1, <5>5 DEF hi
      <4>13. CASE ~(F[r] >= exc)
        <5>1. middle = InBlocks(v, inner .. to, head)
          BY <3>2, <4>3, <4>13 DEF to
        <5>2. FoundBlock(F, InBlocks(v, inner .. to, head), first, hi, exc)
          <6>1. first \in Int /\ exc \in Int
            OBVIOUS
          <6> USE DEF F
          <6> QED  BY ONLY <6>1, <4>7, <4>8, <4>9, InBlocksPart
        <5> QED  BY <5>1, <5>2 DEF hi
      <4> QED  BY <4>12, <4>13
    <3> QED  BY <3>1, <3>2
  <2>6. FoundBlock(F, InBlocks(v, y .. last - 1, middle), first, last - 1, exc)
    <3> DEFINE to == last - 1
    <3>1. y \in Int /\ to \in Int /\ y <= to + 1 /\ first <= y /\ \A b \in first .. to : F[b] \in Int
      <4> HIDE DEF y, next
      <4> QED  BY <1>1, <1>3, <2>2, <2>3
    <3>2. first \in Int /\ exc \in Int /\ FoundBlock(F, middle, first, y - 1, exc)
      BY <2>5
    <3> HIDE DEF y, to, middle
    <3>3. FoundBlock(F, InBlocks(v, y .. to, middle), first, to, exc)
      BY ONLY <3>1, <3>2, InBlocksFrom
    <3> QED  BY <3>3 DEF to
  <2> QED  BY <1>2, <1>6, <2>6
<1> QED  BY <1>5, <1>6

-----------------------------------------------------------------------------
(***************************************************************************)
(* Positions by blocks.                                                    *)
(***************************************************************************)
LEMMA BlockCovers ==
    ASSUME NEW v, RightParens(v), NEW b \in Nat, NEW lo, lo = b * BlockBits,
           NEW hi, hi = (b + 1) * BlockBits, hi <= v.size
    PROVE  /\ v.blockMin[b] \in Int /\ lo \in Nat /\ hi \in Nat /\ hi = lo + BlockBits
           /\ \A q \in lo .. hi : ExcessOf(v)[q] \in Int /\ v.blockMin[b] <= ExcessOf(v)[q]
           /\ \E r : AtLeftmost(ExcessOf(v), r, lo, hi) /\ v.blockMin[b] = ExcessOf(v)[r]
<1> DEFINE E == ExcessOf(v)
           blocks == Blocks(v)
<1>1. BlockBits \in Nat \ {0} /\ v.size \in Nat /\ CountsZeros(v.zeros, v.size)
  BY BitsPerBlock DEF RightParens
<1>2. b * BlockBits \in Nat /\ (b + 1) * BlockBits \in Nat /\ (b + 1) * BlockBits = b * BlockBits + BlockBits
  BY <1>1
<1>3. lo \in Nat /\ hi \in Nat /\ hi = lo + BlockBits
  BY <1>2
<1>4. lo < v.size /\ lo <= v.size
  BY <1>1, <1>3
<1>5. b \in 0 .. blocks - 1
  <2>1. b * BlockBits < v.size
    BY <1>4
  <2>2. b < CeilDiv(v.size, BlockBits)
    BY <1>1, <2>1, BelowCeiling
  <2>3. b < blocks /\ blocks \in Nat
    BY <2>2, BlockMinimaAre DEF Blocks
  <2> HIDE DEF blocks
  <2> QED  BY <2>3
<1>6. v.blockMin[b] = BlockMin(v, b) /\ v.blockMin[b] \in Int
  BY <1>5, BlockMinimaAre
<1>7. hi = IF (b + 1) * BlockBits <= v.size THEN (b + 1) * BlockBits ELSE v.size
  OBVIOUS
<1>8. PICK r : AtLeftmost(ExcessOf(v), r, b * BlockBits, hi) /\ BlockMin(v, b) = ExcessOf(v)[r]
  BY <1>1, <1>4, <1>7, BlockMinIs
<1>9. AtLeftmost(E, r, lo, hi) /\ v.blockMin[b] = E[r]
  BY <1>6, <1>8
<1>10. \A q \in lo .. hi : E[q] \in Int
  <2>1. \A q \in lo .. hi : q \in 0 .. v.size
    BY <1>1, <1>3
  <2> HIDE DEF E
  <2> QED  BY <1>1, <2>1, ExcessIs DEF E
<1> HIDE DEF E
<1>11. \A q \in lo .. hi : E[r] <= E[q]
  <2>1. lo \in Int /\ hi \in Int
    BY <1>3
  <2> QED  BY ONLY <1>9, <1>10, <2>1, LeastBelow
<1> QED  BY <1>3, <1>6, <1>9, <1>10, <1>11 DEF E

LEMMA BlockPart ==
    ASSUME NEW b \in Nat
    PROVE  /\ PartFrom(1, BlockBits, b) = b * BlockBits + 1
           /\ PartTo(1, BlockBits, b) = (b + 1) * BlockBits
           /\ b * BlockBits \in Nat /\ (b + 1) * BlockBits \in Nat
           /\ (b + 1) * BlockBits = b * BlockBits + BlockBits
           /\ BlockBits \in Nat \ {0}
<1>1. BlockBits \in Nat \ {0}
  BY BitsPerBlock
<1>2. b * BlockBits \in Nat /\ (b + 1) * BlockBits \in Nat /\ (b + 1) * BlockBits = b * BlockBits + BlockBits
  BY <1>1
<1> DEFINE x == b * BlockBits
           y == (b + 1) * BlockBits
<1>3. PartFrom(1, BlockBits, b) = 1 + x /\ PartTo(1, BlockBits, b) = 1 + y - 1 /\ x \in Nat /\ y \in Nat
  BY <1>2 DEF PartFrom, PartTo
<1> HIDE DEF x, y
<1>4. PartFrom(1, BlockBits, b) = x + 1 /\ PartTo(1, BlockBits, b) = y
  BY <1>3
<1> QED  BY <1>1, <1>2, <1>4 DEF x, y

LEMMA WordsOfBlocks ==
    ASSUME NEW v, RightParens(v), NEW a \in Nat, NEW A \in Nat, NEW B \in Nat, A < B,
           B * BlockBits <= v.size,
           NEW best, AtLeftmost(ExcessOf(v), best, a, A * BlockBits), a <= A * BlockBits,
           NEW min, FoundBlock(v.blockMin, min, A, B - 1, Excess(v, best))
    PROVE  AtLeftmost(ExcessOf(v),
                      IF min.exc >= Excess(v, best) THEN best
                      ELSE InWords(v, min.block * BlockBits + 1 .. (min.block + 1) * BlockBits, best),
                      a, B * BlockBits)
<1> DEFINE E == ExcessOf(v)
           F == v.blockMin
           size == BlockBits
           last == B - 1
           lo == A * BlockBits
           hi == B * BlockBits
           exc == Excess(v, best)
<1>1. /\ size \in Nat \ {0} /\ lo \in Nat /\ hi \in Nat /\ last \in Nat /\ last + 1 = B /\ A <= last
      /\ v.size \in Nat /\ CountsZeros(v.zeros, v.size) /\ B - 1 = last
  BY BitsPerBlock DEF RightParens
<1>2. \A t \in A .. last : t \in Nat /\ (t + 1) * size <= v.size
  <2> TAKE t \in A .. last
  <2>1. t \in Nat /\ t + 1 \in Nat /\ t + 1 <= B
    BY <1>1
  <2>2. (t + 1) * size <= B * size /\ (t + 1) * size \in Nat /\ B * size \in Nat
    <3> HIDE DEF size
    <3> QED  BY <1>1, <2>1, TimesGrow
  <2> DEFINE x == (t + 1) * size
             y == B * size
  <2>3. x <= y /\ x \in Nat /\ y \in Nat /\ y <= v.size
    BY <2>2
  <2> HIDE DEF x, y
  <2>4. x <= v.size
    BY <1>1, <2>3
  <2> QED  BY <2>1, <2>4 DEF x
<1>3. \A q \in a .. hi : E[q] \in Int /\ E[q] = Excess(v, q)
  <2>1. \A q \in a .. hi : q \in 0 .. v.size
    <3> HIDE DEF hi
    <3>1. hi <= v.size
      BY DEF hi
    <3> QED  BY <1>1, <3>1
  <2> HIDE DEF E
  <2> QED  BY <1>1, <2>1, ExcessIs DEF E
<1>4. lo + size <= hi
  <2>1. A + 1 \in Nat /\ A + 1 <= B
    BY <1>1
  <2> HIDE DEF size
  <2>2. (A + 1) * size <= B * size /\ (A + 1) * size = A * size + size
    BY <1>1, <2>1, TimesGrow
  <2> QED  BY <2>2 DEF size
<1>5. lo < hi /\ a <= lo /\ AtLeftmost(E, best, a, lo) /\ hi <= v.size /\ FoundBlock(F, min, A, last, exc)
  <2>1. a <= lo /\ AtLeftmost(E, best, a, lo) /\ hi <= v.size /\ FoundBlock(F, min, A, last, exc)
    OBVIOUS
  <2> HIDE DEF lo, hi
  <2> QED  BY <1>1, <1>4, <2>1
<1>6. best \in a .. lo /\ E[best] = exc /\ exc \in Int
  <2>1. best \in a .. lo
    BY <1>5 DEF AtLeftmost
  <2>2. best \in a .. hi
    <3> HIDE DEF lo, hi
    <3> QED  BY <1>1, <1>5, <2>1
  <2> HIDE DEF hi
  <2> QED  BY <1>3, <2>1, <2>2
<1>7. PartFrom(1, size, A) = lo + 1 /\ PartTo(1, size, last) = hi
  BY <1>1, BlockPart
<1>8. ASSUME NEW t \in A .. last
      PROVE  /\ F[t] \in Int
             /\ \A q \in t * size .. (t + 1) * size : E[q] \in Int /\ F[t] <= E[q]
             /\ \E r : AtLeftmost(E, r, t * size, (t + 1) * size) /\ F[t] = E[r]
             /\ t * size \in Nat /\ (t + 1) * size \in Nat /\ (t + 1) * size = t * size + size
  <2>1. t \in Nat /\ (t + 1) * BlockBits <= v.size
    BY <1>2
  <2> QED  BY <2>1, BlockCovers
<1>9. ASSUME NEW t \in A .. last
      PROVE  F[t] \in Int /\ \A q \in PartFrom(1, size, t) .. PartTo(1, size, t) : F[t] <= E[q]
  <2> DEFINE x == t * size
             y == (t + 1) * size
  <2>1. t \in Nat
    BY <1>1
  <2>2. PartFrom(1, size, t) = x + 1 /\ PartTo(1, size, t) = y /\ x \in Nat /\ y \in Nat
    BY <2>1, BlockPart
  <2>3. F[t] \in Int /\ \A q \in x .. y : F[t] <= E[q]
    BY <1>8
  <2> HIDE DEF x, y
  <2>4. \A q \in x + 1 .. y : q \in x .. y
    BY <2>2
  <2> HIDE DEF size, E, F
  <2> QED  BY <2>2, <2>3, <2>4
<1> HIDE DEF lo, hi, last, E, F, exc
<1>10. \A q \in lo + 1 .. hi : q \in a .. hi
  BY <1>1, <1>5
<1>11. \A q \in lo + 1 .. hi : \E t \in A .. last : q \in PartFrom(1, size, t) .. PartTo(1, size, t)
  <2> HIDE DEF size
  <2>1. 1 \in Nat
    OBVIOUS
  <2>2. \A q \in PartFrom(1, size, A) .. PartTo(1, size, last) :
            \E t \in A .. last : q \in PartFrom(1, size, t) .. PartTo(1, size, t)
    BY ONLY <1>1, <2>1, PartsAre, A \in Nat
  <2> QED  BY <1>7, <2>2
<1>12. CASE min.exc = exc /\ \A b \in A .. last : exc <= F[b]
  <2>1. \A q \in lo + 1 .. hi : E[best] <= E[q]
    <3> TAKE q \in lo + 1 .. hi
    <3>1. PICK t \in A .. last : q \in PartFrom(1, size, t) .. PartTo(1, size, t)
      BY <1>11
    <3>2. F[t] <= E[q] /\ F[t] \in Int /\ E[q] \in Int /\ exc <= F[t]
      BY <1>3, <1>9, <1>10, <1>12, <3>1
    <3> QED  BY <1>6, <3>2
  <2>2. AtLeftmost(E, best, a, hi)
    <3>1. a \in Int /\ lo \in Int /\ hi \in Int /\ lo < hi /\ AtLeftmost(E, best, a, lo)
      BY <1>1, <1>5
    <3>2. \A q \in a .. hi : E[q] \in Int
      BY <1>3
    <3> QED  BY ONLY <2>1, <3>1, <3>2, LeftmostStays
  <2>3. min.exc >= exc
    BY <1>6, <1>12
  <2> QED  BY <2>2, <2>3 DEF E, exc, hi
<1>13. CASE min.exc < exc /\ AtLeftmost(F, min.block, A, last) /\ min.exc = F[min.block]
  <2> DEFINE s == min.block
             x == s * size
             y == (s + 1) * size
  <2>1. s \in A .. last
    BY <1>13 DEF AtLeftmost
  <2>2. PICK r : AtLeftmost(E, r, x, y) /\ F[s] = E[r]
    BY <1>8, <2>1
  <2>3. x \in Nat /\ y \in Nat /\ y = x + size /\ \A q \in x .. y : E[q] \in Int
    BY <1>8, <2>1
  <2>4. PartFrom(1, size, s) = x + 1 /\ PartTo(1, size, s) = y
    <3>1. s \in Nat
      BY <1>1, <2>1
    <3> QED  BY <3>1, BlockPart
  <2>5. E[r] < exc /\ E[r] \in Int /\ r \in x .. y
    <3>1. r \in x .. y
      BY <2>2 DEF AtLeftmost
    <3> HIDE DEF x, y
    <3> QED  BY <1>13, <2>2, <2>3, <3>1
  <2>6. r # x
    <3> SUFFICES ASSUME r = x PROVE FALSE
      OBVIOUS
    <3>1. CASE s = A
      <4>1. r = lo
        BY <3>1 DEF lo
      <4>2. lo \in a .. lo
        BY <1>1, <1>5
      <4>3. E[best] <= E[lo]
        <5>1. \A q \in a .. lo : E[q] \in Int
          <6>1. \A q \in a .. lo : q \in a .. hi
            BY <1>1, <1>5
          <6> QED  BY <1>3, <6>1
        <5>2. a \in Int /\ lo \in Int /\ AtLeftmost(E, best, a, lo)
          BY <1>1, <1>5
        <5> QED  BY ONLY <4>2, <5>1, <5>2, LeastBelow
      <4> QED  BY <1>6, <2>5, <4>1, <4>3
    <3>2. CASE s # A
      <4> DEFINE t == s - 1
      <4>1. t \in A .. last /\ t < s /\ t + 1 = s
        <5> HIDE DEF s, x, y, size
        <5>1. A \in Nat /\ last \in Nat
          BY <1>1
        <5> QED  BY <2>1, <3>2, <5>1
      <4>2. x = (t + 1) * size
        BY <4>1
      <4> HIDE DEF t
      <4>3. F[t] \in Int /\ x \in t * size .. x /\ F[t] <= E[x]
        <5> DEFINE z == t * size
        <5> HIDE DEF x
        <5>1. x \in Nat /\ z \in Nat /\ x = z + size /\ F[t] \in Int /\ \A q \in z .. x : F[t] <= E[q]
          BY <1>8, <4>1, <4>2
        <5> HIDE DEF z
        <5>2. x \in z .. x
          BY <1>1, <5>1
        <5> QED  BY <5>1, <5>2 DEF z
      <4>4. F[s] < F[t] \/ (F[s] = F[t] /\ s <= t)
        BY <1>13, <4>1 DEF AtLeftmost
      <4>5. F[s] \in Int /\ F[t] <= F[s] /\ ~(s <= t)
        <5>1. F[s] = E[x]
          BY <2>2
        <5>2. s \in Int /\ t \in Int
          BY <1>1, <2>1, <4>1
        <5> HIDE DEF x, s
        <5> QED  BY <2>5, <4>1, <4>3, <5>1, <5>2, <2>2
      <4> HIDE DEF s
      <4> QED  BY <4>3, <4>4, <4>5
    <3> QED  BY <3>1, <3>2
  <2> HIDE DEF x, y, s
  <2>7. r \in x + 1 .. y
    BY <2>3, <2>5, <2>6
  <2>8. AtLeftmost(E, r, x + 1, y)
    <3> DEFINE z == x + 1
    <3>1. /\ x \in Int /\ y \in Int /\ z \in Int /\ x <= z /\ y <= y /\ r \in z .. y
          /\ AtLeftmost(E, r, x, y)
      BY <2>2, <2>3, <2>7
    <3> HIDE DEF z
    <3>2. AtLeftmost(E, r, z, y)
      BY ONLY <3>1, LeftmostOfPart
    <3> QED  BY <3>2 DEF z
  <2>9. AtLeftmost(E, r, lo + 1, hi)
    <3>1. /\ 1 \in Nat /\ size \in Nat \ {0} /\ A \in Nat /\ last \in Nat
          /\ \A q \in PartFrom(1, size, A) .. PartTo(1, size, last) : E[q] \in Int
      BY <1>1, <1>3, <1>7, <1>10
    <3>2. /\ AtLeftmost(F, s, A, last) /\ F[s] = E[r]
          /\ AtLeftmost(E, r, PartFrom(1, size, s), PartTo(1, size, s))
      BY <1>13, <2>2, <2>4, <2>8 DEF s
    <3> HIDE DEF size
    <3>3. AtLeftmost(E, r, PartFrom(1, size, A), PartTo(1, size, last))
      BY ONLY <3>1, <3>2, <1>9, LeftmostOfParts
    <3> QED  BY <1>7, <3>3
  <2>10. lo <= x /\ y <= hi
    <3>1. lo + 1 <= x + 1 /\ y <= hi
      <4> HIDE DEF size
      <4>1. /\ PartFrom(1, size, A) <= PartFrom(1, size, s)
            /\ PartTo(1, size, s) <= PartTo(1, size, last)
        <5>1. s \in A .. last /\ 1 \in Nat
          BY <2>1 DEF s
        <5> QED  BY ONLY <1>1, <5>1, PartsAre, A \in Nat
      <4> QED  BY <1>7, <2>4, <4>1
    <3> QED  BY <1>1, <2>3, <3>1
  <2> DEFINE from == x + 1
  <2>11. /\ from \in Int /\ y \in Int /\ lo \in Int /\ hi \in Int /\ lo < from /\ y <= hi /\ r \in from .. y
         /\ a <= lo /\ lo < hi /\ hi <= v.size
    BY <1>1, <1>5, <2>3, <2>7, <2>10
  <2> HIDE DEF from
  <2>12. AtLeftmost(E, InWords(v, from .. y, best), a, hi)
    <3>1. AtLeftmost(ExcessOf(v), best, a, lo) /\ AtLeftmost(ExcessOf(v), r, lo + 1, hi)
      BY <1>5, <2>9 DEF E
    <3> QED  BY <1>1, <2>11, <3>1, InWordsPart DEF E
  <2>13. ~(min.exc >= exc)
    BY <1>6, <1>13, <2>2, <2>5 DEF s
  <2> QED  BY <2>12, <2>13 DEF E, exc, hi, from, x, y, s
<1>14. \/ min.exc = exc /\ \A b \in A .. last : exc <= F[b]
       \/ min.exc < exc /\ AtLeftmost(F, min.block, A, last) /\ min.exc = F[min.block]
  BY <1>5 DEF FoundBlock
<1> QED  BY <1>12, <1>13, <1>14

LEMMA QuotientGrows ==
    ASSUME NEW m \in Nat, NEW n \in Nat, m <= n, NEW d \in Nat \ {0}
    PROVE  m \div d <= n \div d
<1> DEFINE x == m \div d
           y == n \div d
<1>1. x \in Nat /\ y \in Nat /\ x * d <= m /\ n < y * d + d /\ (y + 1) * d = y * d + d
  BY QuotientIs
<1> SUFFICES ASSUME ~(x <= y) PROVE FALSE
  OBVIOUS
<1> HIDE DEF x, y
<1>2. y + 1 \in Nat /\ y + 1 <= x
  BY <1>1
<1>3. (y + 1) * d <= x * d
  BY <1>1, <1>2, TimesGrow
<1> DEFINE u == y * d
           w == x * d
<1>4. u \in Nat /\ w \in Nat /\ w <= m /\ n < u + d /\ u + d <= w
  BY <1>1, <1>3
<1> HIDE DEF u, w
<1> QED  BY <1>4

LEMMA WordsAndBlocks ==
    ASSUME NEW a \in Nat, NEW b \in Nat, a < b,
           NEW wordA, wordA = a \div WordBits, NEW wordB, wordB = (b - 1) \div WordBits,
           NEW blockA, blockA = wordA \div BlockWords, NEW blockB, blockB = wordB \div BlockWords
    PROVE  /\ wordA \in Nat /\ wordB \in Nat /\ blockA \in Nat /\ blockB \in Nat
           /\ (wordA + 1) * WordBits \in Nat /\ wordB * WordBits \in Nat
           /\ (blockA + 1) * BlockBits \in Nat /\ blockB * BlockBits \in Nat
           /\ a <= (wordA + 1) * WordBits
           /\ wordB * WordBits <= b
           /\ wordA = wordB => b <= (wordA + 1) * WordBits
           /\ wordA # wordB => (wordA + 1) * WordBits <= wordB * WordBits
           /\ (wordA + 1) * WordBits <= (blockA + 1) * BlockBits
           /\ blockB * BlockBits <= wordB * WordBits
           /\ blockB * BlockBits < b
           /\ blockA # blockB => blockA < blockB
<1>1. WordBits \in Nat \ {0} /\ BlockWords \in Nat \ {0} /\ BlockBits = WordBits * BlockWords
  BY BitsPerBlock
<1>2. /\ wordA \in Nat /\ wordA * WordBits <= a /\ a < wordA * WordBits + WordBits
      /\ (wordA + 1) * WordBits = wordA * WordBits + WordBits
  BY <1>1, QuotientIs
<1>3. /\ wordB \in Nat /\ wordB * WordBits <= b - 1 /\ b - 1 < wordB * WordBits + WordBits
      /\ (wordB + 1) * WordBits = wordB * WordBits + WordBits
  <2> DEFINE n == b - 1
  <2>1. n \in Nat /\ wordB = n \div WordBits
    OBVIOUS
  <2> HIDE DEF n
  <2>2. /\ wordB \in Nat /\ wordB * WordBits <= n /\ n < wordB * WordBits + WordBits
        /\ (wordB + 1) * WordBits = wordB * WordBits + WordBits
    BY <1>1, <2>1, QuotientIs
  <2> QED  BY <2>2 DEF n
<1>4. wordA <= wordB
  <2> DEFINE n == b - 1
  <2>1. n \in Nat /\ a <= n /\ wordB = n \div WordBits
    OBVIOUS
  <2> HIDE DEF n
  <2> QED  BY <1>1, <2>1, QuotientGrows
<1>5. /\ blockA \in Nat /\ wordA < blockA * BlockWords + BlockWords
      /\ (blockA + 1) * BlockWords = blockA * BlockWords + BlockWords
  BY <1>1, <1>2, QuotientIs
<1>6. blockB \in Nat /\ blockB * BlockWords <= wordB
  BY <1>1, <1>3, QuotientIs
<1>7. blockA <= blockB
  BY <1>1, <1>2, <1>3, <1>4, QuotientGrows
<1>8. (wordA + 1) * WordBits <= (blockA + 1) * BlockBits
  <2> DEFINE n == (blockA + 1) * BlockWords
  <2>1. wordA + 1 \in Nat /\ n \in Nat /\ wordA + 1 <= n
    <3> DEFINE m == blockA * BlockWords
    <3>1. m \in Nat /\ n = m + BlockWords /\ wordA < m + BlockWords
      BY <1>1, <1>5
    <3> HIDE DEF m, n
    <3> QED  BY <1>1, <1>2, <3>1
  <2>2. (blockA + 1) * BlockBits = n * WordBits
    BY <1>1, <1>5
  <2> HIDE DEF n
  <2>3. (wordA + 1) * WordBits <= n * WordBits
    BY <1>1, <2>1, TimesGrow
  <2> QED  BY <2>2, <2>3
<1>9. blockB * BlockBits <= wordB * WordBits
  <2> DEFINE n == blockB * BlockWords
  <2>1. n \in Nat /\ n <= wordB
    BY <1>1, <1>6
  <2>2. blockB * BlockBits = n * WordBits
    BY <1>1, <1>6
  <2> HIDE DEF n
  <2>3. n * WordBits <= wordB * WordBits
    BY <1>1, <1>3, <2>1, TimesGrow
  <2> QED  BY <2>2, <2>3
<1> DEFINE x == wordA * WordBits
           p == (wordA + 1) * WordBits
           q == wordB * WordBits
           P == (blockA + 1) * BlockBits
           Q == blockB * BlockBits
<1>10. x \in Nat /\ q \in Nat /\ p = x + WordBits /\ p \in Nat
  BY <1>1, <1>2, <1>3
<1>11. P \in Nat /\ Q \in Nat
  BY <1>1, <1>5, <1>6
<1>12. a <= p /\ q <= b /\ q <= b - 1
  <2> HIDE DEF x, q, p
  <2>1. a < x + WordBits
    BY <1>2 DEF x
  <2>2. q <= b - 1
    BY <1>3 DEF q
  <2> QED  BY <1>1, <1>10, <2>1, <2>2
<1>13. ASSUME wordA = wordB PROVE b <= p
  <2>1. p = q + WordBits
    BY <1>13, <1>10
  <2>2. b - 1 < q + WordBits
    BY <1>3
  <2> HIDE DEF q, p
  <2> QED  BY <1>1, <1>10, <2>1, <2>2
<1>14. ASSUME wordA # wordB PROVE p <= q
  <2>1. wordA + 1 \in Nat /\ wordA + 1 <= wordB
    BY <1>2, <1>3, <1>4, <1>14
  <2> QED  BY <1>1, <1>3, <2>1, TimesGrow
<1>15. Q < b
  <2>1. Q <= q
    BY <1>9
  <2> HIDE DEF Q, q
  <2> QED  BY <1>10, <1>11, <1>12, <2>1
<1>16. ASSUME blockA # blockB PROVE blockA < blockB
  BY <1>5, <1>6, <1>7, <1>16
<1> QED  BY <1>2, <1>3, <1>5, <1>6, <1>8, <1>9, <1>10, <1>11, <1>12, <1>13, <1>14, <1>15, <1>16

LEMMA ExcessRmqIs ==
    ASSUME NEW v, RightParens(v), NEW a \in Nat, NEW b \in Nat, a <= b, b <= v.size
    PROVE  AtLeftmost(ExcessOf(v), ExcessRmq(v, a, b), a, b)
<1> DEFINE E == ExcessOf(v)
           wordA == a \div WordBits
           wordB == (b - 1) \div WordBits
           blockA == wordA \div BlockWords
           blockB == wordB \div BlockWords
           p == (wordA + 1) * WordBits
           q == wordB * WordBits
           P == (blockA + 1) * BlockBits
           Q == blockB * BlockBits
           inA == InWords(v, a + 1 .. Min({b, p}), a)
           inBlockA == InWords(v, p + 1 .. P, inA)
           min == MinBlock(v, blockA + 1, blockB, Excess(v, inBlockA))
           inBlocks == IF min.exc >= Excess(v, inBlockA) THEN inBlockA
                       ELSE InWords(v, min.block * BlockBits + 1 .. (min.block + 1) * BlockBits, inBlockA)
           beforeB == IF blockA = blockB THEN InWords(v, p + 1 .. q, inA)
                      ELSE InWords(v, Q + 1 .. q, inBlocks)
<1>1. ExcessRmq(v, a, b) = IF a = b THEN a ELSE IF wordA = wordB THEN inA
                           ELSE InWords(v, q + 1 .. b, beforeB)
  BY DEF ExcessRmq
<1>2. v.size \in Nat /\ CountsZeros(v.zeros, v.size)
  BY DEF RightParens
<1>3. AtLeftmost(E, a, a, a)
  BY LeftmostOfOne
<1>4. CASE a = b
  BY <1>1, <1>3, <1>4
<1>5. CASE a # b
  <2>1. a < b
    BY <1>5
  <2>2. /\ wordA \in Nat /\ wordB \in Nat /\ blockA \in Nat /\ blockB \in Nat
        /\ p \in Nat /\ q \in Nat /\ P \in Nat /\ Q \in Nat
        /\ a <= p
        /\ q <= b
        /\ wordA = wordB => b <= p
        /\ wordA # wordB => p <= q
        /\ p <= P
        /\ Q <= q
        /\ Q < b
        /\ blockA # blockB => blockA < blockB
    BY <2>1, WordsAndBlocks
  <2> HIDE DEF wordA, wordB, p, q, P, Q, E
  <2>3. Min({b, p}) = IF b <= p THEN b ELSE p
    BY <2>2, MinOfPair
  <2>4. CASE wordA = wordB
    <3>1. Min({b, p}) = b
      BY <2>2, <2>3, <2>4
    <3>2. AtLeftmost(E, InWords(v, a + 1 .. b, a), a, b)
      BY <1>2, <1>3, InWordsIs DEF E
    <3> QED  BY <1>1, <1>5, <2>4, <3>1, <3>2 DEF E
  <2>5. CASE wordA # wordB
    <3>1. Min({b, p}) = p
      BY <2>2, <2>3, <2>5
    <3>2. p <= v.size /\ q <= v.size /\ a <= q /\ p <= q
      BY <1>2, <2>2, <2>5
    <3>3. AtLeftmost(E, inA, a, p)
      <4>1. AtLeftmost(E, InWords(v, a + 1 .. p, a), a, p)
        BY <1>2, <1>3, <2>2, <3>2, InWordsIs DEF E
      <4> QED  BY <3>1, <4>1
    <3> HIDE DEF inA
    <3>4. AtLeftmost(E, beforeB, a, q)
      <4>1. CASE blockA = blockB
        <5>1. AtLeftmost(E, InWords(v, p + 1 .. q, inA), a, q)
          BY <1>2, <2>2, <3>2, <3>3, InWordsIs DEF E
        <5> QED  BY <4>1, <5>1
      <4>2. CASE blockA # blockB
        <5> DEFINE A == blockA + 1
        <5>1. A \in Nat /\ A <= blockB /\ blockA < blockB /\ P = A * BlockBits
          <6> HIDE DEF blockA, blockB
          <6>1. A \in Nat /\ A <= blockB /\ blockA < blockB
            BY <2>2, <4>2
          <6> QED  BY <6>1 DEF P
        <5>2. P <= Q
          <6> HIDE DEF blockA, blockB, A
          <6>1. A * BlockBits <= blockB * BlockBits
            BY <2>2, <5>1, BitsPerBlock, TimesGrow
          <6> QED  BY <5>1, <6>1 DEF Q
        <5>3. P <= v.size /\ Q <= v.size /\ a <= P /\ a <= Q /\ Q <= q
          BY <1>2, <2>2, <3>2, <5>2
        <5>4. AtLeftmost(E, inBlockA, a, P)
          BY <1>2, <2>2, <3>2, <3>3, <5>3, InWordsIs DEF E
        <5>5. Excess(v, inBlockA) \in Int
          <6>1. inBlockA \in 0 .. v.size
            <7>1. inBlockA \in a .. P
              BY <5>4 DEF AtLeftmost
            <7> HIDE DEF inBlockA
            <7> QED  BY <1>2, <2>2, <5>3, <7>1
          <6> HIDE DEF inBlockA
          <6> QED  BY <1>2, <6>1, ExcessIs
        <5>6. blockB < Blocks(v)
          <6>1. blockB * BlockBits < v.size
            <7>1. Q < v.size
              BY <1>2, <2>2
            <7> QED  BY <7>1 DEF Q
          <6> HIDE DEF blockB
          <6> QED  BY <1>2, <2>2, <6>1, BitsPerBlock, BelowCeiling DEF Blocks
        <5> HIDE DEF inBlockA, blockA, blockB
        <5>7. min = MinBlock(v, A, blockB, Excess(v, inBlockA))
          BY DEF A
        <5> HIDE DEF min, A
        <5>8. FoundBlock(v.blockMin, min, A, blockB - 1, Excess(v, inBlockA))
          BY <2>2, <5>1, <5>5, <5>6, <5>7, MinBlockIs
        <5>9. AtLeftmost(E, inBlocks, a, Q)
          <6>1. CASE A = blockB
            <7>1. P = Q
              BY <5>1, <6>1 DEF Q
            <7>2. A .. blockB - 1 = {}
              BY <2>2, <5>1, <6>1
            <7>3. min.exc = Excess(v, inBlockA)
              BY <5>8, <7>2 DEF FoundBlock, AtLeftmost
            <7>4. min.exc >= Excess(v, inBlockA)
              BY <5>5, <7>3
            <7> QED  BY <5>4, <7>1, <7>4
          <6>2. CASE A # blockB
            <7>1. A < blockB
              BY <2>2, <5>1, <6>2
            <7>2. /\ AtLeftmost(ExcessOf(v), inBlockA, a, A * BlockBits) /\ a <= A * BlockBits
                  /\ blockB * BlockBits <= v.size
              BY <5>1, <5>3, <5>4 DEF E, Q
            <7>3. AtLeftmost(ExcessOf(v), inBlocks, a, blockB * BlockBits)
              BY <2>2, <5>1, <5>8, <7>1, <7>2, WordsOfBlocks
            <7> QED  BY <7>3 DEF E, Q
          <6> QED  BY <6>1, <6>2
        <5> HIDE DEF inBlocks
        <5>10. AtLeftmost(E, InWords(v, Q + 1 .. q, inBlocks), a, q)
          BY <1>2, <2>2, <3>2, <5>3, <5>9, InWordsIs DEF E
        <5> QED  BY <4>2, <5>10
      <4> QED  BY <4>1, <4>2
    <3> HIDE DEF beforeB
    <3>5. AtLeftmost(E, InWords(v, q + 1 .. b, beforeB), a, b)
      BY <1>2, <2>2, <3>2, <3>4, InWordsIs DEF E
    <3> QED  BY <1>1, <1>5, <2>5, <3>5 DEF E
  <2> QED  BY <2>4, <2>5
<1> QED  BY <1>4, <1>5

-----------------------------------------------------------------------------
(***************************************************************************)
(* The stack of the Cartesian tree.                                        *)
(***************************************************************************)
LEMMA GreatestThere ==
    ASSUME NEW n \in Nat, NEW S \in SUBSET (0 .. n), 0 \in S
    PROVE  Max(S) \in S /\ \A y \in S : y <= Max(S)
<1> DEFINE T == {i \in Nat : \E x \in S : \A y \in S : y <= i => y <= x}
<1>1. 0 \in T
  OBVIOUS
<1>2. ASSUME NEW i \in Nat, i \in T PROVE i + 1 \in T
  <2>1. PICK x \in S : \A y \in S : y <= i => y <= x
    BY <1>2
  <2>2. CASE i + 1 \in S
    <3>1. \A y \in S : y <= i + 1 => y <= i + 1
      OBVIOUS
    <3> QED  BY <2>2, <3>1
  <2>3. CASE i + 1 \notin S
    <3>1. \A y \in S : y <= i + 1 => y <= x
      <4> TAKE y \in S
      <4>1. y \in Int /\ y # i + 1
        BY <2>3
      <4> QED  BY <2>1, <4>1
    <3> QED  BY <3>1
  <2> QED  BY <2>2, <2>3
<1>3. n \in T
  <2>1. \A i \in Nat : i \in T
    <3> HIDE DEF T
    <3> QED  BY <1>1, <1>2, EveryNumber
  <2> HIDE DEF T
  <2> QED  BY <2>1
<1>4. PICK x \in S : \A y \in S : y <= x
  BY <1>3
<1>5. \A y \in S : x >= y
  BY <1>4
<1>6. Max(S) \in S /\ \A y \in S : Max(S) >= y
  BY <1>5, Zenon DEF Max
<1> QED  BY <1>6

LEMMA JoinedIs ==
    ASSUME NEW S, NEW s \in Seq(S), NEW t \in Seq(S), NEW r, r = s \o t,
           NEW m, m = Len(s), NEW n, n = Len(t)
    PROVE  /\ r \in Seq(S) /\ Len(r) = m + n /\ m \in Nat /\ n \in Nat
           /\ \A i \in 1 .. m : r[i] = s[i]
           /\ \A i \in 1 .. n : r[m + i] = t[i]
<1>1. m \in Nat /\ n \in Nat
  OBVIOUS
<1>2. /\ s \o t \in Seq(S) /\ Len(s \o t) = Len(s) + Len(t)
      /\ \A i \in 1 .. Len(s) + Len(t) : (s \o t)[i] = IF i <= Len(s) THEN s[i] ELSE t[i - Len(s)]
  BY ConcatProperties, Zenon
<1>3. /\ r \in Seq(S) /\ Len(r) = m + n
      /\ \A i \in 1 .. m + n : r[i] = IF i <= m THEN s[i] ELSE t[i - m]
  BY <1>2, Zenon
<1>4. \A i \in 1 .. m : r[i] = s[i]
  <2> TAKE i \in 1 .. m
  <2>1. i \in 1 .. m + n /\ i <= m
    BY <1>1
  <2> QED  BY <1>3, <2>1
<1>5. \A i \in 1 .. n : r[m + i] = t[i]
  <2> TAKE i \in 1 .. n
  <2>1. m + i \in 1 .. m + n /\ ~(m + i <= m) /\ m + i - m = i
    BY <1>1
  <2> QED  BY <1>3, <2>1
<1> QED  BY <1>1, <1>3, <1>4, <1>5

LEMMA AppendedIs ==
    ASSUME NEW S, NEW s \in Seq(S), NEW val \in S, NEW r, r = Append(s, val), NEW m, m = Len(s)
    PROVE  /\ r \in Seq(S) /\ Len(r) = m + 1 /\ r[m + 1] = val
           /\ \A i \in 1 .. m : r[i] = s[i]
<1>1. /\ Append(s, val) \in Seq(S) /\ Len(Append(s, val)) = Len(s) + 1
      /\ \A i \in 1 .. Len(s) : Append(s, val)[i] = s[i]
      /\ Append(s, val)[Len(s) + 1] = val
  BY AppendProperties
<1> QED  BY <1>1, Zenon

\* c is b with a value pushed back.
PushedBack(b, c, val) ==
    LET d == Len(b.stack)
        e == Len(c.stack)
        u == Len(b.bits)
    IN  /\ c.stack \in Seq(Int) /\ c.bits \in Seq({0, 1})
        /\ e \in 1 .. d + 1 /\ c.stack[e] = val
        /\ \A x \in 1 .. e - 1 : c.stack[x] = b.stack[x]
        /\ \A x \in e .. d : val < b.stack[x]
        /\ e = 1 \/ b.stack[e - 1] <= val
        /\ Len(c.bits) = u + 2 + d - e
        /\ \A x \in 1 .. u : c.bits[x] = b.bits[x]
        /\ c.bits[u + 1] = 0
        /\ \A x \in u + 2 .. u + 2 + d - e : c.bits[x] = 1

LEMMA PushBackIs ==
    ASSUME NEW b, b.stack \in Seq(Int), b.bits \in Seq({0, 1}), NEW val \in Int
    PROVE  PushedBack(b, PushBack(b, val), val)
<1> DEFINE s == b.stack
           d == Len(s)
           u == Len(b.bits)
           K == {0} \cup {i \in DOMAIN s : ~(val < s[i])}
           kept == Max(K)
           popped == [i \in 1 .. d - kept |-> 1]
           c == PushBack(b, val)
           front == SubSeq(s, 1, kept)
           zero == b.bits \o <<0>>
<1>1. d \in Nat /\ DOMAIN s = 1 .. d /\ \A i \in 1 .. d : s[i] \in Int
  OBVIOUS
<1>2. K \in SUBSET (0 .. d) /\ 0 \in K
  BY <1>1
<1>3. kept \in K /\ \A y \in K : y <= kept
  <2> HIDE DEF K, d
  <2> QED  BY <1>1, <1>2, GreatestThere
<1>4. c.bits = zero \o popped /\ c.stack = Append(front, val)
  BY DEF PushBack
<1>5. /\ kept \in 0 .. d /\ (kept # 0 => ~(val < s[kept]))
      /\ \A y \in 1 .. d : ~(val < s[y]) => y <= kept
  <2>1. kept \in K /\ \A y \in K : y <= kept
    BY <1>3
  <2> HIDE DEF kept
  <2> QED  BY <1>1, <2>1
<1> HIDE DEF kept, K
<1>6. front \in Seq(Int) /\ Len(front) = kept /\ \A x \in 1 .. kept : front[x] = s[x]
  <2> HIDE DEF d
  <2>1. \A i \in 1 .. kept : s[i] \in Int
    BY <1>1, <1>5
  <2> HIDE DEF s
  <2>2. /\ front \in Seq(Int) /\ Len(front) = (IF 1 <= kept THEN kept - 1 + 1 ELSE 0)
        /\ \A i \in 1 .. kept - 1 + 1 : front[i] = s[1 + i - 1]
    BY <1>5, <2>1, SubSeqProperties
  <2> HIDE DEF front
  <2>3. kept - 1 + 1 = kept /\ kept \in Nat /\ \A i \in 1 .. kept : 1 + i - 1 = i
    BY <1>1, <1>5
  <2>4. Len(front) = kept
    BY <2>2, <2>3
  <2> QED  BY <2>2, <2>3, <2>4
<1>7. /\ c.stack \in Seq(Int) /\ Len(c.stack) = kept + 1 /\ c.stack[kept + 1] = val
      /\ \A x \in 1 .. kept : c.stack[x] = s[x]
  <2> DEFINE r == c.stack
  <2> HIDE DEF front, s, c
  <2>1. r = Append(front, val) /\ kept = Len(front)
    BY <1>4, <1>6
  <2> HIDE DEF r
  <2>2. /\ r \in Seq(Int) /\ Len(r) = kept + 1 /\ r[kept + 1] = val
        /\ \A i \in 1 .. kept : r[i] = front[i]
    BY ONLY <1>6, <2>1, val \in Int, AppendedIs
  <2> QED  BY <1>6, <2>2 DEF r
<1>8. popped \in Seq({0, 1}) /\ Len(popped) = d - kept /\ \A x \in 1 .. d - kept : popped[x] = 1
  BY <1>1, <1>5
<1>9. zero \in Seq({0, 1}) /\ Len(zero) = u + 1 /\ zero[u + 1] = 0 /\ \A x \in 1 .. u : zero[x] = b.bits[x]
  <2>1. b.bits \in Seq({0, 1}) /\ <<0>> \in Seq({0, 1}) /\ Len(<<0>>) = 1 /\ <<0>>[1] = 0 /\ u \in Nat
    OBVIOUS
  <2> DEFINE one == <<0>>
  <2>2. one \in Seq({0, 1}) /\ Len(one) = 1 /\ one[1] = 0
    BY <2>1
  <2> HIDE DEF one
  <2> DEFINE f == b.bits
             m == 1
  <2>3. zero = f \o one /\ u = Len(f) /\ u \in Nat
    BY <2>1 DEF one
  <2>8. m = Len(one)
    BY <2>2
  <2>4. m = 1
    OBVIOUS
  <2> DEFINE B == {0, 1}
  <2>7. f \in Seq(B) /\ one \in Seq(B)
    BY <2>1 DEF one
  <2> HIDE DEF zero, u, f, m, B
  <2>5. /\ zero \in Seq(B) /\ Len(zero) = u + m
        /\ \A i \in 1 .. u : zero[i] = f[i]
        /\ \A i \in 1 .. m : zero[u + i] = one[i]
    BY ONLY <2>7, <2>3, <2>8, JoinedIs
  <2>6. zero[u + 1] = 0
    <3>1. 1 \in 1 .. m
      BY <2>4
    <3> QED  BY <2>2, <2>5, <3>1
  <2> QED  BY <2>4, <2>5, <2>6 DEF f, B
<1>10. /\ c.bits \in Seq({0, 1}) /\ Len(c.bits) = u + 1 + (d - kept)
       /\ \A i \in 1 .. u + 1 : c.bits[i] = zero[i]
       /\ \A i \in 1 .. d - kept : c.bits[u + 1 + i] = popped[i]
  <2> DEFINE r == c.bits
             m == u + 1
             n == d - kept
  <2>1. r = zero \o popped
    BY <1>4
  <2>2. m = Len(zero) /\ n = Len(popped)
    BY <1>8, <1>9
  <2> DEFINE B == {0, 1}
  <2>4. zero \in Seq(B) /\ popped \in Seq(B)
    BY <1>8, <1>9
  <2> HIDE DEF popped, zero, r, m, n, B
  <2>3. /\ r \in Seq(B) /\ Len(r) = m + n
        /\ \A i \in 1 .. m : r[i] = zero[i]
        /\ \A i \in 1 .. n : r[m + i] = popped[i]
    BY ONLY <2>1, <2>2, <2>4, JoinedIs
  <2> QED  BY <2>3 DEF r, m, n, B
<1> DEFINE e == kept + 1
<1> HIDE DEF c, front, popped, zero, s
<1>11. u \in Nat /\ d \in Nat /\ kept \in 0 .. d
  BY <1>1, <1>5
<1> HIDE DEF u, d
<1>12. e \in 1 .. d + 1 /\ e - 1 = kept /\ Len(c.stack) = e /\ u + 1 + (d - kept) = u + 2 + d - e
  BY <1>7, <1>11
<1>13. \A x \in e .. d : val < s[x]
  <2> TAKE x \in e .. d
  <2>1. x \in 1 .. d /\ ~(x <= kept)
    BY <1>11
  <2> QED  BY <1>5, <2>1
<1>14. e = 1 \/ s[e - 1] <= val
  <2>1. CASE kept = 0
    BY <2>1
  <2>2. CASE kept # 0
    <3>1. ~(val < s[kept]) /\ s[kept] \in Int
      BY <1>1, <1>5, <1>11, <2>2
    <3> QED  BY <3>1, <1>12
  <2> QED  BY <2>1, <2>2
<1>15. \A x \in 1 .. u : c.bits[x] = b.bits[x]
  <2> TAKE x \in 1 .. u
  <2>1. x \in 1 .. u + 1
    BY <1>11
  <2> QED  BY <1>9, <1>10, <2>1
<1>16. c.bits[u + 1] = 0
  <2>1. u + 1 \in 1 .. u + 1
    BY <1>11
  <2> QED  BY <1>9, <1>10, <2>1
<1>17. \A x \in u + 2 .. u + 2 + d - e : c.bits[x] = 1
  <2> TAKE x \in u + 2 .. u + 2 + d - e
  <2> DEFINE i == x - (u + 1)
  <2>1. i \in 1 .. d - kept /\ u + 1 + i = x
    BY <1>11
  <2> HIDE DEF i
  <2> QED  BY <1>8, <1>10, <2>1
<1>18. Len(c.bits) = u + 2 + d - e
  BY <1>10, <1>12
<1> HIDE DEF e
<1> QED  BY <1>7, <1>10, <1>12, <1>13, <1>14, <1>15, <1>16, <1>17, <1>18 DEF PushedBack, s, c, u, d

Builds(A, values, n) ==
    A = [i \in 0 .. n |->
            IF i = 0 THEN [bits |-> <<>>, stack |-> <<>>] ELSE PushBack(A[i - 1], values[i])]

LEMMA BuildsExist ==
    ASSUME NEW n \in Nat, NEW values
    PROVE  \E A : Builds(A, values, n)
<1> DEFINE none == [bits |-> <<>>, stack |-> <<>>]
           S == {i \in Nat : \E A : Builds(A, values, i)}
<1>1. 0 \in S
  <2> DEFINE A == [i \in 0 .. 0 |-> none]
  <2>1. A = [i \in 0 .. 0 |-> IF i = 0 THEN none ELSE PushBack(A[i - 1], values[i])]
    OBVIOUS
  <2>2. Builds(A, values, 0)
    BY <2>1 DEF Builds
  <2> QED  BY <2>2
<1> HIDE DEF none
<1>2. ASSUME NEW j \in Nat, j \in S
      PROVE  j + 1 \in S
  <2>1. PICK Y : Builds(Y, values, j)
    BY <1>2
  <2> DEFINE Step(F, i) == IF i = 0 THEN none ELSE PushBack(F[i - 1], values[i])
             A == [i \in 0 .. j + 1 |-> IF i <= j THEN Y[i] ELSE Step(Y, i)]
  <2>2. \A i \in 0 .. j : Y[i] = Step(Y, i)
    <3>1. Y = [i \in 0 .. j |-> Step(Y, i)]
      BY <2>1 DEF Builds, none
    <3> QED  BY <3>1
  <2>3. \A i \in 0 .. j + 1 : A[i] = Step(A, i)
    <3> TAKE i \in 0 .. j + 1
    <3>1. A[i] = Step(Y, i)
      BY <2>2
    <3>2. i # 0 => i - 1 \in 0 .. j + 1 /\ i - 1 <= j
      OBVIOUS
    <3>3. i # 0 => A[i - 1] = Y[i - 1]
      BY <3>2
    <3> QED  BY <3>1, <3>3
  <2>4. A = [i \in 0 .. j + 1 |-> Step(A, i)]
    <3>1. A = [i \in 0 .. j + 1 |-> A[i]]
      OBVIOUS
    <3> HIDE DEF A, Step
    <3> QED  BY <3>1, <2>3, Zenon
  <2>5. Builds(A, values, j + 1)
    BY <2>4 DEF Builds, none
  <2> HIDE DEF A
  <2> QED  BY <2>5
<1>3. \A i \in Nat : i \in S
  <2> HIDE DEF S
  <2> QED  BY <1>1, <1>2, EveryNumber
<1> QED  BY <1>3

\* The depth of the stack, and how much is written, after i values.
Depth(A, i) == Len(A[i].stack)
Written(A, i) == 2 * i - Depth(A, i)

\* The stacks of the values 1 .. n, and the zeros of what is written.
Stacks(A, values, n) ==
    /\ \A i \in 0 .. n : Depth(A, i) \in Nat /\ \A x \in 1 .. Depth(A, i) : A[i].stack[x] \in Int
    /\ Depth(A, 0) = 0
    /\ \A i \in 1 .. n :
           /\ Depth(A, i) \in 1 .. Depth(A, i - 1) + 1
           /\ A[i].stack[Depth(A, i)] = values[i]
           /\ \A x \in 1 .. Depth(A, i) - 1 : A[i].stack[x] = A[i - 1].stack[x]
           /\ \A x \in Depth(A, i) .. Depth(A, i - 1) : values[i] < A[i - 1].stack[x]
           /\ Depth(A, i) = 1 \/ A[i - 1].stack[Depth(A, i) - 1] <= values[i]

\* Position q is that of the zero that is written for value i + 1.
ZeroAt(A, q, n) == \E i \in 0 .. n : q = Written(A, i) + 1

Writes(A, i) ==
    /\ A[i].bits \in Seq({0, 1}) /\ Len(A[i].bits) = Written(A, i)
    /\ \A q \in 1 .. Written(A, i) : A[i].bits[q] = IF ZeroAt(A, q, i - 1) THEN 0 ELSE 1

LEMMA BuildsStep ==
    ASSUME NEW n \in Nat, NEW values \in Seq(Int), n = Len(values), NEW A, Builds(A, values, n),
           NEW i \in 0 .. n - 1, A[i].stack \in Seq(Int), A[i].bits \in Seq({0, 1})
    PROVE  PushedBack(A[i], A[i + 1], values[i + 1])
<1> DEFINE j == i + 1
           val == values[j]
           b == A[i]
           none == [bits |-> <<>>, stack |-> <<>>]
<1>1. j \in 0 .. n /\ j # 0 /\ j - 1 = i /\ j \in 1 .. Len(values)
  OBVIOUS
<1>2. val \in Int
  BY <1>1
<1> HIDE DEF none, j
<1>3. A[j] = PushBack(A[j - 1], values[j])
  <2> DEFINE Step(F, y) == IF y = 0 THEN none ELSE PushBack(F[y - 1], values[y])
  <2>1. A = [y \in 0 .. n |-> Step(A, y)]
    BY DEF Builds, none
  <2> HIDE DEF Step
  <2>2. A[j] = Step(A, j)
    BY <1>1, <2>1
  <2> QED  BY <1>1, <2>2 DEF Step
<1>4. A[j] = PushBack(b, val)
  BY <1>1, <1>3
<1> HIDE DEF val, b
<1>5. b.stack \in Seq(Int) /\ b.bits \in Seq({0, 1})
  BY DEF b
<1>6. PushedBack(b, PushBack(b, val), val)
  BY <1>2, <1>5, PushBackIs
<1> QED  BY <1>4, <1>6 DEF b, val, j

LEMMA StacksAre ==
    ASSUME NEW n \in Nat, NEW values \in Seq(Int), n = Len(values), NEW A, Builds(A, values, n)
    PROVE  /\ Stacks(A, values, n)
           /\ \A i \in 0 .. n : A[i].stack \in Seq(Int) /\ A[i].bits \in Seq({0, 1})
<1> DEFINE S == {i \in Nat : A[i].stack \in Seq(Int) /\ A[i].bits \in Seq({0, 1})}
           none == [bits |-> <<>>, stack |-> <<>>]
<1>1. A[0] = none
  <2> DEFINE Step(F, y) == IF y = 0 THEN none ELSE PushBack(F[y - 1], values[y])
  <2>1. A = [y \in 0 .. n |-> Step(A, y)]
    BY DEF Builds
  <2> HIDE DEF Step
  <2>2. A[0] = Step(A, 0)
    BY <2>1
  <2> QED  BY <2>2 DEF Step
<1>2. 0 \in S /\ Depth(A, 0) = 0
  <2>1. none.stack = <<>> /\ none.bits = <<>> /\ <<>> \in Seq(Int) /\ <<>> \in Seq({0, 1}) /\ Len(<<>>) = 0
    OBVIOUS
  <2> HIDE DEF none
  <2> QED  BY <1>1, <2>1 DEF Depth
<1>3. \A i \in 0 .. n - 1 : i \in S => i + 1 \in S
  <2> TAKE i \in 0 .. n - 1
  <2> SUFFICES ASSUME i \in S PROVE i + 1 \in S
    OBVIOUS
  <2>1. PushedBack(A[i], A[i + 1], values[i + 1])
    BY BuildsStep
  <2> QED  BY <2>1 DEF PushedBack
<1>4. \A i \in 0 .. n : i \in S
  <2> HIDE DEF S
  <2> QED  BY <1>2, <1>3, NumbersUpTo
<1>5. \A i \in 0 .. n : A[i].stack \in Seq(Int) /\ A[i].bits \in Seq({0, 1})
  BY <1>4
<1>6. \A i \in 0 .. n : Depth(A, i) \in Nat /\ \A x \in 1 .. Depth(A, i) : A[i].stack[x] \in Int
  <2> TAKE i \in 0 .. n
  <2> DEFINE s == A[i].stack
  <2>1. s \in Seq(Int)
    BY <1>5
  <2> HIDE DEF s
  <2>2. Len(s) \in Nat /\ \A x \in 1 .. Len(s) : s[x] \in Int
    BY <2>1
  <2> QED  BY <2>2 DEF s, Depth
<1>7. ASSUME NEW i \in 1 .. n
      PROVE  /\ Depth(A, i) \in 1 .. Depth(A, i - 1) + 1
             /\ A[i].stack[Depth(A, i)] = values[i]
             /\ \A x \in 1 .. Depth(A, i) - 1 : A[i].stack[x] = A[i - 1].stack[x]
             /\ \A x \in Depth(A, i) .. Depth(A, i - 1) : values[i] < A[i - 1].stack[x]
             /\ Depth(A, i) = 1 \/ A[i - 1].stack[Depth(A, i) - 1] <= values[i]
  <2> DEFINE j == i - 1
  <2>1. j \in 0 .. n - 1 /\ j + 1 = i /\ j \in 0 .. n
    OBVIOUS
  <2> HIDE DEF j
  <2>4. PushedBack(A[j], A[j + 1], values[j + 1])
    BY <1>5, <2>1, BuildsStep
  <2>2. /\ Depth(A, i) \in 1 .. Depth(A, j) + 1 /\ A[i].stack[Depth(A, i)] = values[i]
        /\ \A x \in 1 .. Depth(A, i) - 1 : A[i].stack[x] = A[j].stack[x]
        /\ \A x \in Depth(A, i) .. Depth(A, j) : values[i] < A[j].stack[x]
        /\ Depth(A, i) = 1 \/ A[j].stack[Depth(A, i) - 1] <= values[i]
    BY <2>1, <2>4 DEF PushedBack, Depth
  <2>3. i - 1 = j
    BY DEF j
  <2> QED  BY <2>1, <2>2, <2>3
<1> QED  BY <1>2, <1>5, <1>6, <1>7 DEF Stacks

(***************************************************************************)
(* While no lesser value comes, a value stays in the stack and what comes  *)
(* after it is above it; and a value less than all those since an earlier  *)
(* one takes the earlier one from the stack.                               *)
(***************************************************************************)
LEMMA DeeperAfter ==
    ASSUME NEW n \in Nat, NEW values \in Seq(Int), n = Len(values), NEW A, Stacks(A, values, n),
           NEW m \in 1 .. n, NEW hi \in m .. n, \A j \in m .. hi : values[m] <= values[j]
    PROVE  \A j \in m + 1 .. hi : Depth(A, m) < Depth(A, j)
<1> DEFINE d == Depth(A, m)
           len == hi - m
           Kept(j) == d <= Depth(A, j) /\ A[j].stack[d] = values[m]
           S == {t \in Nat : Kept(m + t)}
<1>1. len \in Nat /\ m \in Nat /\ hi \in Nat /\ m + len = hi
  OBVIOUS
<1>2. \A j \in 1 .. n : values[j] \in Int
  OBVIOUS
<1>3. /\ \A i \in 0 .. n : Depth(A, i) \in Nat /\ \A x \in 1 .. Depth(A, i) : A[i].stack[x] \in Int
      /\ \A i \in 1 .. n :
           /\ Depth(A, i) \in 1 .. Depth(A, i - 1) + 1
           /\ A[i].stack[Depth(A, i)] = values[i]
           /\ \A x \in 1 .. Depth(A, i) - 1 : A[i].stack[x] = A[i - 1].stack[x]
           /\ \A x \in Depth(A, i) .. Depth(A, i - 1) : values[i] < A[i - 1].stack[x]
  BY DEF Stacks
<1>4. d \in Nat /\ d >= 1 /\ A[m].stack[d] = values[m]
  <2>1. Depth(A, m - 1) \in Nat
    <3>1. m - 1 \in 0 .. n
      OBVIOUS
    <3> QED  BY <1>3, <3>1
  <2> QED  BY <1>3, <2>1
<1>5. 0 \in S
  <2>1. m + 0 = m /\ d <= d
    BY <1>4
  <2> HIDE DEF d
  <2> QED  BY <1>4, <2>1 DEF d
<1>6. ASSUME NEW i \in Nat, i < len, Kept(m + i)
      PROVE  Kept(m + (i + 1)) /\ d < Depth(A, m + (i + 1))
  <2> DEFINE y == m + i
             j == m + (i + 1)
             e == Depth(A, j)
  <2>1. /\ y \in 0 .. n /\ j \in 1 .. n /\ j \in m .. hi /\ j - 1 = y
        /\ d <= Depth(A, y) /\ A[y].stack[d] = values[m]
    BY <1>1, <1>6
  <2> HIDE DEF y, j, d
  <2>2. /\ e \in 1 .. Depth(A, y) + 1
        /\ \A x \in 1 .. e - 1 : A[j].stack[x] = A[y].stack[x]
        /\ \A x \in e .. Depth(A, y) : values[j] < A[y].stack[x]
        /\ Depth(A, y) \in Nat
    BY <1>3, <2>1
  <2>3. values[m] <= values[j] /\ values[m] \in Int /\ values[j] \in Int
    BY <1>2, <2>1
  <2> HIDE DEF e
  <2>4. d < e
    <3> SUFFICES ASSUME e <= d PROVE FALSE
      BY <1>4, <2>2
    <3>1. d \in e .. Depth(A, y)
      BY <1>4, <2>1, <2>2
    <3>2. values[j] < values[m]
      BY <2>1, <2>2, <3>1
    <3> QED  BY <2>3, <3>2
  <2>5. A[j].stack[d] = values[m] /\ d <= e
    <3>1. d \in 1 .. e - 1
      BY <1>4, <2>2, <2>4
    <3> QED  BY <2>1, <2>2, <3>1
  <2> QED  BY <2>4, <2>5 DEF e, j, d
<1>7. \A i \in 0 .. len : i \in S
  <2>1. \A i \in 0 .. len - 1 : i \in S => i + 1 \in S
    <3> TAKE i \in 0 .. len - 1
    <3>1. i \in Nat /\ i < len /\ i + 1 \in Nat
      BY <1>1
    <3> HIDE DEF Kept, len
    <3> QED  BY <1>6, <3>1
  <2> HIDE DEF S, len
  <2> QED  BY <1>1, <1>5, <2>1, NumbersUpTo
<1> TAKE j \in m + 1 .. hi
<1> DEFINE i == j - (m + 1)
<1>8. i \in Nat /\ i < len /\ i \in 0 .. len /\ m + (i + 1) = j
  BY <1>1
<1> HIDE DEF i, len, Kept, d
<1>9. Kept(m + i)
  BY <1>7, <1>8
<1>10. d < Depth(A, m + (i + 1))
  BY <1>6, <1>8, <1>9
<1> QED  BY <1>8, <1>10 DEF d

LEMMA DeeperBefore ==
    ASSUME NEW n \in Nat, NEW values \in Seq(Int), n = Len(values), NEW A, Stacks(A, values, n),
           NEW m \in 1 .. n, NEW lo \in 1 .. m, \A j \in lo .. m - 1 : values[m] < values[j]
    PROVE  \A j \in lo .. m : Depth(A, m) <= Depth(A, j)
<1>1. /\ \A i \in 0 .. n : Depth(A, i) \in Nat /\ \A x \in 1 .. Depth(A, i) : A[i].stack[x] \in Int
      /\ \A i \in 1 .. n :
           /\ Depth(A, i) \in 1 .. Depth(A, i - 1) + 1
           /\ A[i].stack[Depth(A, i)] = values[i]
           /\ \A x \in 1 .. Depth(A, i) - 1 : A[i].stack[x] = A[i - 1].stack[x]
           /\ Depth(A, i) = 1 \/ A[i - 1].stack[Depth(A, i) - 1] <= values[i]
  BY DEF Stacks
<1>2. \A j \in 1 .. n : values[j] \in Int
  OBVIOUS
<1> TAKE j \in lo .. m
<1> DEFINE d == Depth(A, j)
           len == (m - 1) - j
           Above(i) == \A x \in d .. Depth(A, i) : values[m] < A[i].stack[x]
           S == {t \in Nat : Above(j + t)}
<1>3. j \in 1 .. n /\ d \in Nat /\ d >= 1
  <2>1. j \in 1 .. n /\ j - 1 \in 0 .. n
    OBVIOUS
  <2>2. Depth(A, j) \in 1 .. Depth(A, j - 1) + 1 /\ Depth(A, j - 1) \in Nat
    BY <1>1, <2>1
  <2> QED  BY <2>1, <2>2
<1>4. CASE j = m
  BY <1>3, <1>4
<1>5. CASE j # m
  <2>1. len \in Nat /\ j + len = m - 1 /\ j \in lo .. m - 1
    BY <1>5
  <2>2. 0 \in S
    <3>1. j + 0 = j /\ \A x \in d .. d : x = d
      BY <1>3
    <3>2. A[j].stack[d] = values[j]
      BY <1>1, <1>3
    <3>3. values[m] < values[j]
      BY <2>1
    <3>4. Above(j)
      <4> HIDE DEF d
      <4>1. \A x \in d .. d : values[m] < A[j].stack[x]
        BY <3>1, <3>2, <3>3
      <4> QED  BY <4>1 DEF d
    <3> HIDE DEF Above
    <3> QED  BY <3>1, <3>4
  <2>3. ASSUME NEW i \in 0 .. len - 1, Above(j + i)
        PROVE  Above(j + (i + 1))
    <3> DEFINE y == j + i
               z == j + (i + 1)
               e == Depth(A, z)
    <3>1. y \in 0 .. n /\ z \in 1 .. n /\ z \in lo .. m - 1 /\ z - 1 = y
      BY <1>3, <2>1
    <3>2. \A x \in d .. Depth(A, y) : values[m] < A[y].stack[x]
      BY <2>3
    <3> HIDE DEF y, z, d
    <3>3. /\ e \in 1 .. Depth(A, y) + 1 /\ A[z].stack[e] = values[z]
          /\ \A x \in 1 .. e - 1 : A[z].stack[x] = A[y].stack[x]
          /\ Depth(A, y) \in Nat
      BY <1>1, <3>1
    <3>4. values[m] < values[z]
      BY <3>1
    <3> HIDE DEF e
    <3>5. \A x \in d .. e : values[m] < A[z].stack[x]
      <4> TAKE x \in d .. e
      <4>1. CASE x = e
        BY <3>3, <3>4, <4>1
      <4>2. CASE x # e
        <5>1. x \in 1 .. e - 1 /\ x \in d .. Depth(A, y)
          BY <1>3, <3>3, <4>2
        <5> QED  BY <3>2, <3>3, <5>1
      <4> QED  BY <4>1, <4>2
    <3> QED  BY <3>5 DEF z, e
  <2>4. Above(m - 1)
    <3>1. \A i \in 0 .. len - 1 : i \in S => i + 1 \in S
      <4> TAKE i \in 0 .. len - 1
      <4>1. i \in Nat /\ i + 1 \in Nat
        OBVIOUS
      <4> HIDE DEF Above
      <4> QED  BY <2>3, <4>1
    <3>2. \A i \in 0 .. len : i \in S
      <4> HIDE DEF S, len
      <4> QED  BY <2>1, <2>2, <3>1, NumbersUpTo
    <3>3. len \in 0 .. len
      BY <2>1
    <3> HIDE DEF Above, len
    <3> QED  BY <2>1, <3>2, <3>3
  <2> DEFINE e == Depth(A, m)
             y == m - 1
  <2>5. /\ e \in 1 .. Depth(A, y) + 1 /\ Depth(A, y) \in Nat
        /\ e = 1 \/ A[y].stack[e - 1] <= values[m]
        /\ \A x \in 1 .. Depth(A, y) : A[y].stack[x] \in Int
    <3>1. y \in 0 .. n
      OBVIOUS
    <3> QED  BY <1>1, <3>1
  <2>6. \A x \in d .. Depth(A, y) : values[m] < A[y].stack[x]
    BY <2>4
  <2>7. values[m] \in Int
    BY <1>2
  <2> HIDE DEF e, y, d
  <2>8. e <= d
    <3> SUFFICES ASSUME d < e PROVE FALSE
      BY <1>3, <2>5
    <3>1. e - 1 \in d .. Depth(A, y) /\ e - 1 \in 1 .. Depth(A, y) /\ e # 1
      BY <1>3, <2>5
    <3>2. A[y].stack[e - 1] <= values[m] /\ values[m] < A[y].stack[e - 1] /\ A[y].stack[e - 1] \in Int
      BY <2>5, <2>6, <3>1
    <3> QED  BY <2>7, <3>2
  <2> QED  BY <2>8 DEF e, d
<1> QED  BY <1>4, <1>5

LEMMA WrittenGrows ==
    ASSUME NEW n \in Nat, NEW values, NEW A, Stacks(A, values, n)
    PROVE  /\ \A i \in 0 .. n : Written(A, i) \in Nat /\ Depth(A, i) \in Nat
           /\ Written(A, 0) = 0
           /\ \A i \in 0 .. n - 1 : Written(A, i) < Written(A, i + 1)
           /\ \A i, j \in 0 .. n : i < j => Written(A, i) < Written(A, j)
<1>1. /\ \A i \in 0 .. n : Depth(A, i) \in Nat /\ Written(A, i) = 2 * i - Depth(A, i)
      /\ Depth(A, 0) = 0
      /\ \A i \in 1 .. n : Depth(A, i) \in 1 .. Depth(A, i - 1) + 1
  BY DEF Stacks, Written
<1>2. \A i \in 0 .. n : Written(A, i) \in Int
  BY <1>1
<1>3. \A i \in 0 .. n - 1 : Written(A, i) < Written(A, i + 1)
  <2> TAKE i \in 0 .. n - 1
  <2> DEFINE j == i + 1
  <2>1. j \in 1 .. n /\ j \in 0 .. n /\ j - 1 = i /\ i \in 0 .. n
    OBVIOUS
  <2> HIDE DEF j
  <2>2. /\ Depth(A, j) \in 1 .. Depth(A, i) + 1 /\ Depth(A, i) \in Nat /\ Depth(A, j) \in Nat
        /\ Written(A, i) = 2 * i - Depth(A, i) /\ Written(A, j) = 2 * j - Depth(A, j) /\ i \in Int /\ j = i + 1
    BY <1>1, <2>1
  <2>3. Written(A, i) < Written(A, j)
    BY <2>2
  <2> QED  BY <2>3 DEF j
<1> DEFINE S == {j \in Nat : \A i \in 0 .. n : i < j => Written(A, i) < Written(A, j)}
<1>4. 0 \in S
  OBVIOUS
<1>5. \A j \in 0 .. n - 1 : j \in S => j + 1 \in S
  <2> TAKE j \in 0 .. n - 1
  <2> SUFFICES ASSUME j \in S PROVE \A i \in 0 .. n : i < j + 1 => Written(A, i) < Written(A, j + 1)
    OBVIOUS
  <2> TAKE i \in 0 .. n
  <2> SUFFICES ASSUME i < j + 1 PROVE Written(A, i) < Written(A, j + 1)
    OBVIOUS
  <2>1. Written(A, j) < Written(A, j + 1) /\ j \in 0 .. n /\ j + 1 \in 0 .. n
    BY <1>3
  <2>2. i = j \/ i < j
    OBVIOUS
  <2>3. i < j => Written(A, i) < Written(A, j)
    OBVIOUS
  <2>4. Written(A, i) \in Int /\ Written(A, j) \in Int /\ Written(A, j + 1) \in Int
    BY <1>2, <2>1
  <2> QED  BY <2>1, <2>2, <2>3, <2>4
<1>6. \A j \in 0 .. n : j \in S
  <2> HIDE DEF S
  <2> QED  BY <1>4, <1>5, NumbersUpTo
<1>7. Written(A, 0) = 0
  BY <1>1
<1>8. \A i \in 0 .. n : Written(A, i) \in Nat
  <2> TAKE i \in 0 .. n
  <2>1. CASE i = 0
    BY <1>7, <2>1
  <2>2. CASE i # 0
    <3>1. 0 \in 0 .. n /\ 0 < i /\ i \in S
      BY <1>6, <2>2
    <3>2. Written(A, 0) < Written(A, i)
      BY <3>1
    <3> QED  BY <1>2, <1>7, <3>2
  <2> QED  BY <2>1, <2>2
<1> QED  BY <1>1, <1>3, <1>6, <1>7, <1>8

LEMMA WritesAre ==
    ASSUME NEW n \in Nat, NEW values \in Seq(Int), n = Len(values), NEW A, Builds(A, values, n)
    PROVE  \A i \in 0 .. n : Writes(A, i)
<1> DEFINE S == {i \in Nat : Writes(A, i)}
<1>1. Stacks(A, values, n) /\ \A i \in 0 .. n : A[i].stack \in Seq(Int) /\ A[i].bits \in Seq({0, 1})
  BY StacksAre
<1>2. /\ \A i \in 0 .. n : Written(A, i) \in Nat /\ Depth(A, i) \in Nat
      /\ Written(A, 0) = 0
      /\ \A i \in 0 .. n - 1 : Written(A, i) < Written(A, i + 1)
      /\ \A i, j \in 0 .. n : i < j => Written(A, i) < Written(A, j)
  BY <1>1, WrittenGrows
<1>3. 0 \in S
  <2> DEFINE none == [bits |-> <<>>, stack |-> <<>>]
  <2>1. A[0] = none
    <3> DEFINE Step(F, y) == IF y = 0 THEN none ELSE PushBack(F[y - 1], values[y])
    <3>1. A = [y \in 0 .. n |-> Step(A, y)]
      BY DEF Builds
    <3> HIDE DEF Step
    <3>2. A[0] = Step(A, 0)
      BY <3>1
    <3> QED  BY <3>2 DEF Step
  <2>2. none.bits = <<>> /\ <<>> \in Seq({0, 1}) /\ Len(<<>>) = 0
    OBVIOUS
  <2>3. 1 .. 0 = {}
    OBVIOUS
  <2> HIDE DEF none
  <2>4. A[0].bits \in Seq({0, 1}) /\ Len(A[0].bits) = 0
    BY <2>1, <2>2
  <2>5. \A q \in 1 .. Written(A, 0) : A[0].bits[q] = IF ZeroAt(A, q, 0 - 1) THEN 0 ELSE 1
    BY <1>2, <2>3
  <2>6. Writes(A, 0)
    BY <1>2, <2>4, <2>5 DEF Writes
  <2> QED  BY <2>6
<1>4. \A i \in 0 .. n - 1 : i \in S => i + 1 \in S
  <2> TAKE i \in 0 .. n - 1
  <2> SUFFICES ASSUME Writes(A, i) PROVE Writes(A, i + 1)
    OBVIOUS
  <2> DEFINE j == i + 1
             u == Written(A, i)
             w == Written(A, j)
             b == A[i].bits
             c == A[j].bits
  <2>1. i \in 0 .. n /\ j \in 0 .. n /\ j - 1 = i /\ j \in Nat /\ i \in Nat /\ j = i + 1 /\ i < j
    OBVIOUS
  <2>2. PushedBack(A[i], A[j], values[j])
    BY <1>1, <2>1, BuildsStep
  <2> HIDE DEF j
  <2>3. u + 2 + Depth(A, i) - Depth(A, j) = w /\ u \in Nat /\ w \in Nat /\ u < w
    <3>1. u = 2 * i - Depth(A, i) /\ w = 2 * j - Depth(A, j) /\ Depth(A, i) \in Nat /\ Depth(A, j) \in Nat
      BY <1>2, <2>1 DEF Written
    <3>2. u \in Nat /\ w \in Nat /\ u < w
      BY <1>2, <2>1
    <3> DEFINE di == Depth(A, i)
               dj == Depth(A, j)
    <3>3. u = 2 * i - di /\ w = 2 * j - dj /\ di \in Nat /\ dj \in Nat
      BY <3>1
    <3> HIDE DEF u, w, di, dj
    <3>4. u + 2 + di - dj = w
      BY ONLY <2>1, <3>3
    <3> QED  BY <3>2, <3>4 DEF di, dj
  <2>4. Len(b) = u /\ \A q \in 1 .. u : b[q] = IF ZeroAt(A, q, i - 1) THEN 0 ELSE 1
    BY DEF Writes
  <2>5. /\ c \in Seq({0, 1}) /\ Len(c) = u + 2 + Depth(A, i) - Depth(A, j)
        /\ \A x \in 1 .. u : c[x] = b[x]
        /\ c[u + 1] = 0
        /\ \A x \in u + 2 .. u + 2 + Depth(A, i) - Depth(A, j) : c[x] = 1
    BY <2>2, <2>4 DEF PushedBack, Depth
  <2> HIDE DEF u, w, b, c
  <2>6. \A q \in 1 .. w : c[q] = IF ZeroAt(A, q, i) THEN 0 ELSE 1
    <3> TAKE q \in 1 .. w
    <3>1. CASE q <= u
      <4>1. q \in 1 .. u
        BY <2>3, <3>1
      <4>2. ZeroAt(A, q, i) <=> ZeroAt(A, q, i - 1)
        <5>1. q # Written(A, i) + 1
          BY <2>3, <3>1 DEF u
        <5>2. \A x \in 0 .. i : x = i \/ x \in 0 .. i - 1
          BY <2>1
        <5>3. \A x \in 0 .. i - 1 : x \in 0 .. i
          BY <2>1
        <5> QED  BY <5>1, <5>2, <5>3 DEF ZeroAt
      <4> QED  BY <2>4, <2>5, <4>1, <4>2
    <3>2. CASE q = u + 1
      <4>1. i \in 0 .. i /\ q = Written(A, i) + 1
        BY <2>1, <3>2 DEF u
      <4> QED  BY <2>5, <3>2, <4>1 DEF ZeroAt
    <3>3. CASE q > u + 1
      <4>1. ~ZeroAt(A, q, i)
        <5> SUFFICES ASSUME NEW x \in 0 .. i PROVE q # Written(A, x) + 1
          BY DEF ZeroAt
        <5>1. x \in 0 .. n /\ (x = i \/ x < i)
          BY <2>1
        <5>2. Written(A, x) \in Nat /\ Written(A, x) <= u
          <6>1. Written(A, x) \in Nat /\ Written(A, i) = u
            BY <1>2, <5>1 DEF u
          <6>2. x < i => Written(A, x) < Written(A, i)
            BY <1>2, <2>1, <5>1
          <6> QED  BY ONLY <2>3, <5>1, <6>1, <6>2
        <5> QED  BY <2>3, <3>3, <5>2
      <4>2. q \in u + 2 .. u + 2 + Depth(A, i) - Depth(A, j)
        BY <2>3, <3>3
      <4> QED  BY <2>5, <4>1, <4>2
    <3> QED  BY <2>3, <3>1, <3>2, <3>3
  <2>7. Writes(A, j)
    BY <2>1, <2>3, <2>5, <2>6 DEF Writes, w, c
  <2> QED  BY <2>7 DEF j
<1>5. \A i \in 0 .. n : i \in S
  <2> HIDE DEF S
  <2> QED  BY <1>3, <1>4, NumbersUpTo
<1> QED  BY <1>5

LEMMA FinalizedIs ==
    ASSUME NEW n \in Nat, NEW values \in Seq(Int), n = Len(values), NEW A, Builds(A, values, n),
           NEW bits, bits = Finalized(A[n])
    PROVE  /\ bits \in Seq({0, 1}) /\ Len(bits) = 2 * n + 2
           /\ \A q \in 1 .. 2 * n + 2 : bits[2 * n + 3 - q] = IF ZeroAt(A, q, n) THEN 0 ELSE 1
<1> DEFINE b == A[n].bits
           s == A[n].stack
           u == Written(A, n)
           d == Depth(A, n)
           B == {0, 1}
           zero == <<0>>
           one == <<1>>
           ones == [i \in DOMAIN s |-> 1]
           x == b \o zero
           y == x \o ones
           z == y \o one
           size == 2 * n + 2
<1>1. /\ Stacks(A, values, n) /\ s \in Seq(Int) /\ b \in Seq(B)
      /\ Len(b) = u /\ \A q \in 1 .. u : b[q] = IF ZeroAt(A, q, n - 1) THEN 0 ELSE 1
  <2>1. n \in 0 .. n
    OBVIOUS
  <2>2. Writes(A, n)
    BY <2>1, WritesAre
  <2> QED  BY <2>1, <2>2, StacksAre DEF Writes
<1>2. \A i \in 0 .. n : Written(A, i) \in Nat /\ Depth(A, i) \in Nat
  BY <1>1, WrittenGrows
<1>3. \A i, j \in 0 .. n : i < j => Written(A, i) < Written(A, j)
  BY <1>1, WrittenGrows
<1>4. u \in Nat /\ d \in Nat /\ u + 1 + d + 1 = size /\ size \in Nat
  <2>1. u \in Nat /\ d \in Nat
    BY <1>2
  <2>2. u = 2 * n - d
    BY DEF Written
  <2> HIDE DEF u, d
  <2> QED  BY <2>1, <2>2
<1>5. /\ zero \in Seq(B) /\ 1 = Len(zero) /\ zero[1] = 0
      /\ one \in Seq(B) /\ 1 = Len(one) /\ one[1] = 1
  OBVIOUS
<1>6. ones \in Seq(B) /\ d = Len(ones) /\ \A i \in 1 .. d : ones[i] = 1
  <2>1. Len(s) = d /\ DOMAIN s = 1 .. d
    BY <1>1 DEF Depth
  <2>2. ones = [i \in 1 .. d |-> 1]
    BY <2>1
  <2> HIDE DEF d, ones
  <2> QED  BY <1>4, <2>2
<1>7. bits = Reverse(z)
  BY DEF Finalized
<1> HIDE DEF u, d, B, zero, one, ones, s, b, x, y, z
<1>8. /\ x \in Seq(B) /\ Len(x) = u + 1
      /\ \A i \in 1 .. u : x[i] = b[i]
      /\ \A i \in 1 .. 1 : x[u + i] = zero[i]
  <2>1. x = b \o zero /\ u = Len(b) /\ b \in Seq(B)
    BY <1>1 DEF x
  <2> DEFINE m == 1
  <2>2. m = Len(zero) /\ zero \in Seq(B)
    BY <1>5
  <2> HIDE DEF m
  <2>3. /\ x \in Seq(B) /\ Len(x) = u + m
        /\ \A i \in 1 .. u : x[i] = b[i]
        /\ \A i \in 1 .. m : x[u + i] = zero[i]
    BY ONLY <2>1, <2>2, JoinedIs
  <2> QED  BY <2>3 DEF m
<1> DEFINE v == u + 1
<1>9. /\ y \in Seq(B) /\ Len(y) = v + d
      /\ \A i \in 1 .. v : y[i] = x[i]
      /\ \A i \in 1 .. d : y[v + i] = ones[i]
  <2>1. y = x \o ones /\ v = Len(x) /\ d = Len(ones) /\ x \in Seq(B) /\ ones \in Seq(B)
    BY <1>6, <1>8 DEF y
  <2> HIDE DEF v
  <2> QED  BY ONLY <2>1, JoinedIs
<1> DEFINE w == u + 1 + d
<1>10. /\ z \in Seq(B) /\ Len(z) = w + 1
       /\ \A i \in 1 .. w : z[i] = y[i]
       /\ \A i \in 1 .. 1 : z[w + i] = one[i]
  <2> DEFINE m == 1
  <2>1. z = y \o one /\ w = Len(y) /\ m = Len(one) /\ y \in Seq(B) /\ one \in Seq(B)
    BY <1>5, <1>9 DEF z
  <2> HIDE DEF w, m
  <2>2. /\ z \in Seq(B) /\ Len(z) = w + m
        /\ \A i \in 1 .. w : z[i] = y[i]
        /\ \A i \in 1 .. m : z[w + i] = one[i]
    BY ONLY <2>1, JoinedIs
  <2> QED  BY <2>2 DEF m
<1>11. Len(z) = size
  BY <1>4, <1>10
<1>12. \A q \in 1 .. size : z[q] = IF ZeroAt(A, q, n) THEN 0 ELSE 1
  <2> TAKE q \in 1 .. size
  <2> HIDE DEF size
  <2>1. CASE q <= u
    <3>1. q \in 1 .. u /\ q \in 1 .. u + 1 /\ q \in 1 .. w
      BY <1>4, <2>1
    <3>2. z[q] = b[q]
      BY <1>8, <1>9, <1>10, <3>1
    <3>3. ZeroAt(A, q, n) <=> ZeroAt(A, q, n - 1)
      <4>1. q # Written(A, n) + 1
        BY <1>4, <2>1 DEF u
      <4>2. \A i \in 0 .. n : i = n \/ i \in 0 .. n - 1
        OBVIOUS
      <4>3. \A i \in 0 .. n - 1 : i \in 0 .. n
        OBVIOUS
      <4> QED  BY <4>1, <4>2, <4>3 DEF ZeroAt
    <3> QED  BY <1>1, <3>1, <3>2, <3>3
  <2>2. CASE q = u + 1
    <3>1. q \in 1 .. u + 1 /\ q \in 1 .. w /\ 1 \in 1 .. 1
      BY <1>4, <2>2
    <3>2. z[q] = 0
      BY <1>5, <1>8, <1>9, <1>10, <2>2, <3>1
    <3>3. n \in 0 .. n /\ q = Written(A, n) + 1
      BY <2>2 DEF u
    <3> QED  BY <3>2, <3>3 DEF ZeroAt
  <2>3. CASE q > u + 1
    <3>1. ~ZeroAt(A, q, n)
      <4> SUFFICES ASSUME NEW i \in 0 .. n PROVE q # Written(A, i) + 1
        BY DEF ZeroAt
      <4>1. n \in 0 .. n /\ (i = n \/ i < n)
        OBVIOUS
      <4>2. Written(A, i) \in Nat /\ Written(A, i) <= u
        <5>1. Written(A, i) \in Nat /\ Written(A, n) = u
          BY <1>2 DEF u
        <5>2. i < n => Written(A, i) < Written(A, n)
          BY <1>3, <4>1
        <5> QED  BY ONLY <1>4, <4>1, <5>1, <5>2
      <4> QED  BY <1>4, <2>3, <4>2
    <3>2. z[q] = 1
      <4>1. CASE q <= w
        <5> DEFINE i == q - v
        <5>1. i \in 1 .. d /\ v + i = q /\ q \in 1 .. w
          BY <1>4, <2>3, <4>1
        <5> HIDE DEF i, v, w
        <5> QED  BY <1>6, <1>9, <1>10, <5>1
      <4>2. CASE q > w
        <5>1. q = w + 1 /\ 1 \in 1 .. 1
          BY <1>4, <4>2
        <5> HIDE DEF w
        <5> QED  BY <1>5, <1>10, <5>1
      <4> QED  BY <1>4, <4>1, <4>2
    <3> QED  BY <3>1, <3>2
  <2> QED  BY <1>4, <2>1, <2>2, <2>3
<1>13. bits = [i \in 1 .. size |-> z[size - i + 1]]
  BY <1>7, <1>11 DEF Reverse
<1>14. \A i \in 1 .. size : z[i] \in B
  BY <1>12 DEF B
<1>15. /\ bits \in Seq(B) /\ Len(bits) = size
       /\ \A q \in 1 .. size : bits[size + 1 - q] = z[q]
  <2> HIDE DEF size
  <2>1. \A i \in 1 .. size : size - i + 1 \in 1 .. size
    BY <1>4
  <2>2. bits \in Seq(B) /\ Len(bits) = size
    BY <1>4, <1>13, <1>14, <2>1
  <2>3. ASSUME NEW q \in 1 .. size PROVE bits[size + 1 - q] = z[q]
    <3>1. size + 1 - q \in 1 .. size /\ size - (size + 1 - q) + 1 = q
      BY <1>4
    <3> QED  BY <1>13, <3>1
  <2> QED  BY <2>2, <2>3
<1>16. \A q \in 1 .. size : size + 1 - q = 2 * n + 3 - q
  OBVIOUS
<1> QED  BY <1>12, <1>15, <1>16 DEF B

(***************************************************************************)
(* What is written is read from its end.  Run i ends where the zero of     *)
(* value i + 1 is written, and the last one at the end.                    *)
(***************************************************************************)
RunEnd(A, n, i) == IF i <= n THEN Written(A, i) ELSE 2 * n + 2

InRun(A, n, q, i) == q <= RunEnd(A, n, i) /\ (i = 0 \/ RunEnd(A, n, i - 1) < q)

LEMMA RunEndsGrow ==
    ASSUME NEW n \in Nat, NEW values, NEW A, Stacks(A, values, n)
    PROVE  /\ \A i \in 0 .. n + 1 : RunEnd(A, n, i) \in Nat /\ RunEnd(A, n, i) <= 2 * n + 2
           /\ \A i \in 0 .. n : RunEnd(A, n, i) = Written(A, i)
           /\ RunEnd(A, n, 0) = 0 /\ RunEnd(A, n, n + 1) = 2 * n + 2
           /\ \A i, j \in 0 .. n + 1 : i < j => RunEnd(A, n, i) < RunEnd(A, n, j)
<1>1. /\ \A i \in 0 .. n : Written(A, i) \in Nat /\ Depth(A, i) \in Nat /\ Written(A, i) = 2 * i - Depth(A, i)
      /\ Written(A, 0) = 0
      /\ \A i, j \in 0 .. n : i < j => Written(A, i) < Written(A, j)
  BY WrittenGrows DEF Written
<1>2. \A i \in 0 .. n : RunEnd(A, n, i) = Written(A, i) /\ RunEnd(A, n, i) \in Nat
                            /\ RunEnd(A, n, i) < 2 * n + 2
  BY <1>1 DEF RunEnd
<1>3. RunEnd(A, n, n + 1) = 2 * n + 2
  BY DEF RunEnd
<1>4. \A i \in 0 .. n + 1 : i \in 0 .. n \/ i = n + 1
  OBVIOUS
<1>5. \A i \in 0 .. n + 1 : RunEnd(A, n, i) \in Nat /\ RunEnd(A, n, i) <= 2 * n + 2
  <2> TAKE i \in 0 .. n + 1
  <2>1. CASE i \in 0 .. n
    BY <1>2, <2>1
  <2>2. CASE i = n + 1
    BY <1>3, <2>2
  <2> QED  BY <1>4, <2>1, <2>2
<1>6. ASSUME NEW i \in 0 .. n + 1, NEW j \in 0 .. n + 1, i < j
      PROVE  RunEnd(A, n, i) < RunEnd(A, n, j)
  <2>1. i \in 0 .. n
    BY <1>6
  <2>2. CASE j \in 0 .. n
    <3>1. Written(A, i) < Written(A, j)
      BY <1>1, <1>6, <2>1, <2>2
    <3> QED  BY <1>2, <2>1, <2>2, <3>1
  <2>3. CASE j = n + 1
    BY <1>2, <1>3, <2>1, <2>3
  <2> QED  BY <1>4, <2>2, <2>3
<1>7. RunEnd(A, n, 0) = 0
  BY <1>1, <1>2
<1> QED  BY <1>2, <1>3, <1>5, <1>6, <1>7

LEMMA RunIsOne ==
    ASSUME NEW n \in Nat, NEW values, NEW A, Stacks(A, values, n), NEW q \in Int,
           NEW i \in 0 .. n + 1, InRun(A, n, q, i), NEW j \in 0 .. n + 1, InRun(A, n, q, j)
    PROVE  i = j
<1>1. /\ \A x \in 0 .. n + 1 : RunEnd(A, n, x) \in Nat
      /\ \A x, y \in 0 .. n + 1 : x < y => RunEnd(A, n, x) < RunEnd(A, n, y)
  BY RunEndsGrow
<1>2. ASSUME NEW x \in 0 .. n + 1, NEW y \in 0 .. n + 1, InRun(A, n, q, x), InRun(A, n, q, y), x < y
      PROVE  FALSE
  <2> DEFINE z == y - 1
  <2>1. z \in 0 .. n + 1 /\ y # 0 /\ (x = z \/ x < z)
    BY <1>2
  <2>2. q <= RunEnd(A, n, x) /\ RunEnd(A, n, z) < q
    BY <1>2, <2>1 DEF InRun
  <2> HIDE DEF z
  <2>3. RunEnd(A, n, x) \in Nat /\ RunEnd(A, n, z) \in Nat /\ RunEnd(A, n, x) <= RunEnd(A, n, z)
    BY <1>1, <2>1
  <2> QED  BY <2>2, <2>3
<1>3. i < j \/ j < i \/ i = j
  OBVIOUS
<1> QED  BY <1>2, <1>3

\* A position in run i has the zeros of the runs i .. n before it.
ZerosByRun(A, n, zeros) ==
    \A p \in 0 .. 2 * n + 2 :
        \E i \in 0 .. n + 1 : InRun(A, n, (2 * n + 2) - p, i) /\ zeros[p] = n + 1 - i

LEMMA ZerosReversed ==
    ASSUME NEW n \in Nat, NEW values \in Seq(Int), n = Len(values), NEW A, Builds(A, values, n),
           NEW v, v = Parens(Finalized(A[n]))
    PROVE  ZerosByRun(A, n, v.zeros)
<1> DEFINE size == 2 * n + 2
           bits == Finalized(A[n])
           S == {p \in Nat : \E i \in 0 .. n + 1 : InRun(A, n, size - p, i) /\ v.zeros[p] = n + 1 - i}
<1>1. size \in Nat /\ Stacks(A, values, n)
  BY StacksAre
<1>2. /\ bits \in Seq({0, 1}) /\ Len(bits) = size
      /\ \A q \in 1 .. size : bits[2 * n + 3 - q] = IF ZeroAt(A, q, n) THEN 0 ELSE 1
  BY FinalizedIs
<1> HIDE DEF bits
<1>3. /\ RightParens(v) /\ v.size = size
      /\ \A p \in 0 .. size - 1 : v.zeros[p + 1] = v.zeros[p] + (1 - bits[p + 1])
  <2>1. v = Parens(bits) /\ Len(bits) # 0
    BY <1>2 DEF bits
  <2> HIDE DEF size
  <2>2. /\ RightParens(Parens(bits)) /\ Parens(bits).size = Len(bits)
        /\ \A p \in 0 .. Len(bits) - 1 :
               Parens(bits).zeros[p + 1] = Parens(bits).zeros[p] + (1 - bits[p + 1])
    BY <1>2, <2>1, ParensIs
  <2> QED  BY <1>2, <2>1, <2>2
<1>4. v.zeros[0] = 0
  BY <1>3 DEF RightParens, CountsZeros
<1>5. /\ \A i \in 0 .. n + 1 : RunEnd(A, n, i) \in Nat /\ RunEnd(A, n, i) <= size
      /\ \A i \in 0 .. n : RunEnd(A, n, i) = Written(A, i)
      /\ RunEnd(A, n, 0) = 0 /\ RunEnd(A, n, n + 1) = size
      /\ \A i, j \in 0 .. n + 1 : i < j => RunEnd(A, n, i) < RunEnd(A, n, j)
  BY <1>1, RunEndsGrow
<1>6. 0 \in S
  <2>1. n + 1 \in 0 .. n + 1 /\ n + 1 - (n + 1) = 0 /\ n + 1 - 1 = n /\ n \in 0 .. n + 1 /\ size - 0 = size /\ n < n + 1
    OBVIOUS
  <2>2. InRun(A, n, size - 0, n + 1)
    BY <1>1, <1>5, <2>1 DEF InRun
  <2> HIDE DEF size
  <2> QED  BY <1>4, <2>1, <2>2
<1>7. ASSUME NEW p \in 0 .. size - 1, NEW i \in 0 .. n + 1, InRun(A, n, size - p, i), v.zeros[p] = n + 1 - i
      PROVE  \E j \in 0 .. n + 1 : InRun(A, n, size - (p + 1), j) /\ v.zeros[p + 1] = n + 1 - j
  <2> DEFINE q == size - p
             h == i - 1
  <2>1. q \in 1 .. size /\ size - (p + 1) = q - 1 /\ 2 * n + 3 - q = p + 1
    BY <1>1
  <2>2. bits[p + 1] = IF ZeroAt(A, q, n) THEN 0 ELSE 1
    <3> HIDE DEF q
    <3> QED  BY <1>2, <2>1
  <2>3. v.zeros[p + 1] = v.zeros[p] + (1 - bits[p + 1])
    BY <1>3
  <2>4. InRun(A, n, q, i)
    BY <1>7
  <2> HIDE DEF q, size
  <2>5. i # 0
    <3> SUFFICES ASSUME i = 0 PROVE FALSE
      OBVIOUS
    <3> QED  BY <1>5, <2>1, <2>4 DEF InRun
  <2>6. h \in 0 .. n /\ h \in 0 .. n + 1 /\ h + 1 = i /\ n + 1 - i + 1 = n + 1 - h
    BY <2>5
  <2>7. RunEnd(A, n, h) < q /\ q <= RunEnd(A, n, i) /\ RunEnd(A, n, h) \in Nat /\ RunEnd(A, n, i) \in Nat
    BY <1>5, <2>4, <2>5, <2>6 DEF InRun
  <2> HIDE DEF h
  <2>8. CASE RunEnd(A, n, h) < q - 1
    <3>1. InRun(A, n, q - 1, i)
      <4>1. q - 1 <= RunEnd(A, n, i)
        BY <2>1, <2>7
      <4>2. RunEnd(A, n, i - 1) < q - 1
        <5>1. i - 1 = h
          BY <2>6
        <5> QED  BY <5>1, <2>8
      <4> QED  BY <4>1, <4>2 DEF InRun
    <3>2. ~ZeroAt(A, q, n)
      <4> SUFFICES ASSUME NEW x \in 0 .. n, q = Written(A, x) + 1 PROVE FALSE
        BY DEF ZeroAt
      <4>1. x \in 0 .. n + 1 /\ (x <= h \/ i <= x)
        BY <2>6
      <4> DEFINE ex == RunEnd(A, n, x)
                 eh == RunEnd(A, n, h)
                 ei == RunEnd(A, n, i)
      <4>5. eh < q /\ q <= ei /\ eh \in Nat /\ ei \in Nat /\ eh < q - 1 /\ q \in Int
        BY <2>1, <2>7, <2>8
      <4>2. RunEnd(A, n, x) = q - 1 /\ RunEnd(A, n, x) \in Nat
        <5>1. RunEnd(A, n, x) = Written(A, x) /\ RunEnd(A, n, x) \in Nat
          BY <1>5, <4>1
        <5> QED  BY <5>1
      <4>3. CASE x <= h
        <5>1. x = h \/ RunEnd(A, n, x) < RunEnd(A, n, h)
          BY <1>5, <2>6, <4>1, <4>3
        <5>2. (ex = eh \/ ex < eh) /\ ex = q - 1 /\ ex \in Nat
          BY <4>2, <5>1
        <5> HIDE DEF ex, eh, ei
        <5> QED  BY ONLY <4>5, <5>2
      <4>4. CASE i <= x
        <5>1. x = i \/ RunEnd(A, n, i) < RunEnd(A, n, x)
          BY <1>5, <4>1, <4>4
        <5>2. (ex = ei \/ ei < ex) /\ ex = q - 1 /\ ex \in Nat
          BY <4>2, <5>1
        <5> HIDE DEF ex, eh, ei
        <5> QED  BY ONLY <4>5, <5>2
      <4> QED  BY <4>1, <4>3, <4>4
    <3>3. v.zeros[p + 1] = n + 1 - i
      BY <1>7, <2>2, <2>3, <3>2
    <3> QED  BY <2>1, <3>1, <3>3
  <2>9. CASE ~(RunEnd(A, n, h) < q - 1)
    <3>1. RunEnd(A, n, h) = q - 1
      BY <2>1, <2>7, <2>9
    <3>2. InRun(A, n, q - 1, h)
      <4>1. h # 0 => RunEnd(A, n, h - 1) < RunEnd(A, n, h)
        <5>1. h # 0 => h - 1 \in 0 .. n + 1 /\ h - 1 < h
          BY <2>6
        <5> QED  BY <1>5, <2>6, <5>1
      <4> QED  BY <2>1, <2>7, <3>1, <4>1 DEF InRun
    <3>3. ZeroAt(A, q, n)
      <4>1. q = Written(A, h) + 1
        <5>1. RunEnd(A, n, h) = Written(A, h)
          BY <1>5, <2>6
        <5> QED  BY <2>1, <3>1, <5>1
      <4> QED  BY <2>6, <4>1 DEF ZeroAt
    <3>4. v.zeros[p + 1] = n + 1 - h
      BY <1>7, <2>2, <2>3, <2>6, <3>3
    <3> QED  BY <2>1, <2>6, <3>2, <3>4
  <2> QED  BY <2>8, <2>9
<1>8. \A p \in 0 .. size - 1 : p \in S => p + 1 \in S
  <2> TAKE p \in 0 .. size - 1
  <2> SUFFICES ASSUME p \in S PROVE p + 1 \in S
    OBVIOUS
  <2>1. p + 1 \in Nat
    BY <1>1
  <2> QED  BY <1>7, <2>1
<1>9. \A p \in 0 .. size : p \in S
  <2> HIDE DEF S, size
  <2> QED  BY <1>1, <1>6, <1>8, NumbersUpTo
<1>10. \A p \in 0 .. size : \E i \in 0 .. n + 1 : InRun(A, n, size - p, i) /\ v.zeros[p] = n + 1 - i
  <2> HIDE DEF size
  <2> QED  BY <1>9
<1> HIDE DEF S
<1> QED  BY <1>10, Zenon DEF ZerosByRun

\* How the tree of n values is read: the zeros, and the excess in a run.
ReadsRuns(A, n, v) ==
    /\ \A i \in 0 .. n : Select0(v, n - i) = (2 * n + 2) - (Written(A, i) + 1)
    /\ \A p \in 0 .. 2 * n + 2 : \E i \in 0 .. n + 1 : InRun(A, n, (2 * n + 2) - p, i)
    /\ \A p \in 0 .. 2 * n + 2 : \A i \in 0 .. n + 1 :
           InRun(A, n, (2 * n + 2) - p, i) => Excess(v, p) = 2 * i - ((2 * n + 2) - p)

LEMMA TreeReads ==
    ASSUME NEW n \in Nat, NEW values \in Seq(Int), n = Len(values), NEW A, Builds(A, values, n),
           NEW v, v = Parens(Finalized(A[n]))
    PROVE  RightParens(v) /\ v.size = 2 * n + 2 /\ ReadsRuns(A, n, v)
<1> DEFINE size == 2 * n + 2
<1>1. size \in Nat /\ Stacks(A, values, n) /\ size = 2 * (n + 1)
  BY StacksAre
<1>2. RightParens(v) /\ v.size = size
  <2> DEFINE bits == Finalized(A[n])
  <2>1. bits \in Seq({0, 1}) /\ Len(bits) = size
    BY FinalizedIs
  <2>2. v = Parens(bits) /\ Len(bits) # 0
    BY <2>1
  <2> HIDE DEF size, bits
  <2>3. RightParens(Parens(bits)) /\ Parens(bits).size = Len(bits)
    BY <2>1, <2>2, ParensIs
  <2> QED  BY <2>1, <2>2, <2>3
<1>3. \A p \in 0 .. size : \E i \in 0 .. n + 1 : InRun(A, n, size - p, i) /\ v.zeros[p] = n + 1 - i
  <2>1. ZerosByRun(A, n, v.zeros)
    BY ZerosReversed
  <2> QED  BY <2>1, Zenon DEF ZerosByRun
<1>4. /\ \A i \in 0 .. n + 1 : RunEnd(A, n, i) \in Nat /\ RunEnd(A, n, i) <= size
      /\ \A i \in 0 .. n : RunEnd(A, n, i) = Written(A, i)
      /\ RunEnd(A, n, n + 1) = size
      /\ \A i, j \in 0 .. n + 1 : i < j => RunEnd(A, n, i) < RunEnd(A, n, j)
  BY <1>1, RunEndsGrow
<1> HIDE DEF size
<1>5. ASSUME NEW p \in 0 .. size, NEW i \in 0 .. n + 1, InRun(A, n, size - p, i)
      PROVE  v.zeros[p] = n + 1 - i
  <2>1. PICK j \in 0 .. n + 1 : InRun(A, n, size - p, j) /\ v.zeros[p] = n + 1 - j
    BY <1>3
  <2> DEFINE q == size - p
  <2>2. q \in Int /\ InRun(A, n, q, i) /\ InRun(A, n, q, j)
    BY <1>1, <1>5, <2>1
  <2> HIDE DEF q
  <2>3. i = j
    BY <1>1, <2>2, RunIsOne
  <2> QED  BY <2>1, <2>3
<1>6. ASSUME NEW p \in 0 .. size, NEW i \in 0 .. n + 1, InRun(A, n, size - p, i)
      PROVE  Excess(v, p) = 2 * i - (size - p)
  <2>1. v.zeros[p] = n + 1 - i /\ Excess(v, p) = p - 2 * v.zeros[p]
    BY <1>5, <1>6 DEF Excess, Rank0
  <2> QED  BY <1>1, <2>1
<1>7. ASSUME NEW i \in 0 .. n
      PROVE  Select0(v, n - i) = size - (Written(A, i) + 1)
  <2> DEFINE c == Written(A, i)
             p == size - (c + 1)
             j == i + 1
  <2>1. i \in 0 .. n + 1 /\ j \in 0 .. n + 1 /\ i < j /\ j - 1 = i /\ j # 0 /\ n + 1 - j = n - i /\ n + 1 - i = (n - i) + 1
    OBVIOUS
  <2> HIDE DEF j
  <2>2. c \in Nat /\ RunEnd(A, n, i) = c /\ RunEnd(A, n, j) \in Nat /\ c < RunEnd(A, n, j) /\ RunEnd(A, n, j) <= size
    <3>1. RunEnd(A, n, i) = c /\ RunEnd(A, n, i) < RunEnd(A, n, j)
      BY <1>4, <2>1
    <3>2. RunEnd(A, n, i) \in Nat /\ RunEnd(A, n, j) \in Nat /\ RunEnd(A, n, j) <= size
      BY <1>4, <2>1
    <3> QED  BY <3>1, <3>2
  <2> HIDE DEF c
  <2>3. p \in 0 .. size - 1 /\ p \in 0 .. size /\ p + 1 \in 0 .. size /\ size - p = c + 1 /\ size - (p + 1) = c
    BY <1>1, <2>2
  <2> HIDE DEF p
  <2>4. InRun(A, n, c + 1, j)
    <3>1. c + 1 <= RunEnd(A, n, j) /\ RunEnd(A, n, j - 1) < c + 1
      BY <2>1, <2>2
    <3> QED  BY <3>1 DEF InRun
  <2>5. InRun(A, n, c, i)
    <3>1. c <= RunEnd(A, n, i)
      BY <2>2
    <3>2. i # 0 => RunEnd(A, n, i - 1) < RunEnd(A, n, i)
      <4>1. i # 0 => i - 1 \in 0 .. n + 1 /\ i - 1 < i
        OBVIOUS
      <4> QED  BY <1>4, <2>1, <4>1
    <3> QED  BY <2>2, <3>1, <3>2 DEF InRun
  <2>6. v.zeros[p] = n - i
    BY <1>5, <2>1, <2>3, <2>4
  <2> DEFINE x == p + 1
  <2>9. x \in 0 .. size /\ size - x = c
    BY <2>3
  <2> HIDE DEF x
  <2>7. v.zeros[x] = (n - i) + 1
    BY <1>5, <2>1, <2>9, <2>5
  <2>8. v.zeros[p + 1] = v.zeros[p] + 1
    BY <2>6, <2>7 DEF x
  <2>10. Select0(v, v.zeros[p]) = p
    <3>1. /\ v.size \in Nat /\ CountsZeros(v.zeros, v.size) /\ v.hints = HintsOf(v.zeros, v.size)
          /\ p \in 0 .. v.size - 1
      BY <1>2, <2>3 DEF RightParens
    <3> QED  BY <2>8, <3>1, SelectFinds
  <2> QED  BY <2>6, <2>10 DEF p, c
<1>8. \A p \in 0 .. size : \E i \in 0 .. n + 1 : InRun(A, n, size - p, i)
  BY <1>3
<1>9. \A p \in 0 .. size : \A i \in 0 .. n + 1 : InRun(A, n, size - p, i) => Excess(v, p) = 2 * i - (size - p)
  BY <1>6
<1> QED  BY <1>2, <1>7, <1>8, <1>9 DEF size, ReadsRuns

LEMMA HalfOfTwice ==
    ASSUME NEW x \in Int
    PROVE  (2 * x) \div 2 = x
OBVIOUS

LEMMA RmqIs ==
    ASSUME NEW n \in Nat, NEW values \in Seq(Int), n = Len(values), NEW A, Builds(A, values, n),
           NEW v, v = Parens(Finalized(A[n])),
           NEW b \in 0 .. n - 1, NEW a \in 0 .. b
    PROVE  AtLeftmost(values, Rmq(v, a, b) + 1, a + 1, b + 1) /\ Rmq(v, a, b) \in Int
<1> DEFINE size == 2 * n + 2
           c(i) == Written(A, i)
           d(i) == Depth(A, i)
           P(i) == size - (c(i) + 1)
           t == Select0(v, n - b - 1)
           excT == t - 2 * (n - b - 1)
           w == ExcessRmq(v, Select0(v, n - b), Select0(v, n - a))
           excW == Excess(v, w)
           rank0W == (w - excW) \div 2
           E == ExcessOf(v)
<1>1. /\ Stacks(A, values, n) /\ RightParens(v) /\ v.size = size
      /\ \A i \in 0 .. n : Select0(v, n - i) = P(i)
      /\ \A p \in 0 .. size : \E i \in 0 .. n + 1 : InRun(A, n, size - p, i)
      /\ \A p \in 0 .. size : \A i \in 0 .. n + 1 :
             InRun(A, n, size - p, i) => Excess(v, p) = 2 * i - (size - p)
  <2>1. Stacks(A, values, n)
    BY StacksAre
  <2>2. RightParens(v) /\ v.size = 2 * n + 2 /\ ReadsRuns(A, n, v)
    BY TreeReads
  <2> QED  BY <2>1, <2>2, Zenon DEF ReadsRuns
<1>2. NumValues(v) = n
  <2>1. v.size = 2 * (n + 1) /\ n + 1 \in Int
    BY <1>1
  <2> DEFINE x == n + 1
  <2>2. v.size = 2 * x /\ x \in Int /\ x - 1 = n
    BY <2>1
  <2> HIDE DEF x
  <2>3. v.size \div 2 = x
    BY <2>2, HalfOfTwice
  <2> QED  BY <2>2, <2>3 DEF NumValues
<1>3. Rmq(v, a, b) = IF a = b THEN a ELSE IF excW >= excT - 1 THEN b ELSE n - rank0W
  BY <1>2 DEF Rmq
<1>4. /\ \A i \in 0 .. n + 1 : RunEnd(A, n, i) \in Nat /\ RunEnd(A, n, i) <= size
      /\ \A i \in 0 .. n : RunEnd(A, n, i) = c(i)
      /\ \A i, j \in 0 .. n + 1 : i < j => RunEnd(A, n, i) < RunEnd(A, n, j)
  BY <1>1, RunEndsGrow
<1>5. \A i \in 0 .. n : c(i) \in Nat /\ d(i) \in Nat /\ c(i) = 2 * i - d(i)
  BY <1>1, WrittenGrows DEF Written
<1>6. \A i, j \in 0 .. n : i < j => c(i) < c(j)
  BY <1>1, WrittenGrows
<1>7. CASE a = b
  <2>1. Rmq(v, a, b) = a /\ a \in Int
    BY <1>3, <1>7
  <2> QED  BY <1>3, <1>7, <2>1, LeftmostOfOne
<1>8. CASE a # b
  <2> DEFINE last == b + 1
             from == P(b)
             to == P(a)
  <2>1. a \in 0 .. n /\ b \in 0 .. n /\ last \in 0 .. n /\ a < b /\ n - b - 1 = n - last /\ last \in Nat /\ last = b + 1
    BY <1>8
  <2> HIDE DEF c, d, size, E, last
  <2>2. t = P(last) /\ Select0(v, n - b) = from /\ Select0(v, n - a) = to
    BY <1>1, <2>1
  <2>3. /\ c(a) \in Nat /\ c(b) \in Nat /\ c(last) \in Nat /\ c(a) < c(b) /\ c(b) < c(last) /\ c(last) <= size
        /\ size \in Nat
    <3>1. c(a) \in Nat /\ c(b) \in Nat /\ c(last) \in Nat
      BY <1>5, <2>1
    <3>2. c(a) < c(b)
      BY <1>6, <2>1
    <3>3. c(b) < c(last)
      BY <1>6, <2>1
    <3>4. c(last) <= size
      <4>1. last \in 0 .. n + 1
        BY <2>1
      <4> QED  BY <1>4, <2>1, <4>1
    <3>5. size \in Nat
      BY DEF size
    <3> QED  BY <3>1, <3>2, <3>3, <3>4, <3>5
  <2>4. from \in Nat /\ to \in Nat /\ from < to /\ from <= to /\ to <= v.size /\ to <= size
    <3> DEFINE x == c(a)
               y == c(b)
               z == c(last)
    <3>1. /\ from = size - (y + 1) /\ to = size - (x + 1) /\ x \in Nat /\ y \in Nat /\ z \in Nat
          /\ x < y /\ y < z /\ z <= size /\ size \in Nat
      BY <2>3
    <3> HIDE DEF x, y, z, from, to
    <3>2. from \in Nat /\ to \in Nat /\ from < to /\ from <= to /\ to <= size
      BY ONLY <3>1
    <3> QED  BY <1>1, <3>2
  <2>5. AtLeftmost(E, w, from, to)
    <3>1. w = ExcessRmq(v, from, to)
      BY <2>2
    <3> HIDE DEF w, from, to
    <3> QED  BY <1>1, <2>4, <3>1, ExcessRmqIs DEF E
  <2>6. excT - 1 = d(last)
    <3>1. t = size - (c(last) + 1) /\ c(last) = 2 * last - d(last) /\ d(last) \in Nat
      BY <1>5, <2>1, <2>2
    <3> HIDE DEF t
    <3>2. excT = t - 2 * (n - last)
      BY <2>1
    <3> HIDE DEF excT
    <3> DEFINE x == c(last)
               y == d(last)
    <3>3. /\ t = size - (x + 1) /\ x = 2 * last - y /\ y \in Int /\ excT = t - 2 * (n - last)
          /\ last \in Int /\ n \in Int /\ size = 2 * n + 2
      BY <2>1, <3>1, <3>2 DEF size
    <3> HIDE DEF x, y
    <3>4. excT - 1 = y
      BY ONLY <3>3
    <3> QED  BY <3>4 DEF y
  <2>7. \A p \in from .. to : E[p] = Excess(v, p) /\ E[p] \in Int
    <3>1. v.size \in Nat /\ CountsZeros(v.zeros, v.size)
      BY <1>1 DEF RightParens
    <3> HIDE DEF from, to
    <3>2. \A p \in from .. to : p \in 0 .. v.size
      BY <2>4, <3>1
    <3> QED  BY <3>1, <3>2, ExcessIs DEF E
  <2>8. ASSUME NEW p \in from .. to
        PROVE  \E i \in a + 1 .. last : /\ i \in 0 .. n /\ i \in Nat
                                        /\ size - p <= c(i) /\ size - p \in Int
                                        /\ E[p] = d(i) + (c(i) - (size - p))
                                        /\ d(i) \in Nat /\ c(i) \in Nat
    <3> DEFINE q == size - p
    <3>1. q \in c(a) + 1 .. c(b) + 1 /\ p \in 0 .. size /\ p \in Int
      <4> DEFINE ca == c(a)
                 cb == c(b)
      <4>1. /\ from = size - (cb + 1) /\ to = size - (ca + 1) /\ from \in Nat /\ to <= size
            /\ ca \in Nat /\ cb \in Nat /\ to \in Nat /\ size \in Nat /\ p \in from .. to
            /\ q = size - p
        BY <2>3, <2>4
      <4> HIDE DEF from, to, ca, cb, q
      <4>2. q \in ca + 1 .. cb + 1 /\ p \in 0 .. size /\ p \in Int
        BY ONLY <4>1
      <4> QED  BY <4>2 DEF ca, cb
    <3> HIDE DEF from, to
    <3>2. PICK i \in 0 .. n + 1 : InRun(A, n, q, i)
      BY <1>1, <3>1
    <3>3. Excess(v, p) = 2 * i - q
      BY <1>1, <3>1, <3>2
    <3> HIDE DEF q
    <3>4. a < i
      <4> SUFFICES ASSUME i <= a PROVE FALSE
        BY <2>1
      <4>1. RunEnd(A, n, i) <= RunEnd(A, n, a)
        <5>1. i = a \/ i < a
          BY <2>1
        <5>2. a \in 0 .. n + 1 /\ RunEnd(A, n, a) \in Nat
          BY <1>4, <2>1
        <5> QED  BY <1>4, <5>1, <5>2
      <4>2. RunEnd(A, n, a) = c(a) /\ q <= RunEnd(A, n, i) /\ RunEnd(A, n, i) \in Nat
        BY <1>4, <2>1, <3>2 DEF InRun
      <4> DEFINE ca == c(a)
                 cb == c(b)
                 ei == RunEnd(A, n, i)
      <4>3. /\ ei <= ca /\ q <= ei /\ ei \in Nat /\ ca \in Nat /\ cb \in Nat
            /\ q \in ca + 1 .. cb + 1
        BY <2>3, <3>1, <4>1, <4>2
      <4> HIDE DEF ca, cb, ei
      <4> QED  BY ONLY <4>3
    <3>5. i <= last
      <4> SUFFICES ASSUME last < i PROVE FALSE
        BY <2>1
      <4> DEFINE h == i - 1
      <4>1. h \in 0 .. n + 1 /\ (last = h \/ last < h) /\ i # 0 /\ last \in 0 .. n + 1
        BY <2>1
      <4>2. RunEnd(A, n, h) < q
        BY <3>2, <4>1 DEF InRun
      <4> HIDE DEF h
      <4>3. RunEnd(A, n, last) <= RunEnd(A, n, h) /\ RunEnd(A, n, h) \in Nat /\ RunEnd(A, n, last) = c(last)
        <5>1. RunEnd(A, n, h) \in Nat /\ RunEnd(A, n, last) = c(last) /\ RunEnd(A, n, last) \in Nat
          BY <1>4, <2>1, <4>1
        <5>2. last < h => RunEnd(A, n, last) < RunEnd(A, n, h)
          BY <1>4, <4>1
        <5> QED  BY <4>1, <5>1, <5>2
      <4> DEFINE ca == c(a)
                 cb == c(b)
                 cl == c(last)
                 eh == RunEnd(A, n, h)
      <4>4. /\ eh < q /\ cl <= eh /\ eh \in Nat /\ cl \in Nat /\ ca \in Nat /\ cb \in Nat
            /\ cb < cl /\ q \in ca + 1 .. cb + 1
        BY <2>3, <3>1, <4>2, <4>3
      <4> HIDE DEF ca, cb, cl, eh
      <4> QED  BY ONLY <4>4
    <3>6. i \in 0 .. n /\ i \in a + 1 .. last /\ i \in Nat
      BY <2>1, <3>4, <3>5
    <3>7. c(i) = 2 * i - d(i) /\ c(i) \in Nat /\ d(i) \in Nat
      BY <1>5, <3>6
    <3>8. q <= c(i)
      BY <1>4, <3>2, <3>6 DEF InRun
    <3>9. E[p] = 2 * i - q
      BY <2>7, <3>3
    <3>10. E[p] = d(i) + (c(i) - q)
      BY <3>1, <3>6, <3>7, <3>9
    <3> QED  BY <3>1, <3>6, <3>7, <3>8, <3>10 DEF q
  <2> DEFINE lo == a + 1
  <2>9. lo \in Nat /\ lo <= last /\ lo \in 1 .. n /\ last \in 1 .. n
    BY <2>1
  <2>10. \A q \in lo .. last : values[q] \in Int
    BY <2>1
  <2>11. PICK m : AtLeftmost(values, m, lo, last)
    <3> HIDE DEF lo
    <3>1. lo \in Int /\ last \in Int
      BY <2>1, <2>9
    <3> QED  BY ONLY <2>9, <2>10, <3>1, LeftmostThere
  <2> HIDE DEF lo
  <2>12. m \in lo .. last /\ m \in 1 .. n /\ m \in 0 .. n /\ m \in Nat
    <3>1. m \in lo .. last
      BY <2>11 DEF AtLeftmost
    <3> QED  BY <2>9, <3>1
  <2>13. \A j \in m + 1 .. last : d(m) < d(j)
    <3>1. \A j \in m .. last : values[m] <= values[j]
      <4> TAKE j \in m .. last
      <4>1. j \in lo .. last
        BY <2>9, <2>12
      <4>2. values[m] \in Int /\ values[j] \in Int
        BY <2>10, <2>12, <4>1
      <4>3. values[m] < values[j] \/ values[m] = values[j]
        BY <2>11, <4>1 DEF AtLeftmost
      <4> QED  BY <4>2, <4>3
    <3>2. last \in m .. n
      BY <2>9, <2>12
    <3> QED  BY <1>1, <2>12, <3>1, <3>2, DeeperAfter DEF d
  <2>14. \A j \in lo .. m : d(m) <= d(j)
    <3>1. \A j \in lo .. m - 1 : values[m] < values[j]
      <4> TAKE j \in lo .. m - 1
      <4>1. j \in lo .. last /\ ~(m <= j)
        BY <2>9, <2>12
      <4> QED  BY <2>11, <4>1 DEF AtLeftmost
    <3>2. lo \in 1 .. m
      BY <2>9, <2>12
    <3> QED  BY <1>1, <2>12, <3>1, <3>2, DeeperBefore DEF d
  <2>15. w \in from .. to
    BY <2>5 DEF AtLeftmost
  <2>16. Rmq(v, a, b) = IF excW >= d(last) THEN b ELSE n - rank0W
    BY <1>3, <1>8, <2>6
  <2>17. CASE m = last
    <3>1. PICK i \in a + 1 .. last : /\ size - w <= c(i) /\ size - w \in Int
                                     /\ E[w] = d(i) + (c(i) - (size - w))
                                     /\ d(i) \in Nat /\ c(i) \in Nat
      BY <2>8, <2>15
    <3>2. d(last) <= d(i)
      BY <2>14, <2>17, <3>1 DEF lo
    <3>3. excW = E[w]
      BY <2>7, <2>15
    <3>4. d(last) \in Nat
      BY <1>5, <2>1
    <3> DEFINE q == size - w
    <3>5. q <= c(i) /\ q \in Int /\ excW = d(i) + (c(i) - q)
      <4> HIDE DEF excW, w
      <4> QED  BY ONLY <3>1, <3>3 DEF q
    <3> HIDE DEF excW, q
    <3>6. excW >= d(last)
      <4> DEFINE ci == c(i)
                 di == d(i)
                 dl == d(last)
      <4>1. /\ q <= ci /\ q \in Int /\ excW = di + (ci - q) /\ di \in Nat /\ ci \in Nat
            /\ dl <= di /\ dl \in Nat
        BY <3>1, <3>2, <3>4, <3>5
      <4> HIDE DEF ci, di, dl
      <4>2. excW >= dl
        BY ONLY <4>1
      <4> QED  BY <4>2 DEF dl
    <3>7. Rmq(v, a, b) + 1 = m /\ Rmq(v, a, b) \in Int
      BY <2>1, <2>16, <2>17, <3>6
    <3> QED  BY <2>11, <3>7 DEF lo, last
  <2>18. CASE m # last
    <3> DEFINE x == size - c(m)
    <3>1. m <= b /\ a < m
      BY <2>1, <2>12, <2>18 DEF lo
    <3>2. c(m) \in Nat /\ d(m) \in Nat /\ c(m) = 2 * m - d(m) /\ c(a) < c(m) /\ c(m) <= c(b)
      <4>1. c(m) \in Nat /\ d(m) \in Nat /\ c(m) = 2 * m - d(m)
        BY <1>5, <2>12
      <4>2. c(a) < c(m)
        BY <1>6, <2>1, <2>12, <3>1
      <4>3. m = b \/ c(m) < c(b)
        BY <1>6, <2>1, <2>12, <3>1
      <4> QED  BY <2>3, <4>1, <4>2, <4>3
    <3>3. x \in from .. to /\ x \in 0 .. size /\ size - x = c(m) /\ x \in Int
      <4> DEFINE y == c(m)
                 ca == c(a)
                 cb == c(b)
      <4>1. /\ x = size - y /\ from = size - (cb + 1) /\ to = size - (ca + 1) /\ size \in Nat
            /\ y \in Nat /\ ca \in Nat /\ cb \in Nat /\ ca < y /\ y <= cb /\ cb < size
        <5>1. c(b) < c(last) /\ c(last) <= size /\ c(b) \in Nat /\ c(last) \in Nat /\ size \in Nat
          BY <2>3
        <5>2. c(b) < size
          BY ONLY <5>1
        <5> QED  BY <2>3, <3>2, <5>2
      <4> HIDE DEF x, y, ca, cb, from, to
      <4>2. x \in from .. to /\ x \in 0 .. size /\ size - x = y /\ x \in Int
        BY ONLY <4>1
      <4> QED  BY <4>2 DEF y
    <3> HIDE DEF x, from, to
    <3>4. E[x] = d(m)
      <4>1. InRun(A, n, c(m), m)
        <5>1. RunEnd(A, n, m) = c(m) /\ c(m) <= c(m)
          BY <1>4, <2>12, <3>2
        <5>2. RunEnd(A, n, m - 1) < RunEnd(A, n, m)
          <6>1. m - 1 \in 0 .. n + 1 /\ m \in 0 .. n + 1 /\ m - 1 < m
            BY <2>12
          <6> QED  BY <1>4, <6>1
        <5> QED  BY <5>1, <5>2 DEF InRun
      <4>2. m \in 0 .. n + 1
        BY <2>12
      <4>3. Excess(v, x) = 2 * m - c(m)
        BY <1>1, <3>3, <4>1, <4>2
      <4>4. E[x] = 2 * m - c(m)
        BY <2>7, <3>3, <4>3
      <4> QED  BY <2>12, <3>2, <4>4
    <3>5. \A p \in from .. to : E[x] < E[p] \/ (E[x] = E[p] /\ x <= p)
      <4> TAKE p \in from .. to
      <4> DEFINE q == size - p
      <4>1. PICK i \in a + 1 .. last : /\ i \in 0 .. n /\ i \in Nat
                                       /\ q <= c(i) /\ q \in Int
                                       /\ E[p] = d(i) + (c(i) - q)
                                       /\ d(i) \in Nat /\ c(i) \in Nat
        BY <2>8
      <4>2. p \in Int /\ p = size - q
        BY <2>3, <2>4
      <4> HIDE DEF q
      <4> DEFINE ci == c(i)
                 di == d(i)
                 cm == c(m)
                 dm == d(m)
                 ex == E[x]
                 ep == E[p]
      <4>5. /\ q <= ci /\ q \in Int /\ ep = di + (ci - q) /\ di \in Nat /\ ci \in Nat
            /\ cm \in Nat /\ dm \in Nat /\ ex = dm
            /\ size \in Nat /\ size - x = cm /\ x \in Int /\ p \in Int /\ p = size - q
        BY <2>3, <3>2, <3>3, <3>4, <4>1, <4>2
      <4>3. CASE m < i
        <5>1. d(m) < d(i)
          <6>1. i \in m + 1 .. last
            BY <2>1, <2>12, <4>1, <4>3
          <6> QED  BY <2>13, <6>1
        <5>2. dm < di
          BY <5>1
        <5> HIDE DEF ci, di, cm, dm, ex, ep
        <5>3. ex < ep
          BY ONLY <4>5, <5>2
        <5> QED  BY <5>3 DEF ex, ep
      <4>4. CASE i <= m
        <5>1. d(m) <= d(i)
          <6>1. i \in lo .. m
            BY <2>1, <2>12, <4>1, <4>4 DEF lo
          <6> QED  BY <2>14, <6>1
        <5>2. (ci = cm \/ ci < cm) /\ dm <= di
          <6>1. i = m \/ c(i) < c(m)
            BY <1>6, <2>12, <4>1, <4>4
          <6> QED  BY <5>1, <6>1
        <5> HIDE DEF ci, di, cm, dm, ex, ep
        <5>3. ex < ep \/ (ex = ep /\ x <= p)
          BY ONLY <4>5, <5>2
        <5> QED  BY <5>3 DEF ex, ep
      <4> QED  BY <2>12, <4>1, <4>3, <4>4
    <3>6. AtLeftmost(E, x, from, to)
      BY <3>3, <3>5 DEF AtLeftmost
    <3>7. w = x
      <4> HIDE DEF w
      <4>1. from \in Int /\ to \in Int /\ \A p \in from .. to : E[p] \in Int
        BY <2>4, <2>7
      <4> QED  BY ONLY <2>5, <3>6, <4>1, LeftmostUnique
    <3>8. excW = d(m)
      BY <2>7, <2>15, <3>4, <3>7
    <3>9. d(m) < d(last) /\ d(last) \in Nat
      <4>1. last \in m + 1 .. last
        BY <2>1, <2>12, <2>18
      <4> QED  BY <1>5, <2>1, <2>13, <4>1
    <3>10. ~(excW >= d(last))
      BY <3>2, <3>8, <3>9
    <3>11. rank0W = (n + 1) - m
      <4> DEFINE y == (n + 1) - m
      <4>1. y \in Int /\ x - d(m) = 2 * y
        <5>1. x = size - c(m)
          BY DEF x
        <5> QED  BY <2>12, <3>2, <5>1 DEF size
      <4>2. w - excW = 2 * y
        BY <3>7, <3>8, <4>1
      <4> HIDE DEF y
      <4>3. (2 * y) \div 2 = y
        BY <4>1, HalfOfTwice
      <4> QED  BY <4>2, <4>3 DEF y
    <3> HIDE DEF excW, rank0W
    <3>12. Rmq(v, a, b) + 1 = m /\ Rmq(v, a, b) \in Int
      BY <2>12, <2>16, <3>10, <3>11
    <3> QED  BY <2>11, <3>12 DEF lo, last
  <2> QED  BY <2>17, <2>18
<1> QED  BY <1>7, <1>8

LEMMA TreeOfIs ==
    ASSUME NEW values \in Seq(Int), NEW n, n = Len(values)
    PROVE  \E A : Builds(A, values, n) /\ TreeOf(values) = Parens(Finalized(A[n]))
<1> DEFINE A == CHOOSE F : Builds(F, values, n)
<1>1. n \in Nat
  OBVIOUS
<1>2. Builds(A, values, n)
  BY <1>1, BuildsExist
<1>3. TreeOf(values) = Parens(Finalized(A[n]))
  BY Zenon DEF TreeOf, Builds
<1> HIDE DEF A
<1> QED  BY <1>2, <1>3

LEMMA TreeFindsLeftmost ==
    ASSUME NEW values \in Seq(Int)
    PROVE  FindsLeftmost(values)
<1> DEFINE n == Len(values)
           tree == TreeOf(values)
<1>1. n \in Nat
  OBVIOUS
<1>2. PICK A : Builds(A, values, n) /\ tree = Parens(Finalized(A[n]))
  BY TreeOfIs
<1> HIDE DEF n, tree
<1>3. n = Len(values)
  BY DEF n
<1>4. RightParens(tree) /\ tree.size \in Nat /\ CountsZeros(tree.zeros, tree.size)
  <2>1. RightParens(tree)
    BY <1>1, <1>2, <1>3, TreeReads
  <2> QED  BY <2>1 DEF RightParens
<1>5. ASSUME NEW b \in 0 .. n - 1, NEW a \in 0 .. b
      PROVE  \A p \in {Rmq(tree, a, b)} :
                 /\ p \in a .. b
                 /\ \A q \in a .. b :
                        values[p + 1] < values[q + 1]
                            \/ (values[p + 1] = values[q + 1] /\ p <= q)
  <2> TAKE p \in {Rmq(tree, a, b)}
  <2>1. AtLeftmost(values, Rmq(tree, a, b) + 1, a + 1, b + 1) /\ Rmq(tree, a, b) \in Int
    BY <1>1, <1>2, <1>3, RmqIs
  <2> DEFINE r == p + 1
  <2>2. AtLeftmost(values, r, a + 1, b + 1) /\ r = p + 1 /\ p \in Int
    BY <2>1
  <2> HIDE DEF r
  <2>3. r \in a + 1 .. b + 1
    BY <2>2 DEF AtLeftmost
  <2>4. p = r - 1 /\ p \in a .. b
    <3>1. a \in Int /\ b \in Int
      OBVIOUS
    <3> QED  BY <2>2, <2>3, <3>1
  <2>5. ASSUME NEW q \in a .. b
        PROVE  values[r] < values[q + 1] \/ (values[r] = values[q + 1] /\ p <= q)
    <3> DEFINE x == q + 1
    <3>1. x \in a + 1 .. b + 1 /\ (r <= x => p <= q)
      BY <2>3, <2>4
    <3> HIDE DEF x
    <3>2. values[r] < values[x] \/ (values[r] = values[x] /\ r <= x)
      BY <2>2, <3>1 DEF AtLeftmost
    <3> QED  BY <3>1, <3>2 DEF x
  <2> QED  BY <2>4, <2>5 DEF r
<1>6. ASSUME NEW b \in 0 .. tree.size, NEW a \in 0 .. b
      PROVE  \A p \in {ExcessRmq(tree, a, b)} :
                 /\ p \in a .. b
                 /\ \A q \in a .. b :
                        Excess(tree, p) < Excess(tree, q)
                            \/ (Excess(tree, p) = Excess(tree, q) /\ p <= q)
  <2> TAKE p \in {ExcessRmq(tree, a, b)}
  <2> DEFINE E == ExcessOf(tree)
  <2>1. AtLeftmost(E, p, a, b)
    <3>1. a \in Nat /\ b \in Nat /\ a <= b /\ b <= tree.size
      BY <1>4
    <3> QED  BY <1>4, <3>1, ExcessRmqIs
  <2>2. \A q \in a .. b : E[q] = Excess(tree, q)
    <3>1. \A q \in a .. b : q \in 0 .. tree.size
      BY <1>4
    <3> HIDE DEF E
    <3> QED  BY <1>4, <3>1, ExcessIs DEF E
  <2> HIDE DEF E
  <2> QED  BY <2>1, <2>2 DEF AtLeftmost
<1> QED  BY <1>5, <1>6, <1>3 DEF FindsLeftmost, tree

-----------------------------------------------------------------------------
(***************************************************************************)
(* The inductive invariant of the loop.  A position is covered if it is in *)
(* a range of the queue.  The ranges of the queue are parts of the range   *)
(* asked for, each at its leftmost minimum, and do not overlap; every slot *)
(* filled has a position of its own that is no longer covered, and every   *)
(* position is covered or was found; and no slot is greater than a         *)
(* position still covered.                                                 *)
(***************************************************************************)
Asked == rng.begin .. rng.end - 1

Slots == 0 .. results - 1

CoveredBy(q, pos) == \E x \in DOMAIN q : pos \in q[x].begin .. q[x].end

Parts(q) ==
    \A x \in DOMAIN q :
        /\ q[x].begin \in Asked /\ q[x].end \in Asked
        /\ x \in q[x].begin .. q[x].end
        /\ x = Least(Minima(q[x].begin, q[x].end))
        /\ \A y \in q[x].begin .. q[x].end : list[x] <= list[y]

Apart(q) ==
    \A x, y \in DOMAIN q :
        x # y => q[x].end < q[y].begin \/ q[y].end < q[x].begin

\* f tells for every slot the position its value comes from.
FoundAt(f) ==
    /\ f \in [Slots -> Asked]
    /\ \A i \in Slots : list[f[i]] = scores[i] /\ ~CoveredBy(queue, f[i])
    /\ \A i, j \in Slots : f[i] = f[j] => i = j
    /\ ~unique => \A pos \in Asked : CoveredBy(queue, pos) \/ \E i \in Slots : f[i] = pos

SlotsAscend ==
    \A i, j \in Slots : i < j =>
        scores[i] <= scores[j] /\ (unique => scores[i] # scores[j])

LoopInv ==
    /\ results < k
    /\ Parts(queue)
    /\ Apart(queue)
    /\ \E f : FoundAt(f)
    /\ SlotsAscend
    /\ \A pos \in Asked : list[pos] \in Filled \/ CoveredBy(queue, pos)
    /\ \A pos \in Asked : CoveredBy(queue, pos) => \A i \in Slots : scores[i] <= list[pos]

Frame ==
    /\ phase \in {"idle", "search", "extract"}
    /\ list \in Lists
    /\ rmq = RmqOf(list)
    /\ rng \in HalfOpenRanges
    /\ unique \in BOOLEAN
    /\ k \in 1 .. MaxK
    /\ results \in 0 .. k
    /\ DOMAIN scores = 0 .. MaxK - 1

(***************************************************************************)
(* What a call has found in a range longer than k when the loop ends: f    *)
(* picks a position for every slot, none twice; the values ascend; a       *)
(* position that was not picked repeats a value, when they are to be       *)
(* unique, or is not less than any of k values found; and there are fewer  *)
(* than k only if they are to be unique.                                   *)
(***************************************************************************)
PicksLeast(f) ==
    /\ f \in [Slots -> Asked]
    /\ \A i \in Slots : list[f[i]] = scores[i]
    /\ \A i, j \in Slots : f[i] = f[j] => i = j
    /\ \A pos \in Asked :
           \/ \E i \in Slots : f[i] = pos
           \/ unique /\ list[pos] \in Filled
           \/ results = k /\ \A i \in Slots : scores[i] <= list[pos]

LeastFound ==
    phase = "extract" /\ RangeLength > k =>
        /\ SlotsAscend
        /\ \E f : PicksLeast(f)
        /\ unique \/ results = k

(***************************************************************************)
(* What it has found in a range of at most k: every position, in the order *)
(* of the values.                                                          *)
(***************************************************************************)
PicksAll(f) ==
    /\ f \in [Slots -> Asked]
    /\ \A i \in Slots : list[f[i]] = scores[i]
    /\ \A i, j \in Slots : f[i] = f[j] => i = j
    /\ \A i, j \in Slots : i < j => scores[i] <= scores[j]

AllFound ==
    phase = "extract" /\ RangeLength <= k =>
        results = RangeLength /\ \E f : PicksAll(f)

UInv ==
    /\ Frame
    /\ Searching => LoopInv
    /\ LeastFound
    /\ AllFound

-----------------------------------------------------------------------------
(***************************************************************************)
(* The numbers the proofs are about.                                       *)
(***************************************************************************)
LEMMA ListNumbers ==
    ASSUME Frame
    PROVE  /\ \A p \in Positions : p \in Nat /\ list[p] \in Nat
           /\ Asked \subseteq Positions
           /\ rng.begin \in Nat /\ rng.end \in Nat
           /\ k \in Nat /\ results \in Nat /\ MaxK \in Nat
<1>1. \A p \in Positions : p \in Nat
  BY ListSizeAssumption DEF Positions
<1>2. \A p \in Positions : list[p] \in Nat
  BY Universe DEF Frame, Lists
<1>3. rng.begin \in Nat /\ rng.end \in Nat /\ rng.end <= ListSize
  BY ListSizeAssumption DEF Frame, HalfOpenRanges, Positions
<1>4. Asked \subseteq Positions
  BY <1>3, ListSizeAssumption DEF Asked, Positions
<1> QED  BY <1>1, <1>2, <1>3, <1>4, MaxKAssumption DEF Frame

(***************************************************************************)
(* The tree answers with the leftmost minimum.                             *)
(***************************************************************************)
LEMMA ListIsSeq ==
    ASSUME NEW l \in Lists
    PROVE  [i \in 1 .. ListSize |-> l[i - 1]] \in Seq(Int)
<1>1. \A i \in 1 .. ListSize : l[i - 1] \in Int
  <2>1. \A i \in 1 .. ListSize : i - 1 \in Positions
    BY ListSizeAssumption DEF Positions
  <2> QED  BY <2>1, Universe DEF Lists
<1> QED  BY <1>1, ListSizeAssumption

LEMMA TreesAnswer ==
    ASSUME NEW l \in Lists, NEW lo \in Positions, NEW hi \in Positions, lo <= hi
    PROVE  /\ RmqOf(l)[lo][hi] \in lo .. hi
           /\ \A q \in lo .. hi :
                  \/ l[RmqOf(l)[lo][hi]] < l[q]
                  \/ l[RmqOf(l)[lo][hi]] = l[q] /\ RmqOf(l)[lo][hi] <= q
<1> DEFINE values == [i \in 1 .. ListSize |-> l[i - 1]]
           r == Rmq(TreeOf(values), lo, hi)
<1>1. FindsLeftmost(values)
  BY ListIsSeq, TreeFindsLeftmost
<1>2. RmqOf(l)[lo][hi] = r
  BY DEF RmqOf, Positions
<1>3. hi \in 0 .. Len(values) - 1 /\ lo \in 0 .. hi
  BY ListSizeAssumption DEF Positions
<1>4. /\ r \in lo .. hi
      /\ \A q \in lo .. hi :
             values[r + 1] < values[q + 1] \/ (values[r + 1] = values[q + 1] /\ r <= q)
  <2> HIDE DEF values
  <2> QED  BY <1>1, <1>3 DEF FindsLeftmost
<1>5. \A p \in lo .. hi : values[p + 1] = l[p]
  <2>1. \A p \in lo .. hi : p + 1 \in 1 .. ListSize /\ p + 1 - 1 = p
    BY ListSizeAssumption DEF Positions
  <2> QED  BY <2>1
<1> HIDE DEF values, r
<1> QED  BY <1>2, <1>4, <1>5

(***************************************************************************)
(* The tree of every list, and of every longer one that starts with it,    *)
(* answers with the leftmost minimum; and so does the search of its        *)
(* parentheses, with the leftmost of the least excess.                     *)
(***************************************************************************)
THEOREM ListTrees == ListSpec => []TreesFindLeftmost
<1>1. TreesFindLeftmost
  <2> SUFFICES ASSUME ListInit, NEW tail \in [1 .. LongerBy -> {0, 1}]
               PROVE  FindsLeftmost([i \in 1 .. ListSize |-> list[i - 1]] \o tail)
    BY DEF TreesFindLeftmost
  <2> DEFINE values == [i \in 1 .. ListSize |-> list[i - 1]]
  <2>1. values \in Seq(Int)
    BY ListIsSeq DEF ListInit
  <2>2. tail \in Seq(Int)
    BY LongerByAssumption
  <2> HIDE DEF values
  <2>3. values \o tail \in Seq(Int)
    BY <2>1, <2>2
  <2>4. FindsLeftmost(values \o tail)
    BY <2>3, TreeFindsLeftmost
  <2> QED  BY <2>4 DEF values
<1> QED  BY <1>1, PTL

(***************************************************************************)
(* The scan and the tree return the same position.                         *)
(***************************************************************************)
LEMMA LeftmostIs ==
    ASSUME Frame, NEW lo \in Positions, NEW hi \in Positions, NEW r \in lo .. hi,
           \A q \in lo .. hi : list[r] < list[q] \/ (list[r] = list[q] /\ r <= q)
    PROVE  r = Least(Minima(lo, hi)) /\ \A q \in lo .. hi : list[r] <= list[q]
<1>1. \A q \in lo .. hi : q \in Nat /\ list[q] \in Nat
  BY ListSizeAssumption, ListNumbers DEF Positions
<1>2. r \in Minima(lo, hi)
  BY <1>1 DEF Minima
<1>3. Minima(lo, hi) \in SUBSET Nat
  BY <1>1 DEF Minima
<1>4. \A q \in Minima(lo, hi) : r <= q
  BY <1>1, <1>2 DEF Minima
<1>5. Least(Minima(lo, hi)) \in Minima(lo, hi) /\ Least(Minima(lo, hi)) <= r
  BY <1>2, <1>3, LeastExists
<1>6. r <= Least(Minima(lo, hi))
  BY <1>4, <1>5
<1> QED  BY <1>1, <1>3, <1>5, <1>6

LEMMA MinPositionFacts ==
    ASSUME Frame, NEW lo \in Positions, NEW hi \in Positions, lo <= hi
    PROVE  /\ MinPosition(lo, hi) \in lo .. hi
           /\ MinPosition(lo, hi) = Least(Minima(lo, hi))
           /\ \A q \in lo .. hi : list[MinPosition(lo, hi)] <= list[q]
<1>1. \A q \in lo .. hi : q \in Nat /\ list[q] \in Nat
  BY ListSizeAssumption, ListNumbers DEF Positions
<1>2. CASE hi - lo <= ScanThreshold
  <2> DEFINE V == {list[q] : q \in lo .. hi}
  <2>1. V \in SUBSET Nat /\ V # {}
    BY <1>1 DEF Positions
  <2>2. PICK q \in lo .. hi : \A y \in lo .. hi : list[q] <= list[y]
    <3>1. Least(V) \in V /\ \A v \in V : Least(V) <= v
      <4> HIDE DEF V
      <4> QED  BY <2>1, LeastExists
    <3> QED  BY <3>1
  <2>3. Minima(lo, hi) \in SUBSET Nat /\ Minima(lo, hi) # {}
    BY <1>1, <2>2 DEF Minima
  <2>4. Least(Minima(lo, hi)) \in Minima(lo, hi)
    BY <2>3, LeastExists
  <2>5. MinPosition(lo, hi) = Least(Minima(lo, hi))
    BY <1>2 DEF MinPosition
  <2> QED  BY <2>4, <2>5 DEF Minima
<1>3. CASE ~(hi - lo <= ScanThreshold)
  <2>1. MinPosition(lo, hi) = rmq[lo][hi]
    BY <1>3 DEF MinPosition
  <2>2. list \in Lists /\ rmq = RmqOf(list)
    BY DEF Frame
  <2> DEFINE r == rmq[lo][hi]
  <2>3. /\ r \in lo .. hi
        /\ \A q \in lo .. hi : list[r] < list[q] \/ (list[r] = list[q] /\ r <= q)
    BY <2>2, TreesAnswer
  <2>4. MinPosition(lo, hi) = r
    BY <2>1
  <2> HIDE DEF r
  <2>5. r = Least(Minima(lo, hi)) /\ \A q \in lo .. hi : list[r] <= list[q]
    BY <2>3, LeftmostIs
  <2> QED  BY <2>3, <2>4, <2>5
<1> QED  BY <1>2, <1>3

-----------------------------------------------------------------------------
(***************************************************************************)
(* A range that is pushed becomes a part of the queue, and covers its own  *)
(* positions besides those covered before.                                 *)
(***************************************************************************)
LEMMA PushKeeps ==
    ASSUME Frame, NEW q, Parts(q), Apart(q), NEW lo \in Int, NEW hi \in Int,
           lo .. hi \subseteq Asked,
           \A pos \in lo .. hi : ~CoveredBy(q, pos)
    PROVE  /\ Parts(Pushed(q, lo, hi))
           /\ Apart(Pushed(q, lo, hi))
           /\ \A pos \in Asked :
                  CoveredBy(Pushed(q, lo, hi), pos) <=> CoveredBy(q, pos) \/ pos \in lo .. hi
<1> DEFINE m == MinPosition(lo, hi)
           new == Pushed(q, lo, hi)
<1>1. CASE lo > hi
  <2>1. new = q /\ lo .. hi = {}
    BY <1>1 DEF Pushed
  <2>2. Pushed(q, lo, hi) = q
    BY <2>1
  <2> HIDE DEF new
  <2> QED  BY <2>1, <2>2
<1>2. CASE lo <= hi
  <2>1. lo \in Asked /\ hi \in Asked /\ lo \in Positions /\ hi \in Positions
    BY <1>2, ListNumbers
  <2>2. /\ m \in lo .. hi
        /\ m = Least(Minima(lo, hi))
        /\ \A y \in lo .. hi : list[m] <= list[y]
    BY <1>2, <2>1, MinPositionFacts
  <2>3. m \notin DOMAIN q
    BY <2>2 DEF Parts, CoveredBy
  <2>4. /\ DOMAIN new = DOMAIN q \cup {m}
        /\ new[m] = [begin |-> lo, end |-> hi]
        /\ \A x \in DOMAIN q : new[x] = q[x]
    BY <1>2, <2>3 DEF Pushed, With
  <2> HIDE DEF new, m
  <2>5. Parts(new)
    BY <2>1, <2>2, <2>4 DEF Parts
  <2>6. \A x \in DOMAIN q : hi < q[x].begin \/ q[x].end < lo
    <3> SUFFICES ASSUME NEW x \in DOMAIN q, ~(hi < q[x].begin), ~(q[x].end < lo)
                 PROVE  FALSE
      OBVIOUS
    <3>1. q[x].begin \in Int /\ q[x].end \in Int /\ q[x].begin <= q[x].end
      BY ListNumbers DEF Parts, Asked
    <3>2. CASE q[x].begin <= lo
      BY <1>2, <3>1, <3>2 DEF CoveredBy
    <3>3. CASE q[x].begin > lo
      BY <1>2, <3>1, <3>3 DEF CoveredBy
    <3> QED  BY <3>1, <3>2, <3>3
  <2>7. Apart(new)
    BY <2>4, <2>6 DEF Apart
  <2>8. \A pos \in Asked : CoveredBy(new, pos) <=> CoveredBy(q, pos) \/ pos \in lo .. hi
    BY <2>4 DEF CoveredBy
  <2> QED  BY <2>5, <2>7, <2>8 DEF new
<1> QED  BY <1>1, <1>2

(***************************************************************************)
(* Splitting a range takes its position out of those covered, and no other *)
(* one: none falls between the two parts.                                  *)
(***************************************************************************)
LEMMA SplitFacts ==
    ASSUME Frame, Parts(queue), Apart(queue), NEW p \in DOMAIN queue
    PROVE  /\ Parts(Split(p))
           /\ Apart(Split(p))
           /\ \A pos \in Asked :
                  CoveredBy(Split(p), pos) <=> CoveredBy(queue, pos) /\ pos # p
<1> DEFINE rest == Restrict(queue, DOMAIN queue \ {p})
           b == queue[p].begin
           e == queue[p].end
           left == Pushed(rest, b, p - 1)
           new == Pushed(left, p + 1, e)
<1>1. /\ b \in Asked /\ e \in Asked /\ p \in b .. e
      /\ b \in Int /\ e \in Int /\ p \in Int /\ p - 1 \in Int /\ p + 1 \in Int
  BY ListNumbers DEF Parts, Asked
<1>2. DOMAIN rest = DOMAIN queue \ {p} /\ \A x \in DOMAIN rest : rest[x] = queue[x]
  BY DEF Restrict
<1>3. b .. p - 1 \subseteq Asked /\ p + 1 .. e \subseteq Asked /\ b .. e \subseteq Asked
  BY <1>1, ListNumbers DEF Asked
<1> HIDE DEF rest, b, e
<1>4. Parts(rest) /\ Apart(rest)
  BY <1>2 DEF Parts, Apart
<1>5. \A pos \in Asked : CoveredBy(rest, pos) <=> CoveredBy(queue, pos) /\ pos \notin b .. e
  <2>1. \A x \in DOMAIN rest : queue[x].end < b \/ e < queue[x].begin
    BY <1>2 DEF Apart, b, e
  <2>2. \A x \in DOMAIN rest : queue[x].begin \in Int /\ queue[x].end \in Int
    BY <1>2, ListNumbers DEF Parts, Asked
  <2>3. \A pos \in Asked : pos \in Int
    BY ListNumbers DEF Asked
  <2>4. ASSUME NEW pos \in Asked, CoveredBy(rest, pos)
        PROVE  CoveredBy(queue, pos) /\ pos \notin b .. e
    BY <1>1, <1>2, <2>1, <2>2, <2>3, <2>4 DEF CoveredBy
  <2>5. ASSUME NEW pos \in Asked, CoveredBy(queue, pos), pos \notin b .. e
        PROVE  CoveredBy(rest, pos)
    BY <1>2, <2>5 DEF CoveredBy, b, e
  <2> QED  BY <2>4, <2>5
<1>6. /\ Parts(left) /\ Apart(left)
      /\ \A pos \in Asked : CoveredBy(left, pos) <=> CoveredBy(rest, pos) \/ pos \in b .. p - 1
  <2>1. \A pos \in b .. p - 1 : ~CoveredBy(rest, pos)
    BY <1>1, <1>3, <1>5
  <2> QED  BY <1>1, <1>3, <1>4, <2>1, PushKeeps
<1> HIDE DEF left
<1>7. /\ Parts(new) /\ Apart(new)
      /\ \A pos \in Asked : CoveredBy(new, pos) <=> CoveredBy(left, pos) \/ pos \in p + 1 .. e
  <2>1. \A pos \in p + 1 .. e : ~CoveredBy(left, pos)
    BY <1>1, <1>3, <1>5, <1>6
  <2> QED  BY <1>1, <1>3, <1>6, <2>1, PushKeeps
<1>8. \A pos \in b .. e : CoveredBy(queue, pos)
  BY DEF CoveredBy, b, e
<1>9. Split(p) = new
  BY DEF Split, rest, b, e, left
<1>10. ASSUME NEW pos \in Asked
       PROVE  CoveredBy(new, pos) <=> CoveredBy(queue, pos) /\ pos # p
  <2>1. pos \in Int
    BY ListNumbers DEF Asked
  <2>2. pos \in b .. e <=> pos \in b .. p - 1 \/ pos = p \/ pos \in p + 1 .. e
    BY <1>1, <2>1
  <2>3. p \notin b .. p - 1 /\ p \notin p + 1 .. e
    BY <1>1
  <2> HIDE DEF new
  <2> QED  BY <1>5, <1>6, <1>7, <1>8, <1>1, <2>2, <2>3
<1> HIDE DEF new
<1> QED  BY <1>7, <1>9, <1>10

-----------------------------------------------------------------------------
(***************************************************************************)
(* The top of the queue is the least value that is covered, and none of    *)
(* the values found is greater.                                            *)
(***************************************************************************)
LEMMA TopFacts ==
    ASSUME Frame, LoopInv, NEW p \in Top
    PROVE  /\ p \in DOMAIN queue /\ p \in Asked /\ CoveredBy(queue, p)
           /\ \A pos \in Asked : CoveredBy(queue, pos) => list[p] <= list[pos]
           /\ \A i \in Slots : scores[i] \in Nat /\ scores[i] <= list[p]
           /\ \A pos \in Asked : pos \in Nat /\ list[pos] \in Nat
<1>1. \A pos \in Asked : pos \in Nat /\ list[pos] \in Nat
  BY ListNumbers
<1>2. p \in DOMAIN queue /\ \A x \in DOMAIN queue : list[p] <= list[x]
  BY DEF Top
<1>3. \A x \in DOMAIN queue : x \in Asked /\ x \in queue[x].begin .. queue[x].end
  <2>1. \A x \in DOMAIN queue :
            queue[x].begin \in Asked /\ queue[x].end \in Asked /\ x \in queue[x].begin .. queue[x].end
    BY DEF LoopInv, Parts
  <2> QED  BY <2>1, ListNumbers DEF Asked
<1>4. p \in Asked /\ CoveredBy(queue, p)
  BY <1>2, <1>3 DEF CoveredBy
<1>5. ASSUME NEW pos \in Asked, CoveredBy(queue, pos)
      PROVE  list[p] <= list[pos]
  <2>1. PICK x \in DOMAIN queue : pos \in queue[x].begin .. queue[x].end
    BY <1>5 DEF CoveredBy
  <2>2. list[x] <= list[pos]
    BY <2>1 DEF LoopInv, Parts
  <2> QED  BY <1>1, <1>2, <1>3, <2>2
<1>6. \A i \in Slots : scores[i] \in Nat
  <2>1. PICK f : FoundAt(f)
    BY DEF LoopInv
  <2> QED  BY <1>1, <2>1 DEF FoundAt
<1>7. \A i \in Slots : scores[i] <= list[p]
  BY <1>4 DEF LoopInv
<1> QED  BY <1>1, <1>2, <1>4, <1>5, <1>6, <1>7

(***************************************************************************)
(* Recording the top gives it the next slot, which is not less than the    *)
(* others, and with unique values not equal to any.                        *)
(***************************************************************************)
LEMMA RecordFacts ==
    ASSUME Frame, LoopInv, NEW p \in Top, Wanted(list[p]), Record(list[p]),
           UNCHANGED <<list, rng, unique>>
    PROVE  /\ results' = results + 1
           /\ Slots' = Slots \cup {results} /\ results \notin Slots
           /\ DOMAIN scores' = 0 .. MaxK - 1
           /\ scores'[results] = list[p]
           /\ \A i \in Slots : scores'[i] = scores[i]
           /\ Filled' = Filled \cup {list[p]}
           /\ SlotsAscend'
<1>1. results \in Nat /\ k \in Nat /\ MaxK \in Nat /\ results < k /\ results \in 0 .. MaxK - 1
  BY ListNumbers DEF Frame, LoopInv
<1>2. results' = results + 1 /\ scores' = [scores EXCEPT ![results] = list[p]]
  BY DEF Record
<1>3. Slots' = Slots \cup {results} /\ results \notin Slots
  BY <1>1, <1>2 DEF Slots
<1>4. DOMAIN scores' = 0 .. MaxK - 1
  BY <1>2 DEF Frame
<1>5. scores'[results] = list[p] /\ \A i \in Slots : scores'[i] = scores[i]
  <2>1. \A i \in Slots : i \in 0 .. MaxK - 1 /\ i # results
    BY <1>1, <1>3 DEF Slots
  <2> QED  BY <1>1, <1>2, <2>1 DEF Frame
<1>6. Filled' = {scores'[i] : i \in Slots'} /\ Filled = {scores[i] : i \in Slots}
  BY DEF Filled, Slots
<1>7. Filled' = Filled \cup {list[p]}
  BY <1>3, <1>5, <1>6
<1>8. SlotsAscend'
  <2> SUFFICES ASSUME NEW i \in Slots', NEW j \in Slots', i < j
               PROVE  scores'[i] <= scores'[j] /\ (unique => scores'[i] # scores'[j])
    BY DEF SlotsAscend
  <2>1. i \in Slots
    BY <1>1, <1>3 DEF Slots
  <2>2. CASE j \in Slots
    BY <1>5, <2>1, <2>2 DEF LoopInv, SlotsAscend
  <2>3. CASE j = results
    <3>1. scores[i] <= list[p]
      BY <2>1, TopFacts
    <3>2. unique => scores[i] # list[p]
      BY <1>6, <2>1 DEF Wanted
    <3> QED  BY <1>5, <2>1, <2>3, <3>1, <3>2
  <2> QED  BY <1>3, <2>2, <2>3
<1> QED  BY <1>2, <1>3, <1>4, <1>5, <1>7, <1>8

(***************************************************************************)
(* The position of the top is the position the new slot is found at.       *)
(***************************************************************************)
LEMMA RecordFrom ==
    ASSUME Frame, LoopInv, NEW p \in Top, Wanted(list[p]), Record(list[p]),
           UNCHANGED <<list, rng, unique>>
    PROVE  \E g \in [Slots' -> Asked] :
               /\ g[results] = p
               /\ \A i \in Slots' : list[g[i]] = scores'[i]
               /\ \A i \in Slots : ~CoveredBy(queue, g[i])
               /\ \A i, j \in Slots' : g[i] = g[j] => i = j
               /\ ~unique => \A pos \in Asked :
                      CoveredBy(queue, pos) \/ \E i \in Slots' : g[i] = pos
<1>1. PICK f : FoundAt(f)
  BY DEF LoopInv
<1> DEFINE g == [i \in Slots' |-> IF i = results THEN p ELSE f[i]]
<1>2. p \in Asked /\ CoveredBy(queue, p)
  BY TopFacts
<1>3. Slots' = Slots \cup {results} /\ results \notin Slots
  BY RecordFacts
<1>4. g[results] = p /\ \A i \in Slots : g[i] = f[i]
  BY <1>3
<1>5. g \in [Slots' -> Asked]
  BY <1>1, <1>2, <1>3 DEF FoundAt
<1> HIDE DEF g
<1>6. \A i \in Slots' : list[g[i]] = scores'[i]
  BY <1>1, <1>3, <1>4, RecordFacts DEF FoundAt
<1>7. \A i \in Slots : ~CoveredBy(queue, g[i])
  BY <1>1, <1>4 DEF FoundAt
<1>8. \A i, j \in Slots' : g[i] = g[j] => i = j
  BY <1>1, <1>2, <1>3, <1>4, <1>7 DEF FoundAt
<1>9. ~unique => \A pos \in Asked : CoveredBy(queue, pos) \/ \E i \in Slots' : g[i] = pos
  BY <1>1, <1>3, <1>4 DEF FoundAt
<1> QED  BY <1>4, <1>5, <1>6, <1>7, <1>8, <1>9

-----------------------------------------------------------------------------
(***************************************************************************)
(* A round that is not the last.                                           *)
(***************************************************************************)
LEMMA RoundRanges ==
    ASSUME Frame, LoopInv, NEW p \in Top, queue' = Split(p),
           UNCHANGED <<list, rng>>
    PROVE  /\ Parts(queue)' /\ Apart(queue)'
           /\ Asked' = Asked
           /\ \A pos \in Asked : CoveredBy(queue', pos) <=> CoveredBy(queue, pos) /\ pos # p
<1>1. p \in DOMAIN queue /\ Parts(queue) /\ Apart(queue)
  BY TopFacts DEF LoopInv
<1> DEFINE new == Split(p)
<1>2. /\ Parts(new) /\ Apart(new)
      /\ \A pos \in Asked : CoveredBy(new, pos) <=> CoveredBy(queue, pos) /\ pos # p
  BY <1>1, SplitFacts
<1>3. Asked' = Asked
  BY DEF Asked
<1>4. Apart(queue)'
  <2> HIDE DEF new
  <2>1. queue' = new
    BY DEF new
  <2> QED  BY <1>2, <2>1 DEF Apart
<1>5. Parts(queue)'
  <2> HIDE DEF new
  <2>1. queue' = new
    BY DEF new
  <2>2. \A lo, hi : Minima(lo, hi)' = Minima(lo, hi)
    BY DEF Minima
  <2> QED  BY <1>2, <1>3, <2>1, <2>2 DEF Parts
<1> QED  BY <1>2, <1>3, <1>4, <1>5

LEMMA VisitKeeps == UInv /\ Visit => UInv'
<1> SUFFICES ASSUME UInv, Visit
             PROVE  UInv'
  OBVIOUS
<1>1. Frame /\ LoopInv /\ Searching
  BY DEF UInv, Visit
<1>2. UNCHANGED <<phase, list, rmq, rng, unique>>
  BY DEF Visit
<1>3. PICK p \in Top :
          /\ IF Wanted(list[p])
             THEN results + 1 # k /\ Record(list[p])
             ELSE UNCHANGED <<scores, k, results, reply>>
          /\ queue' = Split(p)
  BY DEF Visit
<1>4. /\ Parts(queue)' /\ Apart(queue)' /\ Asked' = Asked
      /\ \A pos \in Asked : CoveredBy(queue', pos) <=> CoveredBy(queue, pos) /\ pos # p
  BY <1>1, <1>2, <1>3, RoundRanges
<1>5. /\ p \in Asked /\ CoveredBy(queue, p)
      /\ \A pos \in Asked : CoveredBy(queue, pos) => list[p] <= list[pos]
  BY <1>1, TopFacts
<1>6. phase' = "search" /\ RangeLength' = RangeLength
  BY <1>1, <1>2 DEF Searching, RangeLength
<1>7. CASE Wanted(list[p])
  <2>1. results + 1 # k /\ Record(list[p]) /\ k' = k
    BY <1>3, <1>7 DEF Record
  <2>2. /\ results' = results + 1
        /\ Slots' = Slots \cup {results} /\ results \notin Slots
        /\ DOMAIN scores' = 0 .. MaxK - 1
        /\ scores'[results] = list[p]
        /\ \A i \in Slots : scores'[i] = scores[i]
        /\ Filled' = Filled \cup {list[p]}
        /\ SlotsAscend'
    BY <1>1, <1>2, <1>7, <2>1, RecordFacts
  <2>3. results' < k' /\ results' \in 0 .. k'
    BY <1>1, <2>1, <2>2, ListNumbers DEF LoopInv
  <2>4. PICK g \in [Slots' -> Asked] :
            /\ g[results] = p
            /\ \A i \in Slots' : list[g[i]] = scores'[i]
            /\ \A i \in Slots : ~CoveredBy(queue, g[i])
            /\ \A i, j \in Slots' : g[i] = g[j] => i = j
            /\ ~unique => \A pos \in Asked :
                   CoveredBy(queue, pos) \/ \E i \in Slots' : g[i] = pos
    BY <1>1, <1>2, <1>7, <2>1, RecordFrom
  <2>5. \A i \in Slots' : ~CoveredBy(queue', g[i])
    BY <1>4, <2>2, <2>4
  <2>6. ~unique => \A pos \in Asked : CoveredBy(queue', pos) \/ \E i \in Slots' : g[i] = pos
    BY <1>4, <2>2, <2>4
  <2>7. FoundAt(g)'
    BY <1>2, <1>4, <2>4, <2>5, <2>6 DEF FoundAt, CoveredBy
  <2>8. \A pos \in Asked : list[pos] \in Filled' \/ CoveredBy(queue', pos)
    BY <1>1, <1>4, <2>2 DEF LoopInv
  <2>9. \A pos \in Asked : CoveredBy(queue', pos) => \A i \in Slots' : scores'[i] <= list[pos]
    BY <1>1, <1>4, <1>5, <2>2 DEF LoopInv
  <2>10. LoopInv'
    BY <1>2, <1>4, <2>2, <2>3, <2>7, <2>8, <2>9 DEF LoopInv, CoveredBy
  <2>11. Frame'
    BY <1>1, <1>2, <2>1, <2>2, <2>3 DEF Frame
  <2> QED  BY <1>6, <2>10, <2>11 DEF UInv, LeastFound, AllFound
<1>8. CASE ~Wanted(list[p])
  <2>1. UNCHANGED <<scores, k, results, reply>>
    BY <1>3, <1>8
  <2>2. unique /\ list[p] \in Filled
    BY <1>8 DEF Wanted
  <2>3. Slots' = Slots /\ Filled' = Filled
    BY <2>1 DEF Slots, Filled
  <2>4. PICK f : FoundAt(f)
    BY <1>1 DEF LoopInv
  <2>5. \A i \in Slots : ~CoveredBy(queue', f[i])
    BY <1>4, <2>4 DEF FoundAt
  <2>6. FoundAt(f)'
    BY <1>2, <1>4, <2>1, <2>2, <2>3, <2>4, <2>5 DEF FoundAt, CoveredBy
  <2>7. \A pos \in Asked : list[pos] \in Filled' \/ CoveredBy(queue', pos)
    BY <1>1, <1>4, <2>2, <2>3 DEF LoopInv
  <2>8. \A pos \in Asked : CoveredBy(queue', pos) => \A i \in Slots' : scores'[i] <= list[pos]
    BY <1>1, <1>4, <2>1, <2>3 DEF LoopInv
  <2>9. SlotsAscend'
    BY <1>1, <1>2, <2>1, <2>3 DEF LoopInv, SlotsAscend
  <2>10. LoopInv'
    BY <1>1, <1>2, <1>4, <2>1, <2>6, <2>7, <2>8, <2>9 DEF LoopInv, CoveredBy
  <2>11. Frame'
    BY <1>1, <1>2, <2>1 DEF Frame
  <2> QED  BY <1>6, <2>10, <2>11 DEF UInv, LeastFound, AllFound
<1> QED  BY <1>7, <1>8

(***************************************************************************)
(* The round that finds the k-th value: what is still covered is not less  *)
(* than its value, the top.                                                *)
(***************************************************************************)
LEMMA VisitLastKeeps == UInv /\ VisitLast => UInv'
<1> SUFFICES ASSUME UInv, VisitLast
             PROVE  UInv'
  OBVIOUS
<1>1. Frame /\ LoopInv /\ Searching
  BY DEF UInv, VisitLast
<1>2. UNCHANGED <<list, rmq, rng, unique, queue>> /\ phase' = "extract"
  BY DEF VisitLast
<1>3. PICK p \in Top : Wanted(list[p]) /\ results + 1 = k /\ Record(list[p])
  BY DEF VisitLast
<1>4. k' = k
  BY <1>3 DEF Record
<1>5. /\ results' = results + 1
      /\ Slots' = Slots \cup {results} /\ results \notin Slots
      /\ DOMAIN scores' = 0 .. MaxK - 1
      /\ scores'[results] = list[p]
      /\ \A i \in Slots : scores'[i] = scores[i]
      /\ Filled' = Filled \cup {list[p]}
      /\ SlotsAscend'
  BY <1>1, <1>2, <1>3, RecordFacts
<1>6. PICK g \in [Slots' -> Asked] :
          /\ g[results] = p
          /\ \A i \in Slots' : list[g[i]] = scores'[i]
          /\ \A i \in Slots : ~CoveredBy(queue, g[i])
          /\ \A i, j \in Slots' : g[i] = g[j] => i = j
          /\ ~unique => \A pos \in Asked :
                 CoveredBy(queue, pos) \/ \E i \in Slots' : g[i] = pos
  BY <1>1, <1>2, <1>3, RecordFrom
<1>7. Asked' = Asked
  BY <1>2 DEF Asked
<1>8. results' = k' /\ results' \in 0 .. k'
  BY <1>1, <1>3, <1>4, <1>5, ListNumbers DEF Frame
<1>9. Frame'
  BY <1>1, <1>2, <1>4, <1>5, <1>8 DEF Frame
<1>10. ASSUME NEW pos \in Asked, CoveredBy(queue, pos), NEW i \in Slots'
       PROVE  scores'[i] <= list[pos]
  <2>1. list[p] <= list[pos]
    BY <1>1, <1>10, TopFacts
  <2>2. i \in Slots => scores[i] <= list[pos]
    BY <1>1, <1>10 DEF LoopInv
  <2> QED  BY <1>5, <2>1, <2>2
<1>11. ASSUME NEW pos \in Asked
       PROVE  \/ \E i \in Slots' : g[i] = pos
              \/ unique /\ list[pos] \in Filled'
              \/ results' = k' /\ \A i \in Slots' : scores'[i] <= list[pos]
  <2>1. CASE CoveredBy(queue, pos)
    BY <1>8, <1>10, <2>1
  <2>2. CASE ~CoveredBy(queue, pos)
    <3>1. list[pos] \in Filled
      BY <1>1, <2>2 DEF LoopInv
    <3>2. unique \in BOOLEAN
      BY <1>1 DEF Frame
    <3> QED  BY <1>5, <1>6, <2>2, <3>1, <3>2
  <2> QED  BY <2>1, <2>2
<1>12. PicksLeast(g)'
  BY <1>2, <1>6, <1>7, <1>11 DEF PicksLeast
<1>13. ~(RangeLength <= k)'
  <2>1. RangeLength > k
    BY DEF VisitLast, Searching
  <2>2. RangeLength \in Int /\ k \in Int
    BY <1>1, ListNumbers DEF RangeLength
  <2>3. RangeLength' = RangeLength /\ k' = k
    BY <1>2, <1>4 DEF RangeLength
  <2> QED  BY <2>1, <2>2, <2>3
<1> QED
  BY <1>2, <1>5, <1>8, <1>9, <1>12, <1>13 DEF UInv, LeastFound, AllFound, Searching

(***************************************************************************)
(* When the queue is empty nothing is covered, and every value was found.  *)
(* As each position has a slot of its own unless values are to be unique,  *)
(* fewer than k slots cannot hold them all.                                *)
(***************************************************************************)
LEMMA AskedSize ==
    ASSUME Frame
    PROVE  IsFiniteSet(Asked) /\ Cardinality(Asked) = RangeLength
<1> DEFINE lo == rng.begin
           hi == rng.end - 1
<1>1. rng.begin \in Nat /\ rng.end \in Nat /\ rng.begin <= rng.end
  BY ListNumbers DEF Frame, HalfOpenRanges
<1>2. lo \in Int /\ hi \in Int
  BY <1>1
<1>3. RangeLength = IF lo > hi THEN 0 ELSE hi - lo + 1
  BY <1>1 DEF RangeLength
<1>4. Asked = lo .. hi
  BY DEF Asked
<1> HIDE DEF lo, hi
<1>5. IsFiniteSet(lo .. hi) /\ Cardinality(lo .. hi) = IF lo > hi THEN 0 ELSE hi - lo + 1
  BY <1>2, FS_Interval
<1> QED  BY <1>3, <1>4, <1>5

LEMMA SlotsFew ==
    ASSUME Frame, results < k, RangeLength > k, NEW f \in [Slots -> Asked]
    PROVE  ~\A pos \in Asked : \E i \in Slots : f[i] = pos
<1> SUFFICES ASSUME \A pos \in Asked : \E i \in Slots : f[i] = pos
             PROVE  FALSE
  OBVIOUS
<1>1. f \in Surjection(Slots, Asked)
  BY DEF Surjection
<1>2. results \in Nat /\ k \in Nat /\ rng.begin \in Nat /\ rng.end \in Nat
  BY ListNumbers
<1>3. IsFiniteSet(Slots) /\ Cardinality(Slots) = results
  BY <1>2, FS_Interval DEF Slots
<1>4. Cardinality(Asked) = RangeLength
  BY AskedSize
<1>5. Cardinality(Asked) <= Cardinality(Slots)
  BY <1>1, <1>3, FS_Surjection
<1> QED  BY <1>2, <1>3, <1>4, <1>5 DEF RangeLength

LEMMA EmptiedKeeps == UInv /\ Emptied => UInv'
<1> SUFFICES ASSUME UInv, Emptied
             PROVE  UInv'
  OBVIOUS
<1>1. Frame /\ LoopInv /\ Searching
  BY DEF UInv, Emptied
<1>2. UNCHANGED <<scores, k, results, list, rmq, rng, unique>> /\ phase' = "extract"
  BY DEF Emptied
<1>3. \A pos : ~CoveredBy(queue, pos)
  BY DEF Emptied, EmptyQueue, CoveredBy
<1>4. PICK f : FoundAt(f)
  BY <1>1 DEF LoopInv
<1>5. Slots' = Slots /\ Asked' = Asked /\ Filled' = Filled
  BY <1>2 DEF Slots, Asked, Filled
<1>6. PicksLeast(f)'
  <2>1. unique \in BOOLEAN
    BY <1>1 DEF Frame
  <2>2. \A pos \in Asked :
            (\E i \in Slots : f[i] = pos) \/ (unique /\ list[pos] \in Filled)
    BY <1>1, <1>3, <1>4, <2>1 DEF FoundAt, LoopInv
  <2> QED  BY <1>2, <1>4, <1>5, <2>2 DEF FoundAt, PicksLeast
<1>7. SlotsAscend'
  BY <1>1, <1>2, <1>5 DEF LoopInv, SlotsAscend
<1>8. Frame'
  BY <1>1, <1>2 DEF Frame
<1>9. unique
  <2>1. unique \in BOOLEAN /\ results < k /\ RangeLength > k
    BY <1>1 DEF Frame, LoopInv, Searching
  <2>2. ~unique => \A pos \in Asked : \E i \in Slots : f[i] = pos
    BY <1>3, <1>4 DEF FoundAt
  <2>3. f \in [Slots -> Asked]
    BY <1>4 DEF FoundAt
  <2> QED  BY <1>1, <2>1, <2>2, <2>3, SlotsFew
<1>10. ~(RangeLength <= k)'
  <2>1. RangeLength > k
    BY <1>1 DEF Searching
  <2>2. RangeLength \in Int /\ k \in Int
    BY <1>1, ListNumbers DEF RangeLength
  <2>3. RangeLength' = RangeLength /\ k' = k
    BY <1>2 DEF RangeLength
  <2> QED  BY <2>1, <2>2, <2>3
<1> QED
  BY <1>2, <1>6, <1>7, <1>8, <1>9, <1>10 DEF UInv, LeastFound, AllFound, Searching

-----------------------------------------------------------------------------
(***************************************************************************)
(* A call: its range, if longer than k, lies on the queue as a whole.      *)
(***************************************************************************)
LEMMA CallKeeps == UInv /\ Call => UInv'
<1> SUFFICES ASSUME UInv, Call
             PROVE  UInv'
  OBVIOUS
<1>1. Frame
  BY DEF UInv
<1>2. /\ phase' = "search" /\ k' \in 1 .. MaxK /\ results' = 0 /\ scores' = scores
      /\ rng' \in HalfOpenRanges /\ unique' \in BOOLEAN /\ list' = list /\ rmq' = rmq
  BY DEF Call, StartQuery
<1>3. 0 \in 0 .. k'
  BY <1>2, MaxKAssumption
<1>4. Frame'
  BY <1>1, <1>2, <1>3 DEF Frame
<1>5. Slots' = {}
  BY <1>2 DEF Slots
<1>6. ASSUME Searching'
      PROVE  LoopInv'
  <2> DEFINE lo == rng'.begin
             hi == rng'.end - 1
             r == rmq[lo][hi]
  <2>1. k' \in Nat /\ k' > 0 /\ rng'.begin \in Nat /\ rng'.end \in Nat /\ rng'.end <= ListSize
    BY <1>2, MaxKAssumption, ListSizeAssumption DEF HalfOpenRanges, Positions
  <2>2. rng'.end - rng'.begin > k'
    BY <1>6 DEF Searching, RangeLength
  <2>3. lo \in Positions /\ hi \in Positions /\ lo <= hi
    BY <2>1, <2>2, ListSizeAssumption DEF Positions
  <2>4. queue' = With(EmptyQueue, r, lo, hi)
    <3>1. ~(rng'.end - rng'.begin <= k')
      BY <2>1, <2>2
    <3>2. IF rng'.end - rng'.begin <= k' THEN UNCHANGED queue
          ELSE queue' = With(EmptyQueue, r, lo, hi)
      BY DEF Call
    <3> QED  BY <3>1, <3>2
  <2>5. /\ r \in lo .. hi
        /\ \A q \in lo .. hi : list[r] < list[q] \/ (list[r] = list[q] /\ r <= q)
    BY <1>1, <2>3, TreesAnswer DEF Frame
  <2> HIDE DEF r
  <2>6. r = Least(Minima(lo, hi)) /\ \A q \in lo .. hi : list[r] <= list[q]
    BY <1>1, <2>3, <2>5, LeftmostIs
  <2>7. DOMAIN queue' = {r} /\ queue'[r] = [begin |-> lo, end |-> hi]
    BY <2>4 DEF With, EmptyQueue
  <2>8. Asked' = lo .. hi /\ lo \in Asked' /\ hi \in Asked'
    BY <2>3 DEF Asked, Positions
  <2>9. \A a, b : Minima(a, b)' = Minima(a, b)
    BY <1>2 DEF Minima
  <2>10. Apart(queue)'
    BY <2>7 DEF Apart
  <2>11. Parts(queue)'
    <3> QED  BY <1>2, <2>5, <2>6, <2>7, <2>8, <2>9 DEF Parts
  <2>12. \A pos \in Asked' : CoveredBy(queue', pos)
    BY <2>7, <2>8 DEF CoveredBy
  <2> DEFINE f == [i \in {} |-> 0]
  <2>13. FoundAt(f)'
    BY <1>5, <2>12 DEF FoundAt, CoveredBy
  <2>14. SlotsAscend'
    BY <1>5 DEF SlotsAscend
  <2> QED  BY <1>2, <1>5, <2>1, <2>10, <2>11, <2>12, <2>13, <2>14 DEF LoopInv, CoveredBy
<1> QED  BY <1>2, <1>4, <1>6 DEF UInv, LeastFound, AllFound

(***************************************************************************)
(* The other steps.  A short range is no matter of the loop.               *)
(***************************************************************************)
LEMMA ReportAllKeeps == UInv /\ ReportAll => UInv'
<1> SUFFICES ASSUME UInv, ReportAll
             PROVE  UInv'
  OBVIOUS
<1>1. /\ Frame /\ phase' = "extract" /\ UNCHANGED <<k, list, rmq, rng, unique>>
      /\ results' = RangeLength /\ RangeLength <= k
  BY DEF UInv, ReportAll
<1>2. PICK order \in SortedOrders(rng.begin, RangeLength) :
          scores' = [i \in DOMAIN scores |->
                        IF i < RangeLength THEN list[order[i]] ELSE scores[i]]
  BY DEF ReportAll
<1>3. /\ RangeLength \in 0 .. k /\ k \in 1 .. MaxK /\ MaxK \in Nat
      /\ rng.begin \in Nat /\ rng.end \in Nat
  BY <1>1, ListNumbers DEF Frame, HalfOpenRanges, RangeLength
<1>4. DOMAIN scores' = DOMAIN scores
  BY <1>2
<1>5. Frame'
  BY <1>1, <1>3, <1>4 DEF Frame
<1>6. ~(RangeLength > k)' /\ RangeLength' = RangeLength
  BY <1>1, <1>3 DEF RangeLength
<1>7. Slots' = 0 .. RangeLength - 1 /\ Asked' = Asked
  BY <1>1 DEF Slots, Asked
<1>8. Asked = rng.begin .. rng.begin + RangeLength - 1
  <2>1. rng.begin + RangeLength - 1 = rng.end - 1
    BY <1>3 DEF RangeLength
  <2> QED  BY <2>1 DEF Asked
<1>9. /\ order \in [0 .. RangeLength - 1 -> Asked]
      /\ \A i, j \in 0 .. RangeLength - 1 :
            i < j => order[i] # order[j] /\ list[order[i]] <= list[order[j]]
  BY <1>2, <1>8 DEF SortedOrders
<1>10. \A i \in 0 .. RangeLength - 1 : i \in Nat /\ scores'[i] = list[order[i]]
  <2>1. \A i \in 0 .. RangeLength - 1 : i \in DOMAIN scores /\ i < RangeLength
    BY <1>1, <1>3 DEF Frame
  <2> QED  BY <1>2, <1>3, <2>1
<1>11. PicksAll(order)'
  <2>1. \A i, j \in 0 .. RangeLength - 1 : order[i] = order[j] => i = j
    <3> SUFFICES ASSUME NEW i \in 0 .. RangeLength - 1,
                        NEW j \in 0 .. RangeLength - 1, order[i] = order[j]
                 PROVE  i = j
      OBVIOUS
    <3>1. ~(i < j) /\ ~(j < i)
      BY <1>9
    <3> QED  BY <1>10, <3>1
  <2>2. \A i, j \in 0 .. RangeLength - 1 : i < j => scores'[i] <= scores'[j]
    BY <1>9, <1>10
  <2> QED  BY <1>1, <1>7, <1>9, <1>10, <2>1, <2>2 DEF PicksAll
<1> QED
  BY <1>1, <1>5, <1>6, <1>11 DEF UInv, LeastFound, AllFound, Searching

LEMMA ExtractKeeps == UInv /\ Extract => UInv'
<1> SUFFICES ASSUME UInv, Extract
             PROVE  UInv'
  OBVIOUS
<1>1. /\ Frame /\ phase' = "idle" /\ UNCHANGED <<scores, list, rmq>>
      /\ k' = 1 /\ results' = 0 /\ rng' = AnyRange /\ unique' = FALSE
  BY DEF UInv, Extract, EndQuery
<1>2. AnyRange \in HalfOpenRanges
  BY ListSizeAssumption DEF AnyRange, HalfOpenRanges, Positions
<1>3. 1 \in 1 .. MaxK /\ 0 \in 0 .. 1
  BY MaxKAssumption
<1>4. Frame'
  BY <1>1, <1>2, <1>3 DEF Frame
<1> QED  BY <1>1, <1>4 DEF UInv, LeastFound, AllFound, Searching

LEMMA ListStutterKeeps == UInv /\ UNCHANGED listVars => UInv'
<1> SUFFICES ASSUME UInv, UNCHANGED listVars
             PROVE  UInv'
  OBVIOUS
<1>1. UNCHANGED <<phase, scores, k, results, list, rmq, rng, unique, queue>>
  BY DEF listVars, poolVars
<1>2. Frame'
  BY <1>1 DEF UInv, Frame
<1>3. Slots' = Slots /\ Asked' = Asked /\ Filled' = Filled /\ RangeLength' = RangeLength
  BY <1>1 DEF Slots, Asked, Filled, RangeLength
<1>4. ASSUME Searching'
      PROVE  LoopInv'
  <2>1. LoopInv
    BY <1>1, <1>3, <1>4 DEF UInv, Searching
  <2>2. Parts(queue)' /\ Apart(queue)'
    <3>1. \A lo, hi : Minima(lo, hi)' = Minima(lo, hi)
      BY <1>1 DEF Minima
    <3>2. Parts(queue) /\ Apart(queue)
      BY <2>1 DEF LoopInv
    <3>3. Parts(queue)'
      BY <1>1, <1>3, <3>1, <3>2 DEF Parts
    <3>4. Apart(queue)'
      BY <1>1, <3>2 DEF Apart
    <3> QED  BY <3>3, <3>4
  <2>3. PICK f : FoundAt(f)
    BY <2>1 DEF LoopInv
  <2>4. FoundAt(f)'
    BY <1>1, <1>3, <2>3 DEF FoundAt, CoveredBy
  <2>5. SlotsAscend'
    BY <1>1, <1>3, <2>1 DEF LoopInv, SlotsAscend
  <2>6. \A pos \in Asked' : list'[pos] \in Filled' \/ CoveredBy(queue', pos)
    BY <1>1, <1>3, <2>1 DEF LoopInv
  <2>7. \A pos \in Asked' : CoveredBy(queue', pos) => \A i \in Slots' : scores'[i] <= list'[pos]
    BY <1>1, <1>3, <2>1 DEF LoopInv
  <2> QED  BY <1>1, <2>1, <2>2, <2>4, <2>5, <2>6, <2>7 DEF LoopInv, CoveredBy
<1>5. LeastFound'
  BY <1>1, <1>3 DEF UInv, LeastFound, SlotsAscend, PicksLeast
<1>6. AllFound'
  BY <1>1, <1>3 DEF UInv, AllFound, PicksAll
<1> QED  BY <1>2, <1>4, <1>5, <1>6 DEF UInv

LEMMA ListInitHolds == ListInit => UInv
<1> SUFFICES ASSUME ListInit
             PROVE  UInv
  OBVIOUS
<1>1. /\ phase = "idle" /\ k = 1 /\ results = 0 /\ DOMAIN scores = 0 .. MaxK - 1
      /\ list \in Lists /\ rmq = RmqOf(list) /\ rng = AnyRange /\ unique = FALSE
  BY DEF ListInit, PoolInit
<1>2. AnyRange \in HalfOpenRanges
  BY ListSizeAssumption DEF AnyRange, HalfOpenRanges, Positions
<1>3. 1 \in 1 .. MaxK /\ 0 \in 0 .. 1
  BY MaxKAssumption
<1>4. Frame
  BY <1>1, <1>2, <1>3 DEF Frame
<1> QED  BY <1>1, <1>4 DEF UInv, Searching, LeastFound, AllFound

LEMMA ListStepPreserves == UInv /\ [Call \/ ListRun]_listVars => UInv'
BY CallKeeps, ReportAllKeeps, VisitKeeps, VisitLastKeeps, EmptiedKeeps, ExtractKeeps,
   ListStutterKeeps DEF ListRun

LEMMA ListInductive ==
    ListSpec => []UInv
<1>1. UInv /\ [Call \/ ListRun]_listVars => UInv'
  BY ListStepPreserves
<1> QED  BY <1>1, ListInitHolds, PTL DEF ListSpec

-----------------------------------------------------------------------------
(***************************************************************************)
(* Splitting a range loses no position: its value was found or it is still *)
(* in a range of the queue.                                                *)
(***************************************************************************)
THEOREM ListCovers ==
    ListSpec => []FoundOrQueued
<1>1. UInv => FoundOrQueued
  BY DEF UInv, LoopInv, FoundOrQueued, Asked, CoveredBy
<1> QED  BY <1>1, ListInductive, PTL

(***************************************************************************)
(* Scanned or asked of the tree, a range lies on the queue at its leftmost *)
(* minimum.                                                                *)
(***************************************************************************)
THEOREM ListLeftmost ==
    ListSpec => []QueuedAtLeftmost
<1>1. UInv => QueuedAtLeftmost
  BY DEF UInv, LoopInv, Parts, QueuedAtLeftmost
<1> QED  BY <1>1, ListInductive, PTL

-----------------------------------------------------------------------------
(***************************************************************************)
(* Positions in the order of their values, equal ones in that of the list: *)
(* how many come before one of them is different for each, and takes every *)
(* value below their number.                                               *)
(***************************************************************************)
Before(p, q) == list[p] < list[q] \/ (list[p] = list[q] /\ p < q)

Ahead(T, p) == {q \in T : Before(q, p)}

LEMMA BeforeIsOrder ==
    ASSUME Frame, NEW p \in Positions, NEW q \in Positions, NEW r \in Positions
    PROVE  /\ ~Before(p, p)
           /\ p = q \/ Before(p, q) \/ Before(q, p)
           /\ Before(p, q) /\ Before(q, r) => Before(p, r)
           /\ Before(p, q) => list[p] <= list[q]
           /\ list[p] < list[q] => Before(p, q)
BY ListNumbers DEF Before

LEMMA PositionsFinite ==
    ASSUME NEW T \in SUBSET Positions
    PROVE  IsFiniteSet(T) /\ Cardinality(T) \in Nat
<1>1. IsFiniteSet(Positions)
  <2>1. 0 \in Int /\ ListSize - 1 \in Int
    BY ListSizeAssumption
  <2> QED  BY <2>1, FS_Interval DEF Positions
<1> QED  BY <1>1, FS_Subset, FS_CardinalityType

LEMMA SubsetSize ==
    ASSUME NEW T \in SUBSET Positions, NEW S \in SUBSET T
    PROVE  /\ Cardinality(S) <= Cardinality(T)
           /\ S # T => Cardinality(S) < Cardinality(T)
<1>1. IsFiniteSet(T)
  BY PositionsFinite
<1>2. Cardinality(S) \in Nat /\ Cardinality(T) \in Nat
  BY PositionsFinite
<1> QED  BY <1>1, <1>2, FS_Subset

LEMMA Ranks ==
    ASSUME Frame, NEW T \in SUBSET Positions
    PROVE  [p \in T |-> Cardinality(Ahead(T, p))]
               \in Bijection(T, 0 .. Cardinality(T) - 1)
<1> DEFINE rank == [p \in T |-> Cardinality(Ahead(T, p))]
           To == 0 .. Cardinality(T) - 1
<1>1. IsFiniteSet(T) /\ Cardinality(T) \in Nat
  BY PositionsFinite
<1>2. ASSUME NEW p \in T
      PROVE  rank[p] \in To
  <2>1. Ahead(T, p) \in SUBSET T /\ p \notin Ahead(T, p)
    BY BeforeIsOrder DEF Ahead
  <2>2. Cardinality(Ahead(T, p)) < Cardinality(T)
    BY <2>1, SubsetSize
  <2>3. Cardinality(Ahead(T, p)) \in Nat
    BY <2>1, PositionsFinite
  <2> QED  BY <1>1, <2>2, <2>3
<1>3. ASSUME NEW p \in T, NEW q \in T, Before(p, q)
      PROVE  rank[p] < rank[q]
  <2>1. Ahead(T, p) \subseteq Ahead(T, q)
    BY <1>3, BeforeIsOrder DEF Ahead
  <2>2. p \in Ahead(T, q) /\ p \notin Ahead(T, p)
    BY <1>3, BeforeIsOrder DEF Ahead
  <2>3. Ahead(T, q) \in SUBSET Positions
    BY DEF Ahead
  <2>4. Cardinality(Ahead(T, p)) < Cardinality(Ahead(T, q))
    BY <2>1, <2>2, <2>3, SubsetSize
  <2> QED  BY <2>4
<1>4. ASSUME NEW p \in T, NEW q \in T, rank[p] = rank[q]
      PROVE  p = q
  <2>1. rank[p] \in To /\ rank[q] \in To
    BY <1>2
  <2>2. ~(rank[p] < rank[q]) /\ ~(rank[q] < rank[p])
    BY <1>1, <1>4, <2>1
  <2>3. ~Before(p, q) /\ ~Before(q, p)
    BY <1>3, <2>2
  <2> QED  BY <2>3, BeforeIsOrder
<1>5. rank \in Injection(T, To)
  <2>1. rank \in [T -> To]
    BY <1>2
  <2> HIDE DEF rank, To
  <2> QED  BY <1>4, <2>1 DEF Injection, IsInjective
<1>6. IsFiniteSet(To) /\ Cardinality(To) = Cardinality(T)
  <2> DEFINE n == Cardinality(T)
  <2>1. n \in Nat
    BY <1>1
  <2> HIDE DEF n
  <2>2. IsFiniteSet(0 .. n - 1)
    BY <2>1, FS_Interval
  <2>3. Cardinality(0 .. n - 1) = IF 0 > n - 1 THEN 0 ELSE n - 1 - 0 + 1
    BY <2>1, FS_Interval
  <2>4. (IF 0 > n - 1 THEN 0 ELSE n - 1 - 0 + 1) = n
    BY <2>1
  <2>5. Cardinality(0 .. n - 1) = n
    BY <2>3, <2>4
  <2> QED  BY <2>2, <2>5 DEF n
<1>7. rank \in Surjection(T, To)
  <2> HIDE DEF rank, To
  <2> QED  BY <1>5, <1>6, FS_Injection
<1> QED  BY <1>5, <1>7 DEF Bijection

(***************************************************************************)
(* The first m of a set of positions are as many as there are, up to m.    *)
(***************************************************************************)
FirstOf(T, m) == {p \in T : Cardinality(Ahead(T, p)) < m}

LEMMA FirstOfSize ==
    ASSUME Frame, NEW T \in SUBSET Positions, NEW m \in Int
    PROVE  Cardinality(FirstOf(T, m)) =
               IF m <= 0 THEN 0 ELSE IF m <= Cardinality(T) THEN m ELSE Cardinality(T)
<1> DEFINE rank == [p \in T |-> Cardinality(Ahead(T, p))]
           size == IF m <= 0 THEN 0
                   ELSE IF m <= Cardinality(T) THEN m ELSE Cardinality(T)
           To == 0 .. size - 1
<1>1. Cardinality(T) \in Nat
  BY PositionsFinite
<1>2. rank \in Bijection(T, 0 .. Cardinality(T) - 1)
  BY Ranks
<1>3. /\ \A p \in T : rank[p] \in 0 .. Cardinality(T) - 1
      /\ \A p, q \in T : rank[p] = rank[q] => p = q
      /\ \A n \in 0 .. Cardinality(T) - 1 : \E p \in T : rank[p] = n
  <2> HIDE DEF rank
  <2> QED  BY <1>2 DEF Bijection, Injection, Surjection, IsInjective
<1>4. FirstOf(T, m) = {p \in T : rank[p] < m}
  BY DEF FirstOf
<1>5. size \in Nat /\ IsFiniteSet(To) /\ Cardinality(To) = size
  <2>1. size \in Nat
    BY <1>1
  <2>2. 0 \in Int /\ size - 1 \in Int
    BY <2>1
  <2> HIDE DEF size
  <2> QED  BY <2>1, <2>2, FS_Interval
<1> DEFINE g == [p \in FirstOf(T, m) |-> rank[p]]
<1>6. g \in Bijection(FirstOf(T, m), To)
  <2> HIDE DEF rank
  <2>1. \A p \in FirstOf(T, m) : rank[p] \in To
    BY <1>1, <1>3, <1>4
  <2>2. \A n \in To : \E p \in FirstOf(T, m) : rank[p] = n
    BY <1>1, <1>3, <1>4
  <2>3. \A p, q \in FirstOf(T, m) : rank[p] = rank[q] => p = q
    BY <1>3, <1>4
  <2> HIDE DEF To
  <2> QED
    BY <2>1, <2>2, <2>3 DEF Bijection, Injection, Surjection, IsInjective
<1>7. ExistsBijection(FirstOf(T, m), To)
  BY <1>6, Zenon DEF ExistsBijection
<1>8. IsFiniteSet(FirstOf(T, m))
  BY PositionsFinite DEF FirstOf
<1>9. Cardinality(To) = Cardinality(FirstOf(T, m))
  <2> HIDE DEF To
  <2> QED  BY <1>7, <1>8, FS_Bijection
<1> HIDE DEF size
<1>10. Cardinality(FirstOf(T, m)) = size
  BY <1>5, <1>9
<1> QED  BY <1>10 DEF size

(***************************************************************************)
(* Of the positions with a value v, those among the first k of a set are   *)
(* as many as there is room for after the positions with lesser values.    *)
(***************************************************************************)
AtValue(T, v) == {p \in T : list[p] = v}

BelowValue(T, v) == {p \in T : list[p] < v}

LEMMA DisjointSize ==
    ASSUME NEW S \in SUBSET Positions, NEW T \in SUBSET Positions, S \cap T = {}
    PROVE  Cardinality(S \cup T) = Cardinality(S) + Cardinality(T)
<1>1. IsFiniteSet(S) /\ IsFiniteSet(T)
  BY PositionsFinite
<1>2. Cardinality(S \cup T) = Cardinality(S) + Cardinality(T) - Cardinality(S \cap T)
  BY <1>1, FS_Union
<1>3. Cardinality(S \cap T) = 0
  BY FS_EmptySet
<1>4. Cardinality(S) \in Nat /\ Cardinality(T) \in Nat
  BY PositionsFinite
<1> QED  BY <1>2, <1>3, <1>4

LEMMA FirstAtValue ==
    ASSUME Frame, NEW T \in SUBSET Positions, NEW v \in Nat
    PROVE  AtValue(FirstOf(T, k), v) =
               FirstOf(AtValue(T, v), k - Cardinality(BelowValue(T, v)))
<1> DEFINE At == AtValue(T, v)
           Low == BelowValue(T, v)
<1>1. /\ At \in SUBSET Positions /\ Low \in SUBSET Positions
      /\ Cardinality(Low) \in Nat /\ k \in Nat
  <2>1. At \in SUBSET Positions /\ Low \in SUBSET Positions
    BY DEF AtValue, BelowValue
  <2> QED  BY <2>1, PositionsFinite, ListNumbers
<1>2. ASSUME NEW p \in At
      PROVE  Cardinality(Ahead(T, p)) = Cardinality(Low) + Cardinality(Ahead(At, p))
  <2>1. p \in T /\ list[p] = v /\ v \in Nat
    BY DEF AtValue
  <2>2. Ahead(T, p) = Low \cup Ahead(At, p)
    BY <2>1, ListNumbers DEF Ahead, Before, AtValue, BelowValue
  <2>3. Low \cap Ahead(At, p) = {}
    BY <2>1, ListNumbers DEF Ahead, AtValue, BelowValue
  <2>4. Ahead(At, p) \in SUBSET Positions
    BY <1>1 DEF Ahead
  <2> HIDE DEF At, Low
  <2> QED  BY <1>1, <2>2, <2>3, <2>4, DisjointSize
<1>3. ASSUME NEW p \in At
      PROVE  Cardinality(Ahead(At, p)) \in Nat
  BY <1>1, PositionsFinite DEF Ahead
<1>4. ASSUME NEW p \in At
      PROVE  Cardinality(Ahead(T, p)) < k
                 <=> Cardinality(Ahead(At, p)) < k - Cardinality(Low)
  BY <1>1, <1>2, <1>3
<1>5. AtValue(FirstOf(T, k), v) = {p \in At : Cardinality(Ahead(T, p)) < k}
  BY DEF AtValue, FirstOf
<1>6. FirstOf(At, k - Cardinality(Low)) =
          {p \in At : Cardinality(Ahead(At, p)) < k - Cardinality(Low)}
  BY DEF FirstOf
<1> HIDE DEF At, Low
<1> QED  BY <1>4, <1>5, <1>6 DEF At, Low

-----------------------------------------------------------------------------
(***************************************************************************)
(* A search picks a position of a set T for every slot, none twice, and    *)
(* leaves out none that is less than one it has picked.  The slots with a  *)
(* value are then as many as the positions with it among the first k of T. *)
(***************************************************************************)
Picks(h, T) ==
    /\ h \in [Slots -> T]
    /\ \A i \in Slots : list[h[i]] = scores[i]
    /\ \A i, j \in Slots : h[i] = h[j] => i = j
    /\ \A p \in T :
           \/ \E i \in Slots : h[i] = p
           \/ results = k /\ \A i \in Slots : scores[i] <= list[p]

SlotsAt(v) == {i \in Slots : scores[i] = v}
SlotsBelow(v) == {i \in Slots : scores[i] < v}
SlotsAbove(v) == {i \in Slots : scores[i] > v}

LEMMA SlotSetFinite ==
    ASSUME Frame, NEW S \in SUBSET Slots
    PROVE  IsFiniteSet(S) /\ Cardinality(S) \in Nat
<1>1. IsFiniteSet(Slots)
  <2>1. 0 \in Int /\ results - 1 \in Int
    BY ListNumbers
  <2> QED  BY <2>1, FS_Interval DEF Slots
<1> QED  BY <1>1, FS_Subset, FS_CardinalityType

LEMMA PickedSize ==
    ASSUME Frame, NEW S \in SUBSET Slots, NEW Q \in SUBSET Positions, NEW h,
           \A i \in S : h[i] \in Q,
           \A i, j \in S : h[i] = h[j] => i = j
    PROVE  /\ Cardinality(S) <= Cardinality(Q)
           /\ (\A p \in Q : \E i \in S : h[i] = p) => Cardinality(S) = Cardinality(Q)
<1> DEFINE g == [i \in S |-> h[i]]
<1>1. g \in Injection(S, Q)
  <2>1. g \in [S -> Q] /\ \A i, j \in S : g[i] = g[j] => i = j
    OBVIOUS
  <2> HIDE DEF g
  <2> QED  BY <2>1 DEF Injection, IsInjective
<1>2. IsFiniteSet(Q)
  BY PositionsFinite
<1>3. /\ Cardinality(S) <= Cardinality(Q)
      /\ Cardinality(S) = Cardinality(Q) <=> g \in Surjection(S, Q)
  <2> HIDE DEF g
  <2> QED  BY <1>1, <1>2, FS_Injection
<1>4. ASSUME \A p \in Q : \E i \in S : h[i] = p
      PROVE  g \in Surjection(S, Q)
  <2>1. g \in [S -> Q] /\ \A p \in Q : \E i \in S : g[i] = p
    BY <1>4
  <2> HIDE DEF g
  <2> QED  BY <2>1 DEF Surjection
<1> QED  BY <1>3, <1>4

LEMMA ThreeParts ==
    ASSUME NEW a \in Nat, NEW b \in Nat, NEW c \in Nat, NEW ab, NEW abc, NEW none,
           none = 0, ab = a + b - none, abc = ab + c - none
    PROVE  a + b + c = abc
OBVIOUS

\* a slots with less, b with the value, c with more; low and at positions with
\* less and with the value.
LEMMA CountsAgree ==
    ASSUME NEW a \in Nat, NEW b \in Nat, NEW c \in Nat, NEW low \in Nat, NEW at \in Nat,
           NEW n \in Nat, NEW most \in Nat,
           n <= most, a + b + c = n, a <= low, b <= at,
           b # 0 \/ c # 0 \/ n < most => a = low,
           c # 0 \/ n < most => b = at
    PROVE  b = IF most - low <= 0 THEN 0 ELSE IF most - low <= at THEN most - low ELSE at
OBVIOUS

LEMMA PicksCount ==
    ASSUME Frame, NEW T \in SUBSET Positions, NEW h, Picks(h, T), NEW v \in Nat
    PROVE  Cardinality(SlotsAt(v)) = Cardinality(AtValue(FirstOf(T, k), v))
<1> DEFINE A == SlotsBelow(v)
           B == SlotsAt(v)
           C == SlotsAbove(v)
           Low == BelowValue(T, v)
           At == AtValue(T, v)
           m == k - Cardinality(Low)
<1>1. \A i \in Slots : h[i] \in T /\ scores[i] = list[h[i]] /\ scores[i] \in Nat
  BY ListNumbers DEF Picks
<1>2. /\ At \in SUBSET Positions /\ Low \in SUBSET Positions
      /\ A \in SUBSET Slots /\ B \in SUBSET Slots /\ C \in SUBSET Slots
  BY DEF AtValue, BelowValue, SlotsBelow, SlotsAt, SlotsAbove
<1>3. /\ Cardinality(At) \in Nat /\ Cardinality(Low) \in Nat
      /\ Cardinality(A) \in Nat /\ Cardinality(B) \in Nat /\ Cardinality(C) \in Nat
  BY <1>2, PositionsFinite, SlotSetFinite
<1>4. /\ results \in Nat /\ k \in Nat /\ results <= k
      /\ IsFiniteSet(Slots) /\ Cardinality(Slots) = results
  <2>1. results \in Nat /\ k \in Nat /\ results <= k
    BY ListNumbers DEF Frame
  <2>2. 0 \in Int /\ results - 1 \in Int
    BY <2>1
  <2>3. IsFiniteSet(Slots) /\ Cardinality(Slots) = results
    BY <2>1, <2>2, FS_Interval DEF Slots
  <2> QED  BY <2>1, <2>3
<1>5. Cardinality(A) + Cardinality(B) + Cardinality(C) = results
  <2>1. IsFiniteSet(A) /\ IsFiniteSet(B) /\ IsFiniteSet(C)
    BY <1>2, SlotSetFinite
  <2>2. A \cap B = {} /\ (A \cup B) \cap C = {} /\ (A \cup B) \cup C = Slots
    BY <1>1 DEF SlotsBelow, SlotsAt, SlotsAbove
  <2> HIDE DEF A, B, C
  <2>3. /\ IsFiniteSet(A \cup B)
        /\ Cardinality(A \cup B) = Cardinality(A) + Cardinality(B) - Cardinality({})
    BY <2>1, <2>2, FS_Union
  <2>4. Cardinality((A \cup B) \cup C)
            = Cardinality(A \cup B) + Cardinality(C) - Cardinality({})
    BY <2>1, <2>2, <2>3, FS_Union
  <2>5. Cardinality({}) = 0
    BY FS_EmptySet
  <2>6. Cardinality(A) + Cardinality(B) + Cardinality(C) = Cardinality((A \cup B) \cup C)
    BY <1>3, <2>3, <2>4, <2>5, ThreeParts
  <2> QED  BY <1>4, <2>2, <2>6
<1>6. \A i, j \in Slots : h[i] = h[j] => i = j
  BY DEF Picks
<1>7. /\ Cardinality(B) <= Cardinality(At)
      /\ (\A p \in At : \E i \in Slots : h[i] = p) => Cardinality(B) = Cardinality(At)
  <2>1. \A i \in B : h[i] \in At
    BY <1>1 DEF SlotsAt, AtValue
  <2>2. ASSUME \A p \in At : \E i \in Slots : h[i] = p
        PROVE  \A p \in At : \E i \in B : h[i] = p
    BY <1>1, <2>2 DEF SlotsAt, AtValue
  <2>3. \A i, j \in B : h[i] = h[j] => i = j
    BY <1>2, <1>6
  <2> HIDE DEF B, At
  <2> QED  BY <1>2, <2>1, <2>2, <2>3, PickedSize
<1>8. /\ Cardinality(A) <= Cardinality(Low)
      /\ (\A p \in Low : \E i \in Slots : h[i] = p) => Cardinality(A) = Cardinality(Low)
  <2>1. \A i \in A : h[i] \in Low
    BY <1>1 DEF SlotsBelow, BelowValue
  <2>2. ASSUME \A p \in Low : \E i \in Slots : h[i] = p
        PROVE  \A p \in Low : \E i \in A : h[i] = p
    BY <1>1, <2>2 DEF SlotsBelow, BelowValue
  <2>3. \A i, j \in A : h[i] = h[j] => i = j
    BY <1>2, <1>6
  <2> HIDE DEF A, Low
  <2> QED  BY <1>2, <2>1, <2>2, <2>3, PickedSize
<1>9. ASSUME NEW p \in T, ~\E i \in Slots : h[i] = p
      PROVE  results = k /\ \A i \in Slots : scores[i] <= list[p]
  BY <1>9 DEF Picks
<1>10. B # {} \/ C # {} \/ results < k => Cardinality(A) = Cardinality(Low)
  <2>1. ASSUME B # {} \/ C # {} \/ results < k, NEW p \in Low
        PROVE  \E i \in Slots : h[i] = p
    <3>1. p \in T /\ list[p] < v /\ list[p] \in Nat
      BY ListNumbers DEF BelowValue
    <3>2. CASE results < k
      BY <1>4, <1>9, <3>1, <3>2
    <3>3. CASE B # {} \/ C # {}
      <4>1. PICK i \in Slots : scores[i] >= v
        BY <1>1, <3>3 DEF SlotsAt, SlotsAbove
      <4>2. ~(scores[i] <= list[p])
        BY <1>1, <3>1, <4>1
      <4> QED  BY <1>9, <3>1, <4>2
    <3> QED  BY <2>1, <3>2, <3>3
  <2> QED  BY <1>8, <2>1
<1>11. C # {} \/ results < k => Cardinality(B) = Cardinality(At)
  <2>1. ASSUME C # {} \/ results < k, NEW p \in At
        PROVE  \E i \in Slots : h[i] = p
    <3>1. p \in T /\ list[p] = v
      BY DEF AtValue
    <3>2. CASE results < k
      BY <1>4, <1>9, <3>1, <3>2
    <3>3. CASE C # {}
      <4>1. PICK i \in Slots : scores[i] > v
        BY <1>1, <3>3 DEF SlotsAbove
      <4>2. ~(scores[i] <= list[p])
        BY <1>1, <3>1, <4>1
      <4> QED  BY <1>9, <3>1, <4>2
    <3> QED  BY <2>1, <3>2, <3>3
  <2> QED  BY <1>7, <2>1
<1>12. /\ B # {} <=> Cardinality(B) # 0
       /\ C # {} <=> Cardinality(C) # 0
  <2>1. IsFiniteSet(B) /\ IsFiniteSet(C)
    BY <1>2, SlotSetFinite
  <2> QED  BY <2>1, FS_EmptySet
<1>13. Cardinality(AtValue(FirstOf(T, k), v)) =
           IF m <= 0 THEN 0 ELSE IF m <= Cardinality(At) THEN m ELSE Cardinality(At)
  <2>1. AtValue(FirstOf(T, k), v) = FirstOf(At, m)
    BY FirstAtValue
  <2>2. m \in Int
    BY <1>3, <1>4
  <2> HIDE DEF At, m
  <2> QED  BY <1>2, <2>1, <2>2, FirstOfSize
<1> HIDE DEF A, B, C, Low, At
<1>14. /\ Cardinality(B) # 0 \/ Cardinality(C) # 0 \/ results < k
              => Cardinality(A) = Cardinality(Low)
       /\ Cardinality(C) # 0 \/ results < k => Cardinality(B) = Cardinality(At)
  BY <1>10, <1>11, <1>12
<1>15. Cardinality(B) =
           IF m <= 0 THEN 0 ELSE IF m <= Cardinality(At) THEN m ELSE Cardinality(At)
  BY <1>3, <1>4, <1>5, <1>7, <1>8, <1>14, CountsAgree
<1> QED  BY <1>13, <1>15 DEF B

(***************************************************************************)
(* The positions picked, by a short range, by a longer one, and by one that *)
(* is to have unique values, of those that count.                          *)
(***************************************************************************)
LEMMA CountedFacts ==
    ASSUME Frame
    PROVE  /\ Counted \in SUBSET Positions
           /\ Counted \subseteq Asked
           /\ ~unique => Counted = Asked
           /\ unique =>
                  Counted = {p \in Asked : \A q \in Asked : list[p] = list[q] => p <= q}
           /\ RangeLength <= k /\ ~CopiesRepeats => Counted = Asked
           /\ Best = FirstOf(Counted, k)
<1>1. Asked \subseteq Positions
  BY ListNumbers
<1>2. /\ ~unique => Counted = Asked
      /\ unique =>
             Counted = {p \in Asked : \A q \in Asked : list[p] = list[q] => p <= q}
  BY DEF Counted, Asked
<1>3. Counted \subseteq Asked
  BY <1>2
<1>5. ASSUME RangeLength <= k, ~CopiesRepeats
      PROVE  Counted = Asked
  <2>1. unique => \A p, q \in Asked : list[p] = list[q] => p = q
    BY <1>5 DEF CopiesRepeats, Asked
  <2>2. \A p \in Asked : p <= p
    BY ListNumbers
  <2>3. unique => \A p, q \in Asked : list[p] = list[q] => p <= q
    BY <2>1, <2>2
  <2> QED  BY <1>2, <2>3
<1>4. Best = FirstOf(Counted, k)
  <2> DEFINE C == Counted
  <2>1. Best = {p \in C : Cardinality({q \in C :
                    list[q] < list[p] \/ (list[q] = list[p] /\ q < p)}) < k}
    BY DEF Best
  <2> HIDE DEF C
  <2>2. \A p : Ahead(C, p) = {q \in C : list[q] < list[p] \/ (list[q] = list[p] /\ q < p)}
    BY DEF Ahead, Before
  <2> QED  BY <2>1, <2>2 DEF FirstOf, C
<1> QED  BY <1>1, <1>2, <1>3, <1>4, <1>5

LEMMA ShortPicks ==
    ASSUME Frame, results = RangeLength, NEW f, PicksAll(f)
    PROVE  Picks(f, Asked)
<1>1. f \in Injection(Slots, Asked)
  BY DEF PicksAll, Injection, IsInjective
<1>2. IsFiniteSet(Asked) /\ Cardinality(Asked) = RangeLength
  BY AskedSize
<1>3. Cardinality(Slots) = results
  <2>1. results \in Nat /\ 0 \in Int /\ results - 1 \in Int
    BY ListNumbers
  <2> QED  BY <2>1, FS_Interval DEF Slots
<1>4. f \in Surjection(Slots, Asked)
  BY <1>1, <1>2, <1>3, FS_Injection
<1>5. \A p \in Asked : \E i \in Slots : f[i] = p
  BY <1>4 DEF Surjection
<1> QED  BY <1>5 DEF PicksAll, Picks

LEMMA LongPicks ==
    ASSUME Frame, ~unique, NEW f, PicksLeast(f)
    PROVE  Picks(f, Asked)
BY DEF PicksLeast, Picks

LEMMA UniquePicks ==
    ASSUME Frame, unique, SlotsAscend, NEW f, PicksLeast(f)
    PROVE  \E h : Picks(h, Counted)
<1> DEFINE Same(i) == {p \in Asked : list[p] = scores[i]}
           h == [i \in Slots |-> Least(Same(i))]
<1>1. Asked \subseteq Positions /\ \A p \in Asked : p \in Nat /\ list[p] \in Nat
  BY ListNumbers
<1>2. Counted = {p \in Asked : \A q \in Asked : list[p] = list[q] => p <= q}
  BY CountedFacts
<1>3. ASSUME NEW i \in Slots
      PROVE  /\ h[i] \in Asked /\ list[h[i]] = scores[i]
             /\ \A q \in Asked : list[q] = scores[i] => h[i] <= q
  <2>1. f[i] \in Same(i)
    BY DEF PicksLeast
  <2>2. Same(i) \in SUBSET Nat /\ Same(i) # {}
    BY <1>1, <2>1
  <2>3. Least(Same(i)) \in Same(i) /\ \A q \in Same(i) : Least(Same(i)) <= q
    <3> HIDE DEF Same
    <3> QED  BY <2>2, LeastExists
  <2>4. h[i] = Least(Same(i))
    OBVIOUS
  <2> HIDE DEF h
  <2> QED  BY <2>3, <2>4
<1>4. DOMAIN h = Slots /\ h = [i \in Slots |-> h[i]]
  OBVIOUS
<1> HIDE DEF h
<1>5. \A i \in Slots : h[i] \in Counted
  BY <1>2, <1>3
<1>6. h \in [Slots -> Counted]
  BY <1>4, <1>5
<1>7. ASSUME NEW i \in Slots, NEW j \in Slots, h[i] = h[j]
      PROVE  i = j
  <2>1. scores[i] = scores[j]
    BY <1>3, <1>7
  <2>2. i \in Int /\ j \in Int
    BY ListNumbers DEF Slots
  <2>3. ~(i < j) /\ ~(j < i)
    BY <2>1 DEF SlotsAscend
  <2> QED  BY <2>2, <2>3
<1>8. ASSUME NEW p \in Counted, ~\E i \in Slots : h[i] = p
      PROVE  results = k /\ \A i \in Slots : scores[i] <= list[p]
  <2>1. p \in Asked /\ \A q \in Asked : list[p] = list[q] => p <= q
    BY <1>2
  <2>2. ASSUME NEW i \in Slots, list[p] = scores[i]
        PROVE  FALSE
    <3>1. h[i] <= p /\ p <= h[i]
      BY <1>3, <2>1, <2>2
    <3>2. h[i] = p
      BY <1>1, <1>3, <2>1, <3>1
    <3> QED  BY <1>8, <3>2
  <2>3. list[p] \notin Filled
    BY <2>2 DEF Filled, Slots
  <2>4. ~\E i \in Slots : f[i] = p
    BY <2>2 DEF PicksLeast
  <2> QED  BY <2>1, <2>3, <2>4 DEF PicksLeast
<1>9. Picks(h, Counted)
  BY <1>3, <1>6, <1>7, <1>8 DEF Picks
<1> QED  BY <1>9

(***************************************************************************)
(* The strings of the answer are those of the slots.                       *)
(***************************************************************************)
LEMMA ExtractedCount ==
    ASSUME Frame, NEW v
    PROVE  Cardinality({i \in 1 .. results : Extracted[i] = v}) = Cardinality(SlotsAt(v))
<1> DEFINE E == {i \in 1 .. results : Extracted[i] = v}
           g == [i \in SlotsAt(v) |-> i + 1]
<1>1. results \in Nat
  BY ListNumbers
<1>2. \A i \in 1 .. results : Extracted[i] = scores[i - 1]
  BY DEF Extracted
<1>3. \A i \in SlotsAt(v) : i \in Nat /\ i + 1 \in E
  <2>1. \A i \in SlotsAt(v) : i \in Slots /\ scores[i] = v
    BY DEF SlotsAt
  <2>2. \A i \in Slots : i \in Nat /\ i + 1 \in 1 .. results /\ (i + 1) - 1 = i
    BY <1>1 DEF Slots
  <2> QED  BY <1>2, <2>1, <2>2
<1>4. \A j \in E : j - 1 \in SlotsAt(v) /\ (j - 1) + 1 = j
  BY <1>1, <1>2 DEF SlotsAt, Slots
<1>5. g \in Bijection(SlotsAt(v), E)
  <2>1. g \in [SlotsAt(v) -> E]
    BY <1>3
  <2>2. \A i, j \in SlotsAt(v) : g[i] = g[j] => i = j
    BY <1>3
  <2>3. \A j \in E : \E i \in SlotsAt(v) : g[i] = j
    BY <1>4
  <2> HIDE DEF g, E
  <2> QED
    BY <2>1, <2>2, <2>3 DEF Bijection, Injection, Surjection, IsInjective
<1>6. ExistsBijection(SlotsAt(v), E)
  BY <1>5, Zenon DEF ExistsBijection
<1>7. IsFiniteSet(SlotsAt(v))
  BY SlotSetFinite DEF SlotsAt
<1>8. Cardinality(E) = Cardinality(SlotsAt(v))
  <2> HIDE DEF E
  <2> QED  BY <1>6, <1>7, FS_Bijection
<1> QED  BY <1>8

(***************************************************************************)
(* topk answers with the k least values of the range, as often as they     *)
(* occur, or each once if they are to be unique, ascending, whatever       *)
(* earlier calls left in the scores and the queue; unless unique values    *)
(* are asked of a range no longer than k that repeats some.                *)
(***************************************************************************)
THEOREM ListLeastValues ==
    ListSpec => []LeastValues
<1>1. UInv => LeastValues
  <2> SUFFICES ASSUME UInv, phase = "extract", ~CopiesRepeats
               PROVE  /\ \A i, j \in 1 .. results : i < j => Extracted[i] <= Extracted[j]
                      /\ \A v \in DocIds :
                             Cardinality({i \in 1 .. results : Extracted[i] = v})
                                 = Cardinality({p \in Best : list[p] = v})
    BY DEF LeastValues
  <2>1. Frame /\ LeastFound /\ AllFound
    BY DEF UInv
  <2>2. RangeLength \in Int /\ k \in Int /\ results \in Nat
    BY <2>1, ListNumbers DEF RangeLength
  <2>3. /\ \A i, j \in Slots : i < j => scores[i] <= scores[j]
        /\ \E h : Picks(h, Counted)
    <3>1. CASE RangeLength <= k
      <4>1. PICK f : PicksAll(f)
        BY <2>1, <3>1 DEF AllFound
      <4>2. results = RangeLength
        BY <2>1, <3>1 DEF AllFound
      <4>3. Picks(f, Asked)
        BY <2>1, <4>1, <4>2, ShortPicks
      <4>4. Counted = Asked
        BY <2>1, <3>1, CountedFacts
      <4> QED  BY <4>1, <4>3, <4>4 DEF PicksAll
    <3>2. CASE RangeLength > k
      <4>1. SlotsAscend
        BY <2>1, <3>2 DEF LeastFound
      <4>2. PICK f : PicksLeast(f)
        BY <2>1, <3>2 DEF LeastFound
      <4>3. CASE unique
        BY <2>1, <4>1, <4>2, <4>3, UniquePicks DEF SlotsAscend
      <4>4. CASE ~unique
        <5>1. Picks(f, Asked)
          BY <2>1, <4>2, <4>4, LongPicks
        <5>2. Counted = Asked
          BY <2>1, <4>4, CountedFacts
        <5> QED  BY <4>1, <5>1, <5>2 DEF SlotsAscend
      <4> QED  BY <4>3, <4>4
    <3> QED  BY <2>2, <3>1, <3>2
  <2>4. PICK h : Picks(h, Counted)
    BY <2>3
  <2>5. ASSUME NEW v \in DocIds
        PROVE  Cardinality({i \in 1 .. results : Extracted[i] = v})
                   = Cardinality({p \in Best : list[p] = v})
    <3>1. v \in Nat
      BY Universe
    <3>2. Counted \in SUBSET Positions /\ Best = FirstOf(Counted, k)
      BY <2>1, CountedFacts
    <3>3. Cardinality(SlotsAt(v)) = Cardinality(AtValue(FirstOf(Counted, k), v))
      BY <2>1, <2>4, <3>1, <3>2, PicksCount
    <3>4. AtValue(Best, v) = {p \in Best : list[p] = v}
      BY DEF AtValue
    <3> QED  BY <2>1, <3>2, <3>3, <3>4, ExtractedCount
  <2>6. \A i, j \in 1 .. results : i < j => Extracted[i] <= Extracted[j]
    <3> SUFFICES ASSUME NEW i \in 1 .. results, NEW j \in 1 .. results, i < j
                 PROVE  Extracted[i] <= Extracted[j]
      OBVIOUS
    <3>1. i - 1 \in Slots /\ j - 1 \in Slots /\ i - 1 < j - 1
      BY <2>2 DEF Slots
    <3>2. scores[i - 1] <= scores[j - 1]
      BY <2>3, <3>1
    <3> QED  BY <3>2 DEF Extracted
  <2> QED  BY <2>5, <2>6
<1> QED  BY <1>1, ListInductive, PTL

=============================================================================

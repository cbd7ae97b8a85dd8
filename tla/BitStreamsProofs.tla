-------------------------- MODULE BitStreamsProofs --------------------------
(***************************************************************************)
(* The words of a bit vector hold the bits that its builder was given,     *)
(* whatever their number, the width of a word and the order of the calls,  *)
(* and its readers return those bits.                                      *)
(***************************************************************************)
EXTENDS BitStreams, FiniteSetTheorems, SequenceTheorems, WellFoundedInduction,
        TLAPS

-----------------------------------------------------------------------------
(***************************************************************************)
(* Positions.  Word i begins at bit Start(i), and a position is a bit of   *)
(* one word.                                                               *)
(***************************************************************************)
Start(i) == i * WordBits

LEMMA Width == WordBits \in Nat \ {0}
BY WordAssumption

LEMMA StartIs == \A i \in Nat : Start(i) \in Nat
BY Width DEF Start

LEMMA StartZero == Start(0) = 0
BY Width DEF Start

LEMMA StartNext == \A i \in Nat : Start(i + 1) = Start(i) + WordBits
BY Width DEF Start

LEMMA StartAscends ==
    ASSUME NEW i \in Nat, NEW j \in Nat, i < j
    PROVE  Start(i) + WordBits <= Start(j)
<1>1. PICK d \in Nat : j = i + 1 + d
  <2>1. j - (i + 1) \in Nat /\ j = i + 1 + (j - (i + 1))
    OBVIOUS
  <2> QED  BY <2>1
<1>2. d * WordBits \in Nat
  BY Width
<1>3. j * WordBits = i * WordBits + WordBits + d * WordBits
  BY <1>1, Width
<1>4. i * WordBits \in Nat
  BY Width
<1> QED  BY <1>2, <1>3, <1>4, Width DEF Start

LEMMA Position ==
    ASSUME NEW pos \in Nat
    PROVE  /\ WordOf(pos) \in Nat
           /\ InWord(pos) \in Word
           /\ pos = Start(WordOf(pos)) + InWord(pos)
<1>1. pos \div WordBits \in Nat /\ pos % WordBits \in 0 .. WordBits - 1
  BY Width
<1>2. pos = WordBits * (pos \div WordBits) + (pos % WordBits)
  BY Width
<1> DEFINE q == pos \div WordBits
           r == pos % WordBits
<1> HIDE DEF q, r
<1>3. q \in Nat /\ r \in 0 .. WordBits - 1 /\ pos = WordBits * q + r
  BY <1>1, <1>2 DEF q, r
<1>4. WordBits * q = q * WordBits
  BY <1>3, Width
<1>5. pos = q * WordBits + r
  BY <1>3, <1>4
<1> QED  BY <1>3, <1>5 DEF q, r, WordOf, InWord, Word, Start

LEMMA PositionOf ==
    ASSUME NEW i \in Nat, NEW b \in Word
    PROVE  /\ Start(i) + b \in Nat
           /\ WordOf(Start(i) + b) = i
           /\ InWord(Start(i) + b) = b
<1> DEFINE pos == Start(i) + b
           j == WordOf(pos)
           c == InWord(pos)
<1>1. b \in Nat /\ b < WordBits /\ Start(i) \in Nat
  BY Width, StartIs DEF Word
<1>2. pos \in Nat
  BY <1>1
<1> HIDE DEF pos
<1>3. j \in Nat /\ c \in Nat /\ c < WordBits /\ pos = Start(j) + c
  BY <1>2, Position, Width DEF Word
<1> HIDE DEF j, c
<1>4. Start(j) \in Nat
  BY <1>3, StartIs
<1>5. CASE j < i
  <2>1. Start(j) + WordBits <= Start(i)
    BY <1>3, <1>5, StartAscends
  <2> QED  BY <2>1, <1>1, <1>3, <1>4, Width DEF pos
<1>6. CASE i < j
  <2>1. Start(i) + WordBits <= Start(j)
    BY <1>3, <1>6, StartAscends
  <2> QED  BY <2>1, <1>1, <1>3, <1>4, Width DEF pos
<1>7. CASE i = j
  BY <1>1, <1>2, <1>3, <1>4, <1>7 DEF pos, j, c
<1> QED  BY <1>3, <1>5, <1>6, <1>7

\* A size is a number of whole words, and perhaps a part of another.
LEMMA WordsForIs ==
    ASSUME NEW n \in Nat
    PROVE  WordsFor(n) = IF InWord(n) = 0 THEN WordOf(n) ELSE WordOf(n) + 1
<1> DEFINE q == WordOf(n)
           r == InWord(n)
<1>1. q \in Nat /\ r \in Word /\ n = Start(q) + r
  BY Position
<1> HIDE DEF q, r
<1>2. r \in Nat /\ r < WordBits /\ Start(q) \in Nat /\ Start(q + 1) = Start(q) + WordBits
      /\ q + 1 \in Nat
  BY <1>1, Width, StartIs, StartNext DEF Word
<1>3. CASE r = 0
  <2>1. n + WordBits - 1 = Start(q) + (WordBits - 1) /\ WordBits - 1 \in Word
    BY <1>1, <1>2, <1>3, Width DEF Word
  <2>2. WordOf(n + WordBits - 1) = q
    BY <1>1, <2>1, PositionOf
  <2> QED  BY <2>2, <1>3 DEF q, r, WordsFor, CeilDiv, WordOf
<1>4. CASE r # 0
  <2>1. n + WordBits - 1 = Start(q + 1) + (r - 1) /\ r - 1 \in Word
    BY <1>1, <1>2, <1>4, Width DEF Word
  <2>2. WordOf(n + WordBits - 1) = q + 1
    BY <1>2, <2>1, PositionOf
  <2> QED  BY <2>2, <1>4 DEF q, r, WordsFor, CeilDiv, WordOf
<1> QED  BY <1>3, <1>4

LEMMA WordsForBounds ==
    ASSUME NEW n \in Nat
    PROVE  /\ WordsFor(n) \in Nat
           /\ n <= Start(WordsFor(n))
           /\ WordsFor(n) # 0 => Start(WordsFor(n) - 1) < n
<1> DEFINE q == WordOf(n)
           r == InWord(n)
           k == WordsFor(n)
<1>1. q \in Nat /\ r \in Word /\ n = Start(q) + r
  BY Position
<1>2. k = IF r = 0 THEN q ELSE q + 1
  BY WordsForIs
<1> HIDE DEF q, r, k
<1>3. r \in Nat /\ r < WordBits /\ Start(q) \in Nat /\ Start(q + 1) = Start(q) + WordBits
  BY <1>1, Width, StartIs, StartNext DEF Word
<1>4. ASSUME r = 0, q # 0
      PROVE  Start(q - 1) < n
  <2>1. q - 1 \in Nat /\ (q - 1) + 1 = q
    BY <1>1, <1>4
  <2>2. Start(q) = Start(q - 1) + WordBits /\ Start(q - 1) \in Nat
    BY <2>1, StartIs, StartNext
  <2> QED  BY <1>1, <1>4, <2>2, Width
<1>5. (q + 1) - 1 = q /\ q + 1 \in Nat
  BY <1>1
<1>6. CASE r = 0
  BY <1>1, <1>2, <1>3, <1>4, <1>6 DEF k
<1>7. CASE r # 0
  <2>1. k = q + 1 /\ k - 1 = q
    BY <1>2, <1>5, <1>7
  <2>2. n <= Start(k) /\ Start(k - 1) < n
    BY <2>1, <1>1, <1>3, <1>7, Width
  <2> QED  BY <2>1, <2>2, <1>5 DEF k
<1> QED  BY <1>6, <1>7

LEMMA WordsForBy ==
    ASSUME NEW n \in Nat, NEW k \in Nat, n <= Start(k), k # 0 => Start(k - 1) < n
    PROVE  WordsFor(n) = k
<1> DEFINE l == WordsFor(n)
<1>1. l \in Nat /\ n <= Start(l) /\ (l # 0 => Start(l - 1) < n)
  BY WordsForBounds
<1> HIDE DEF l
<1>2. Start(k) \in Nat /\ Start(l) \in Nat
  BY <1>1, StartIs
<1>3. ~ (l < k)
  <2> SUFFICES ASSUME l < k
               PROVE  FALSE
    OBVIOUS
  <2>1. k - 1 \in Nat /\ l <= k - 1 /\ k # 0
    BY <1>1
  <2>2. Start(l) <= Start(k - 1)
    <3>1. CASE l = k - 1
      BY <3>1, <1>2
    <3>2. CASE l < k - 1
      BY <3>2, <2>1, <1>1, <1>2, StartAscends, StartIs, Width
    <3> QED  BY <3>1, <3>2, <2>1, <1>1
  <2>3. Start(k - 1) \in Nat
    BY <2>1, StartIs
  <2> QED  BY <1>1, <1>2, <2>1, <2>2, <2>3
<1>4. ~ (k < l)
  <2> SUFFICES ASSUME k < l
               PROVE  FALSE
    OBVIOUS
  <2>1. l - 1 \in Nat /\ k <= l - 1 /\ l # 0
    BY <1>1
  <2>2. Start(k) <= Start(l - 1)
    <3>1. CASE k = l - 1
      BY <3>1, <1>2
    <3>2. CASE k < l - 1
      BY <3>2, <2>1, <1>1, <1>2, StartAscends, StartIs, Width
    <3> QED  BY <3>1, <3>2, <2>1, <1>1
  <2>3. Start(l - 1) \in Nat
    BY <2>1, StartIs
  <2> QED  BY <1>1, <1>2, <2>1, <2>2, <2>3
<1> QED  BY <1>1, <1>3, <1>4 DEF l

\* Whether a bit comes before a position.
LEMMA Before ==
    ASSUME NEW i \in Nat, NEW b \in Word, NEW n \in Nat
    PROVE  Start(i) + b < n <=> i < WordOf(n) \/ (i = WordOf(n) /\ b < InWord(n))
<1> DEFINE q == WordOf(n)
           r == InWord(n)
<1>1. q \in Nat /\ r \in Word /\ n = Start(q) + r
  BY Position
<1> HIDE DEF q, r
<1>2. /\ r \in Nat /\ r < WordBits /\ b \in Nat /\ b < WordBits
      /\ Start(q) \in Nat /\ Start(i) \in Nat
  BY <1>1, Width, StartIs DEF Word
<1>3. CASE i < q
  BY <1>1, <1>2, <1>3, StartAscends, Width DEF q
<1>4. CASE i = q
  BY <1>1, <1>2, <1>4 DEF q, r
<1>5. CASE q < i
  BY <1>1, <1>2, <1>5, StartAscends, Width DEF q
<1> QED  BY <1>1, <1>3, <1>4, <1>5

-----------------------------------------------------------------------------
(***************************************************************************)
(* Shifts.                                                                 *)
(***************************************************************************)
LEMMA Left ==
    ASSUME NEW x \in SUBSET Nat, NEW n \in Nat, NEW b \in Word
    PROVE  b \in ShiftLeft(x, n) <=> b >= n /\ b - n \in x
<1>1. b \in Nat
  BY Width DEF Word
<1>2. ASSUME b \in ShiftLeft(x, n)
      PROVE  b >= n /\ b - n \in x
  <2>1. PICK c \in x : b = c + n
    BY <1>2 DEF ShiftLeft
  <2>2. c \in Nat /\ b - n = c /\ b >= n
    BY <2>1
  <2> QED  BY <2>1, <2>2
<1>3. ASSUME b >= n, b - n \in x
      PROVE  b \in ShiftLeft(x, n)
  <2>1. b = (b - n) + n
    BY <1>1
  <2> QED  BY <1>3, <2>1 DEF ShiftLeft
<1> QED  BY <1>2, <1>3

LEMMA Right ==
    ASSUME NEW x \in SUBSET Nat, NEW n \in Nat, NEW b \in Nat
    PROVE  b \in ShiftRight(x, n) <=> b + n \in x
<1>1. ASSUME b \in ShiftRight(x, n)
      PROVE  b + n \in x
  <2>1. PICK c \in x : b = c - n
    BY <1>1 DEF ShiftRight
  <2>2. c \in Nat /\ b + n = c
    BY <2>1
  <2> QED  BY <2>1, <2>2
<1>2. ASSUME b + n \in x
      PROVE  b \in ShiftRight(x, n)
  <2>1. b = (b + n) - n /\ b + n >= n
    OBVIOUS
  <2>2. b + n \in {c \in x : c >= n}
    BY <1>2, <2>1
  <2> QED  BY <2>1, <2>2 DEF ShiftRight
<1> QED  BY <1>1, <1>2

LEMMA WordIsSet == Word \in SUBSET Nat
BY Width DEF Word

LEMMA LeftIsWord ==
    ASSUME NEW x, NEW n
    PROVE  ShiftLeft(x, n) \in SUBSET Word
BY DEF ShiftLeft

LEMMA RightIsWord ==
    ASSUME NEW x \in SUBSET Word, NEW n \in Nat
    PROVE  ShiftRight(x, n) \in SUBSET Word
<1>1. ASSUME NEW b \in ShiftRight(x, n)
      PROVE  b \in Word
  <2>1. PICK c \in x : b = c - n /\ c >= n
    BY <1>1 DEF ShiftRight
  <2> QED  BY <2>1, Width DEF Word
<1> QED  BY <1>1

-----------------------------------------------------------------------------
(***************************************************************************)
(* The inductive invariant.  A bit of a word is a one when it is the place *)
(* of a bit that was given and that is a one, so the bits behind the last  *)
(* are zeros: without this, a word that is written to at its end would not *)
(* hold the bits given next.                                               *)
(***************************************************************************)
Bits == Seq({0, 1})

IsOne(seq, pos) == pos < Len(seq) /\ seq[pos + 1] = 1

HoldsBits(words, seq) ==
    /\ words \in Seq(SUBSET Word)
    /\ Len(words) = WordsFor(Len(seq))
    /\ \A i \in 0 .. Len(words) - 1 : \A b \in Word :
        b \in words[i + 1] <=> IsOne(seq, Start(i) + b)

Holds(x, seq) ==
    /\ x = [words |-> x.words, size |-> Len(seq), cur |-> Len(x.words)]
    /\ HoldsBits(x.words, seq)

LEMMA HoldsFacts ==
    ASSUME NEW x, NEW seq, Holds(x, seq)
    PROVE  /\ x.words \in Seq(SUBSET Word)
           /\ Len(x.words) = WordsFor(Len(seq))
           /\ x.size = Len(seq)
           /\ x.cur = Len(x.words)
           /\ Len(x.words) \in Nat
<1>1. x.words \in Seq(SUBSET Word) /\ Len(x.words) = WordsFor(Len(seq))
  BY DEF Holds, HoldsBits
<1>2. x = [words |-> x.words, size |-> Len(seq), cur |-> Len(x.words)]
  BY DEF Holds
<1>3. x.size = Len(seq)
  BY <1>2
<1>4. x.cur = Len(x.words)
  BY <1>2
<1> QED  BY <1>1, <1>3, <1>4

LEMMA HoldsOnes ==
    ASSUME NEW x, NEW seq, Holds(x, seq), NEW i \in 0 .. Len(x.words) - 1, NEW b \in Word
    PROVE  b \in x.words[i + 1] <=> IsOne(seq, Start(i) + b)
BY DEF Holds, HoldsBits

\* Words of the right number, with the right bits.
LEMMA HoldsBy ==
    ASSUME NEW words \in Seq(SUBSET Word), NEW seq \in Bits,
           Len(words) = WordsFor(Len(seq)),
           \A i \in 0 .. Len(words) - 1 : \A b \in Word :
               b \in words[i + 1] <=> IsOne(seq, Start(i) + b)
    PROVE  Holds([words |-> words, size |-> Len(seq), cur |-> Len(words)], seq)
BY DEF Holds, HoldsBits

LEMMA EmptyHolds == Holds(EmptyBuilder, <<>>)
<1>1. InWord(0) = 0 /\ WordOf(0) = 0
  <2>1. 0 \in Word /\ Start(0) + 0 = 0
    BY Width, StartZero DEF Word
  <2> QED  BY <2>1, PositionOf
<1>2. WordsFor(0) = 0
  BY <1>1, WordsForIs
<1> DEFINE full(i) == IF i = 0 /\ InWord(0) # 0 THEN LowMask(InWord(0)) ELSE Word
           words == [i \in 1 .. 0 |-> IF FALSE THEN full(i) ELSE {}]
<1>3. words = <<>>
  OBVIOUS
<1>4. EmptyBuilder = [words |-> words, size |-> 0, cur |-> 0]
  BY <1>2 DEF EmptyBuilder, NewBuilder
<1>5. /\ <<>> \in Seq(SUBSET Word) /\ <<>> \in Bits /\ Len(<<>>) = 0
      /\ 0 .. Len(<<>>) - 1 = {}
  BY DEF Bits
<1> HIDE DEF words
<1>6. Holds([words |-> <<>>, size |-> Len(<<>>), cur |-> Len(<<>>)], <<>>)
  BY <1>2, <1>5, HoldsBy
<1> QED  BY <1>3, <1>4, <1>5, <1>6

LEMMA LenBits ==
    ASSUME NEW seq \in Bits
    PROVE  Len(seq) \in Nat /\ DOMAIN seq = 1 .. Len(seq)
BY DEF Bits

\* A word of a sequence of words is replaced.
LEMMA WordReplaced ==
    ASSUME NEW words \in Seq(SUBSET Word), NEW i \in 0 .. Len(words) - 1, NEW w \in SUBSET Word
    PROVE  /\ [words EXCEPT ![i + 1] = w] \in Seq(SUBSET Word)
           /\ Len([words EXCEPT ![i + 1] = w]) = Len(words)
           /\ \A j \in 0 .. Len(words) - 1 :
                [words EXCEPT ![i + 1] = w][j + 1] = IF j = i THEN w ELSE words[j + 1]
<1>1. i + 1 \in 1 .. Len(words)
  OBVIOUS
<1>2. /\ [words EXCEPT ![i + 1] = w] \in Seq(SUBSET Word)
      /\ Len([words EXCEPT ![i + 1] = w]) = Len(words)
      /\ \A j \in 1 .. Len(words) :
            [words EXCEPT ![i + 1] = w][j] = IF j = i + 1 THEN w ELSE words[j]
  BY <1>1, ExceptSeq
<1> DEFINE result == [words EXCEPT ![i + 1] = w]
<1> HIDE DEF result
<1>3. ASSUME NEW j \in 0 .. Len(words) - 1
      PROVE  result[j + 1] = IF j = i THEN w ELSE words[j + 1]
  <2>1. j + 1 \in 1 .. Len(words) /\ (j + 1 = i + 1 <=> j = i)
    OBVIOUS
  <2>2. result[j + 1] = IF j + 1 = i + 1 THEN w ELSE words[j + 1]
    BY <1>2, <2>1 DEF result
  <2> QED  BY <2>1, <2>2
<1>4. result \in Seq(SUBSET Word) /\ Len(result) = Len(words)
  BY <1>2 DEF result
<1> QED  BY <1>3, <1>4 DEF result

(***************************************************************************)
(* push_back().                                                            *)
(***************************************************************************)
LEMMA WordsForMore ==
    ASSUME NEW n \in Nat
    PROVE  WordsFor(n + 1) = WordOf(n) + 1
<1> DEFINE q == WordOf(n)
           r == InWord(n)
<1>1. q \in Nat /\ r \in Word /\ n = Start(q) + r
  BY Position
<1> HIDE DEF q, r
<1>2. /\ r \in Nat /\ r < WordBits /\ Start(q) \in Nat
      /\ Start(q + 1) = Start(q) + WordBits /\ q + 1 \in Nat /\ (q + 1) - 1 = q
  BY <1>1, Width, StartIs, StartNext DEF Word
<1>3. n + 1 <= Start(q + 1) /\ Start(q) < n + 1 /\ n + 1 \in Nat
  BY <1>1, <1>2, Width
<1>4. WordsFor(n + 1) = q + 1
  BY <1>2, <1>3, WordsForBy
<1> QED  BY <1>4 DEF q

LEMMA PushHolds ==
    ASSUME NEW x, NEW seq \in Bits, Holds(x, seq), NEW bit \in {0, 1}
    PROVE  Holds(PushBack(x, bit), Append(seq, bit))
<1> DEFINE n == Len(seq)
           q == WordOf(n)
           r == InWord(n)
           more == Append(seq, bit)
           fresh == InWord(x.size) = 0
           words == IF fresh THEN Append(x.words, {}) ELSE x.words
           one == ShiftLeft({b \in {0} : bit = 1}, InWord(x.size))
           result == [words EXCEPT ![q + 1] = @ \cup one]
<1>1. n \in Nat /\ more \in Bits /\ Len(more) = n + 1
  BY LenBits DEF Bits
<1>2. q \in Nat /\ r \in Word /\ n = Start(q) + r /\ r \in Nat
  BY <1>1, Position, WordIsSet
<1>3. x.words \in Seq(SUBSET Word) /\ x.size = n /\ x.cur = Len(x.words)
      /\ Len(x.words) = IF r = 0 THEN q ELSE q + 1
  BY <1>1, HoldsFacts, WordsForIs
<1>4. \A b \in Word : b \in one <=> bit = 1 /\ b = r
  <2> TAKE b \in Word
  <2>1. {c \in {0} : bit = 1} \in SUBSET Nat
    OBVIOUS
  <2>2. b \in one <=> b >= r /\ b - r \in {c \in {0} : bit = 1}
    BY <1>2, <1>3, <2>1, Left
  <2>3. b \in Nat
    BY WordIsSet
  <2> QED  BY <2>2, <2>3, <1>2
<1>5. one \in SUBSET Word
  BY LeftIsWord
<1>6. words \in Seq(SUBSET Word) /\ Len(words) = q + 1
  BY <1>2, <1>3
<1> HIDE DEF one
<1>7. \A i \in 0 .. q : \A b \in Word : b \in words[i + 1] <=> IsOne(seq, Start(i) + b)
  <2> TAKE i \in 0 .. q
  <2> TAKE b \in Word
  <2>1. CASE i \in 0 .. Len(x.words) - 1
    <3>1. words[i + 1] = x.words[i + 1]
      BY <1>2, <1>3, <2>1
    <3> QED  BY <3>1, <2>1, HoldsOnes
  <2>2. CASE i \notin 0 .. Len(x.words) - 1
    <3>1. r = 0 /\ i = q
      BY <1>2, <1>3, <2>2
    <3>2. words[i + 1] = {}
      BY <1>2, <1>3, <3>1
    <3>3. ~ (Start(i) + b < n)
      BY <1>1, <1>2, <3>1, Before, WordIsSet
    <3> QED  BY <3>2, <3>3 DEF IsOne
  <2> QED  BY <2>1, <2>2
<1> DEFINE cur == IF fresh THEN Len(words) ELSE x.cur
<1>8. PushBack(x, bit) = [words |-> result, size |-> n + 1, cur |-> q + 1]
  <2>1. cur = q + 1
    BY <1>2, <1>3, <1>6
  <2>2. PushBack(x, bit) = [words |-> [words EXCEPT ![cur] = @ \cup one],
                            size |-> x.size + 1, cur |-> cur]
    BY Zenon DEF PushBack, one
  <2> HIDE DEF cur, words
  <2> QED  BY <2>1, <2>2, <1>3
<1> HIDE DEF words
<1>9. q \in 0 .. Len(words) - 1 /\ 0 .. Len(words) - 1 = 0 .. q
      /\ words[q + 1] \cup one \in SUBSET Word
  BY <1>2, <1>5, <1>6
<1>10. /\ result \in Seq(SUBSET Word) /\ Len(result) = q + 1
       /\ \A i \in 0 .. q : result[i + 1] = IF i = q THEN words[q + 1] \cup one ELSE words[i + 1]
  BY <1>6, <1>9, WordReplaced
<1> HIDE DEF result
<1>11. \A i \in 0 .. q : \A b \in Word : b \in result[i + 1] <=> IsOne(more, Start(i) + b)
  <2> TAKE i \in 0 .. q
  <2> TAKE b \in Word
  <2>1. i \in Nat /\ b \in Nat /\ Start(i) \in Nat
    BY <1>2, StartIs, WordIsSet
  <2>2. Start(i) + b = n <=> i = q /\ b = r
    <3>1. WordOf(Start(i) + b) = i /\ InWord(Start(i) + b) = b
      BY <2>1, PositionOf
    <3> QED  BY <3>1, <1>2
  <2>3. b \in result[i + 1] <=> IsOne(seq, Start(i) + b) \/ (i = q /\ bit = 1 /\ b = r)
    BY <1>4, <1>7, <1>10
  <2>4. IsOne(more, Start(i) + b) <=> IsOne(seq, Start(i) + b) \/ (Start(i) + b = n /\ bit = 1)
    BY <1>1, <2>1 DEF IsOne, Bits
  <2> QED  BY <2>2, <2>3, <2>4
<1>12. Len(result) = WordsFor(Len(more))
  BY <1>1, <1>10, WordsForMore
<1>13. 0 .. Len(result) - 1 = 0 .. q
  BY <1>2, <1>10
<1>14. \A i \in 0 .. Len(result) - 1 : \A b \in Word :
           b \in result[i + 1] <=> IsOne(more, Start(i) + b)
  BY <1>11, <1>13
<1>15. Holds([words |-> result, size |-> Len(more), cur |-> Len(result)], more)
  BY <1>1, <1>10, <1>12, <1>14, HoldsBy
<1> QED  BY <1>1, <1>8, <1>10, <1>15

(***************************************************************************)
(* zero_extend().                                                          *)
(***************************************************************************)
LEMMA StartMonotone ==
    ASSUME NEW i \in Nat, NEW j \in Nat, i <= j
    PROVE  Start(i) <= Start(j)
<1>1. Start(i) \in Nat /\ Start(j) \in Nat
  BY StartIs
<1>2. CASE i = j
  BY <1>1, <1>2
<1>3. CASE i < j
  BY <1>1, <1>3, StartAscends, Width
<1> QED  BY <1>2, <1>3

LEMMA WordsForAscends ==
    ASSUME NEW m \in Nat, NEW n \in Nat, m <= n
    PROVE  WordsFor(m) <= WordsFor(n)
<1> DEFINE k == WordsFor(m)
           l == WordsFor(n)
<1>1. k \in Nat /\ l \in Nat /\ (k # 0 => Start(k - 1) < m) /\ n <= Start(l)
  BY WordsForBounds
<1> HIDE DEF k, l
<1>2. SUFFICES ASSUME l < k
               PROVE  FALSE
  BY <1>1 DEF k, l
<1>3. k - 1 \in Nat /\ l <= k - 1 /\ k # 0
  BY <1>1, <1>2
<1>4. Start(l) <= Start(k - 1) /\ Start(l) \in Nat /\ Start(k - 1) \in Nat
  BY <1>1, <1>3, StartMonotone, StartIs
<1> QED  BY <1>1, <1>3, <1>4

\* The words of a vector end where its bits do.
LEMMA BehindWords ==
    ASSUME NEW n \in Nat, NEW i \in Nat, WordsFor(n) <= i, NEW b \in Word
    PROVE  n <= Start(i) + b
<1>1. WordsFor(n) \in Nat /\ n <= Start(WordsFor(n))
  BY WordsForBounds
<1>2. Start(WordsFor(n)) <= Start(i)
  BY <1>1, StartMonotone
<1> QED  BY <1>1, <1>2, StartIs, WordIsSet

LEMMA InsideWords ==
    ASSUME NEW n \in Nat, NEW pos \in Nat, pos < n
    PROVE  WordOf(pos) \in 0 .. WordsFor(n) - 1
<1>1. WordOf(pos) \in Nat /\ InWord(pos) \in Word /\ pos = Start(WordOf(pos)) + InWord(pos)
  BY Position
<1>2. WordsFor(n) \in Nat
  BY WordsForBounds
<1>3. ~ (WordsFor(n) <= WordOf(pos))
  <2> SUFFICES ASSUME WordsFor(n) <= WordOf(pos)
               PROVE  FALSE
    OBVIOUS
  <2>1. n <= pos
    BY <1>1, BehindWords
  <2> QED  BY <2>1
<1> QED  BY <1>1, <1>2, <1>3

LEMMA OneOfConcat ==
    ASSUME NEW s \in Bits, NEW t \in Bits, NEW pos \in Nat
    PROVE  /\ s \o t \in Bits
           /\ Len(s \o t) = Len(s) + Len(t)
           /\ IsOne(s \o t, pos) <=>
                 IsOne(s, pos) \/ (pos >= Len(s) /\ IsOne(t, pos - Len(s)))
<1>1. /\ s \o t \in Bits
      /\ Len(s) \in Nat /\ Len(t) \in Nat /\ Len(s \o t) = Len(s) + Len(t)
  BY DEF Bits
<1>2. CASE pos < Len(s)
  <2>1. (s \o t)[pos + 1] = s[pos + 1]
    BY <1>1, <1>2 DEF Bits
  <2> QED  BY <1>1, <1>2, <2>1 DEF IsOne
<1>3. CASE pos >= Len(s)
  <2>1. CASE pos < Len(s) + Len(t)
    <3>1. (s \o t)[pos + 1] = t[(pos - Len(s)) + 1]
      BY <1>1, <1>3, <2>1 DEF Bits
    <3> QED  BY <1>1, <1>3, <2>1, <3>1 DEF IsOne
  <2>2. CASE ~ (pos < Len(s) + Len(t))
    BY <1>1, <1>3, <2>2 DEF IsOne
  <2> QED  BY <2>1, <2>2
<1> QED  BY <1>1, <1>2, <1>3

LEMMA Zeros ==
    ASSUME NEW n \in Nat
    PROVE  /\ [i \in 1 .. n |-> 0] \in Bits
           /\ Len([i \in 1 .. n |-> 0]) = n
           /\ \A pos \in Nat : ~ IsOne([i \in 1 .. n |-> 0], pos)
<1> DEFINE zeros == [i \in 1 .. n |-> 0]
<1>1. zeros \in Bits /\ Len(zeros) = n
  BY DEF Bits
<1>2. \A i \in 1 .. n : zeros[i] = 0
  OBVIOUS
<1> HIDE DEF zeros
<1>3. \A pos \in Nat : pos < n => pos + 1 \in 1 .. n
  OBVIOUS
<1>4. \A pos \in Nat : ~ IsOne(zeros, pos)
  BY <1>1, <1>2, <1>3 DEF IsOne
<1> QED  BY <1>1, <1>4 DEF zeros

LEMMA EmptyWords ==
    ASSUME NEW words \in Seq(SUBSET Word), NEW n \in Nat
    PROVE  LET more == words \o [i \in 1 .. n |-> {}]
           IN  /\ more \in Seq(SUBSET Word)
               /\ Len(more) = Len(words) + n
               /\ \A i \in 0 .. Len(more) - 1 :
                    more[i + 1] = IF i < Len(words) THEN words[i + 1] ELSE {}
<1> DEFINE empty == [i \in 1 .. n |-> {}]
           more == words \o empty
<1>1. empty \in Seq(SUBSET Word) /\ Len(empty) = n /\ \A i \in 1 .. n : empty[i] = {}
  OBVIOUS
<1> HIDE DEF empty
<1>2. /\ more \in Seq(SUBSET Word) /\ Len(more) = Len(words) + n
      /\ \A i \in 1 .. Len(words) + n :
            more[i] = IF i <= Len(words) THEN words[i] ELSE empty[i - Len(words)]
  BY <1>1, ConcatProperties
<1> HIDE DEF more
<1>3. ASSUME NEW i \in 0 .. Len(more) - 1
      PROVE  more[i + 1] = IF i < Len(words) THEN words[i + 1] ELSE {}
  <2>1. Len(words) \in Nat /\ i + 1 \in 1 .. Len(words) + n
    BY <1>2
  <2>2. ~ (i < Len(words)) => (i + 1) - Len(words) \in 1 .. n
    BY <2>1
  <2>3. i + 1 <= Len(words) <=> i < Len(words)
    BY <2>1
  <2> QED  BY <1>1, <1>2, <2>1, <2>2, <2>3
<1> QED  BY <1>2, <1>3 DEF more, empty

LEMMA ExtendHolds ==
    ASSUME NEW x, NEW seq \in Bits, Holds(x, seq), NEW n \in Nat
    PROVE  Holds(ZeroExtend(x, n), seq \o [i \in 1 .. n |-> 0])
<1> DEFINE zeros == [i \in 1 .. n |-> 0]
           more == seq \o zeros
           needed == WordsFor(x.size + n) - Len(x.words)
           words == x.words \o [i \in 1 .. needed |-> {}]
<1>1. zeros \in Bits /\ Len(zeros) = n /\ \A pos \in Nat : ~ IsOne(zeros, pos)
  BY Zeros
<1> HIDE DEF zeros
<1>2. Len(seq) \in Nat
  BY LenBits
<1>3. more \in Bits /\ Len(more) = Len(seq) + n
  <2>1. 0 \in Nat
    OBVIOUS
  <2> QED  BY <1>1, <2>1, OneOfConcat
<1>4. \A pos \in Nat : IsOne(more, pos) <=> IsOne(seq, pos)
  <2> TAKE pos \in Nat
  <2>1. IsOne(more, pos) <=> IsOne(seq, pos) \/ (pos >= Len(seq) /\ IsOne(zeros, pos - Len(seq)))
    BY <1>1, OneOfConcat
  <2>2. pos >= Len(seq) => pos - Len(seq) \in Nat
    BY <1>2
  <2> QED  BY <1>1, <2>1, <2>2
<1> HIDE DEF more
<1>5. x.words \in Seq(SUBSET Word) /\ Len(x.words) = WordsFor(Len(seq)) /\ x.size = Len(seq)
      /\ x.cur = Len(x.words)
  BY HoldsFacts
<1>6. needed \in Nat /\ Len(x.words) + needed = WordsFor(Len(more))
  <2>1. WordsFor(Len(seq)) <= WordsFor(Len(seq) + n) /\ WordsFor(Len(seq)) \in Nat
        /\ WordsFor(Len(seq) + n) \in Nat
    BY <1>2, WordsForAscends, WordsForBounds
  <2> QED  BY <1>3, <1>5, <2>1
<1> HIDE DEF needed
<1>7. /\ words \in Seq(SUBSET Word)
      /\ Len(words) = Len(x.words) + needed
      /\ \A i \in 0 .. Len(words) - 1 :
            words[i + 1] = IF i < Len(x.words) THEN x.words[i + 1] ELSE {}
  BY <1>5, <1>6, EmptyWords
<1>8. (IF needed > 0 THEN Len(words) ELSE x.cur) = Len(words)
  BY <1>5, <1>6, <1>7
<1>9. ZeroExtend(x, n) = [words |-> words, size |-> Len(more), cur |-> Len(words)]
  BY <1>3, <1>5, <1>8 DEF ZeroExtend, needed
<1> HIDE DEF words
<1>10. \A i \in 0 .. Len(words) - 1 : \A b \in Word : b \in words[i + 1] <=> IsOne(more, Start(i) + b)
  <2> TAKE i \in 0 .. Len(words) - 1
  <2> TAKE b \in Word
  <2>1. i \in Nat /\ Start(i) + b \in Nat /\ Len(x.words) \in Nat
    BY <1>5, <1>7, PositionOf
  <2>2. CASE i < Len(x.words)
    <3>1. words[i + 1] = x.words[i + 1] /\ i \in 0 .. Len(x.words) - 1
      BY <1>7, <2>1, <2>2
    <3> QED  BY <1>4, <2>1, <3>1, HoldsOnes
  <2>3. CASE ~ (i < Len(x.words))
    <3>1. words[i + 1] = {}
      BY <1>7, <2>3
    <3>2. Len(seq) <= Start(i) + b
      BY <1>2, <1>5, <2>1, <2>3, BehindWords
    <3>3. ~ IsOne(seq, Start(i) + b)
      BY <1>2, <2>1, <3>2 DEF IsOne
    <3> QED  BY <1>4, <2>1, <3>1, <3>3
  <2> QED  BY <2>2, <2>3
<1>11. Holds([words |-> words, size |-> Len(more), cur |-> Len(words)], more)
  BY <1>3, <1>6, <1>7, <1>10, HoldsBy
<1> QED  BY <1>9, <1>11 DEF more, zeros

(***************************************************************************)
(* set() and set_bits().                                                   *)
(***************************************************************************)
LEMMA RecordReplaced ==
    ASSUME NEW w, NEW n, NEW c, NEW i, NEW e,
           NEW x, x = [words |-> w, size |-> n, cur |-> c]
    PROVE  [x EXCEPT !.words[i] = e] = [words |-> [w EXCEPT ![i] = e], size |-> n, cur |-> c]
OBVIOUS

LEMMA BitAt ==
    ASSUME NEW i \in Nat, NEW b \in Word, NEW pos \in Nat
    PROVE  Start(i) + b = pos <=> i = WordOf(pos) /\ b = InWord(pos)
BY PositionOf, Position

LEMMA BitReplaced ==
    ASSUME NEW seq \in Bits, NEW at \in 0 .. Len(seq) - 1, NEW bit \in {0, 1}
    PROVE  /\ [seq EXCEPT ![at + 1] = bit] \in Bits
           /\ Len([seq EXCEPT ![at + 1] = bit]) = Len(seq)
           /\ \A pos \in Nat : IsOne([seq EXCEPT ![at + 1] = bit], pos) <=>
                 IF pos = at THEN bit = 1 ELSE IsOne(seq, pos)
<1> DEFINE result == [seq EXCEPT ![at + 1] = bit]
<1>1. seq \in Seq({0, 1}) /\ at + 1 \in 1 .. Len(seq) /\ Len(seq) \in Nat
  BY DEF Bits
<1>2. /\ result \in Bits /\ Len(result) = Len(seq)
      /\ \A j \in 1 .. Len(seq) : result[j] = IF j = at + 1 THEN bit ELSE seq[j]
  BY <1>1, ExceptSeq DEF Bits
<1> HIDE DEF result
<1>3. \A pos \in Nat : IsOne(result, pos) <=> IF pos = at THEN bit = 1 ELSE IsOne(seq, pos)
  <2> TAKE pos \in Nat
  <2>1. CASE pos < Len(seq)
    <3>1. pos + 1 \in 1 .. Len(seq) /\ (pos + 1 = at + 1 <=> pos = at)
      BY <1>1, <2>1
    <3>2. result[pos + 1] = IF pos = at THEN bit ELSE seq[pos + 1]
      BY <1>2, <3>1
    <3> QED  BY <1>2, <2>1, <3>2 DEF IsOne
  <2>2. CASE ~ (pos < Len(seq))
    BY <1>1, <1>2, <2>2 DEF IsOne
  <2> QED  BY <2>1, <2>2
<1> QED  BY <1>2, <1>3 DEF result

LEMMA SetHolds ==
    ASSUME NEW x, NEW seq \in Bits, Holds(x, seq), NEW pos \in 0 .. Len(seq) - 1,
           NEW bit \in {0, 1}
    PROVE  Holds(SetBit(x, pos, bit), [seq EXCEPT ![pos + 1] = bit])
<1> DEFINE q == WordOf(pos)
           r == InWord(pos)
           one == ShiftLeft({0}, InWord(pos))
           word == (x.words[q + 1] \ one) \cup (IF bit = 1 THEN one ELSE {})
           words == [x.words EXCEPT ![q + 1] = word]
           result == [seq EXCEPT ![pos + 1] = bit]
<1>1. Len(seq) \in Nat /\ pos \in Nat /\ pos < Len(seq)
  BY LenBits
<1>2. q \in Nat /\ r \in Word /\ pos = Start(q) + r
  BY <1>1, Position
<1>3. x.words \in Seq(SUBSET Word) /\ Len(x.words) = WordsFor(Len(seq)) /\ x.size = Len(seq)
      /\ x.cur = Len(x.words)
  BY HoldsFacts
<1>4. q \in 0 .. Len(x.words) - 1
  BY <1>1, <1>3, InsideWords
<1>5. \A b \in Word : b \in one <=> b = r
  <2> TAKE b \in Word
  <2> HIDE DEF r
  <2>1. r \in Nat /\ b \in Nat
    BY <1>2, WordIsSet
  <2>2. {0} \in SUBSET Nat
    OBVIOUS
  <2>3. b \in one <=> b >= r /\ b - r \in {0}
    BY <2>1, <2>2, Left DEF r
  <2> QED  BY <2>1, <2>3
<1>6. one \in SUBSET Word
  BY LeftIsWord
<1>7. x = [words |-> x.words, size |-> Len(seq), cur |-> Len(x.words)]
  BY DEF Holds
<1>8. SetBit(x, pos, bit) = [words |-> words, size |-> Len(seq), cur |-> Len(x.words)]
  <2>1. SetBit(x, pos, bit) = [x EXCEPT !.words[q + 1] = (@ \ one) \cup (IF bit = 1 THEN one ELSE {})]
    BY DEF SetBit
  <2>2. SetBit(x, pos, bit) = [x EXCEPT !.words[q + 1] = word]
    BY <2>1
  <2> HIDE DEF word, q
  <2> QED  BY <1>7, <2>2, RecordReplaced
<1> HIDE DEF one
<1>9. x.words[q + 1] \in SUBSET Word
  BY <1>3, <1>4
<1>10. word \in SUBSET Word
  BY <1>6, <1>9
<1>11. \A b \in Word : b \in word <=> IF b = r THEN bit = 1 ELSE b \in x.words[q + 1]
  BY <1>5
<1> HIDE DEF word
<1>12. /\ words \in Seq(SUBSET Word) /\ Len(words) = Len(x.words)
       /\ \A j \in 0 .. Len(x.words) - 1 : words[j + 1] = IF j = q THEN word ELSE x.words[j + 1]
  <2> DEFINE old == x.words
  <2>1. old \in Seq(SUBSET Word) /\ q \in 0 .. Len(old) - 1 /\ words = [old EXCEPT ![q + 1] = word]
    BY <1>3, <1>4
  <2> HIDE DEF old, q, words
  <2>2. /\ words \in Seq(SUBSET Word) /\ Len(words) = Len(old)
        /\ \A j \in 0 .. Len(old) - 1 : words[j + 1] = IF j = q THEN word ELSE old[j + 1]
    BY ONLY <1>10, <2>1, WordReplaced
  <2> QED  BY <2>2 DEF old
<1>13. /\ result \in Bits /\ Len(result) = Len(seq)
       /\ \A p \in Nat : IsOne(result, p) <=> IF p = pos THEN bit = 1 ELSE IsOne(seq, p)
  BY BitReplaced
<1> HIDE DEF words, result
<1>14. \A i \in 0 .. Len(words) - 1 : \A b \in Word : b \in words[i + 1] <=> IsOne(result, Start(i) + b)
  <2> TAKE i \in 0 .. Len(words) - 1
  <2> TAKE b \in Word
  <2>1. i \in Nat /\ i \in 0 .. Len(x.words) - 1 /\ Start(i) + b \in Nat
    BY <1>12, PositionOf, SMTT(30)
  <2>2. Start(i) + b = pos <=> i = q /\ b = r
    BY <1>1, <2>1, BitAt
  <2>3. b \in x.words[i + 1] <=> IsOne(seq, Start(i) + b)
    BY <2>1, HoldsOnes
  <2> QED  BY <1>11, <1>12, <1>13, <2>1, <2>2, <2>3
<1>15. Len(words) = WordsFor(Len(result))
  BY <1>3, <1>12, <1>13
<1>16. Holds([words |-> words, size |-> Len(result), cur |-> Len(words)], result)
  BY <1>12, <1>13, <1>14, <1>15, HoldsBy
<1> QED  BY <1>8, <1>12, <1>13, <1>16 DEF words, result

\* The bits that a word stands for.
LEMMA SequenceIs ==
    ASSUME NEW word, NEW len \in Nat
    PROVE  /\ Sequence(word, len) \in Bits
           /\ Len(Sequence(word, len)) = len
           /\ \A i \in 1 .. len : Sequence(word, len)[i] = 1 <=> i - 1 \in word
           /\ \A pos \in Nat : IsOne(Sequence(word, len), pos) <=> pos < len /\ pos \in word
<1> DEFINE s == Sequence(word, len)
<1>1. /\ s \in Bits /\ Len(s) = len
      /\ \A i \in 1 .. len : s[i] = IF i - 1 \in word THEN 1 ELSE 0
  BY DEF Sequence, Bits
<1> HIDE DEF s
<1>2. \A i \in 1 .. len : s[i] = 1 <=> i - 1 \in word
  BY <1>1
<1>3. ASSUME NEW pos \in Nat
      PROVE  IsOne(s, pos) <=> pos < len /\ pos \in word
  <2>1. pos < len => pos + 1 \in 1 .. len
    OBVIOUS
  <2>2. (pos + 1) - 1 = pos
    OBVIOUS
  <2> QED  BY <1>1, <1>2, <2>1, <2>2 DEF IsOne
<1> QED  BY <1>1, <1>2, <1>3 DEF s

\* What Overwrite makes of the bits.
Overwritten(seq, pos, word, len) ==
    [i \in DOMAIN seq |-> IF i \in pos + 1 .. pos + len
                          THEN Sequence(word, len)[i - pos] ELSE seq[i]]

LEMMA OverwrittenIs ==
    ASSUME NEW seq \in Bits, NEW len \in Nat, NEW pos \in Nat, pos + len <= Len(seq), NEW word
    PROVE  /\ Overwritten(seq, pos, word, len) \in Bits
           /\ Len(Overwritten(seq, pos, word, len)) = Len(seq)
           /\ \A p \in Nat : IsOne(Overwritten(seq, pos, word, len), p) <=>
                 IF p \in pos .. pos + len - 1 THEN p - pos \in word ELSE IsOne(seq, p)
<1> DEFINE s == Sequence(word, len)
           result == [i \in 1 .. Len(seq) |-> IF i \in pos + 1 .. pos + len THEN s[i - pos] ELSE seq[i]]
<1>1. Len(seq) \in Nat /\ DOMAIN seq = 1 .. Len(seq) /\ \A i \in 1 .. Len(seq) : seq[i] \in {0, 1}
  BY DEF Bits
<1>2. /\ s \in Bits /\ Len(s) = len
      /\ \A i \in 1 .. len : s[i] = 1 <=> i - 1 \in word
  BY SequenceIs
<1> HIDE DEF s
<1>3. \A i \in 1 .. Len(seq) : i \in pos + 1 .. pos + len => i - pos \in 1 .. len
  BY <1>1
<1>4. \A i \in 1 .. len : s[i] \in {0, 1}
  BY <1>2 DEF Bits
<1>5. result = Overwritten(seq, pos, word, len)
  BY <1>1 DEF Overwritten, s
<1>6. \A i \in 1 .. Len(seq) :
        /\ result[i] \in {0, 1}
        /\ result[i] = IF i \in pos + 1 .. pos + len THEN s[i - pos] ELSE seq[i]
  BY <1>1, <1>3, <1>4
<1>7. result \in Bits /\ Len(result) = Len(seq)
  BY <1>1, <1>6 DEF Bits
<1> HIDE DEF result
<1>8. ASSUME NEW p \in Nat
      PROVE  IsOne(result, p) <=> IF p \in pos .. pos + len - 1 THEN p - pos \in word ELSE IsOne(seq, p)
  <2>1. p < Len(seq) => p + 1 \in 1 .. Len(seq)
    BY <1>1
  <2>2. p + 1 \in pos + 1 .. pos + len <=> p \in pos .. pos + len - 1
    OBVIOUS
  <2>3. CASE p \in pos .. pos + len - 1
    <3>1. p < Len(seq) /\ (p + 1) - pos \in 1 .. len /\ ((p + 1) - pos) - 1 = p - pos
      BY <1>1, <2>3
    <3> QED  BY <1>2, <1>6, <1>7, <2>1, <2>2, <2>3, <3>1 DEF IsOne
  <2>4. CASE p \notin pos .. pos + len - 1
    BY <1>6, <1>7, <2>1, <2>2, <2>4 DEF IsOne
  <2> QED  BY <2>3, <2>4
<1> QED  BY <1>5, <1>7, <1>8

\* The two words that set_bits() writes: their new values, and the positions
\* of their bits.
LEMMA MaskedIs ==
    ASSUME NEW old \in SUBSET Word, NEW value \in SUBSET Nat, NEW len \in Nat, NEW at \in Nat,
           \A c \in value : c < len
    PROVE  LET word == (old \ ShiftLeft(LowMask(len), at)) \cup ShiftLeft(value, at)
           IN  /\ word \in SUBSET Word
               /\ \A b \in Word : b \in word <=>
                    IF b >= at /\ b - at < len THEN b - at \in value ELSE b \in old
<1> DEFINE mask == ShiftLeft(LowMask(len), at)
           new == ShiftLeft(value, at)
<1>1. new \in SUBSET Word
  BY LeftIsWord
<1>2. LowMask(len) \in SUBSET Nat /\ \A c \in Nat : c \in LowMask(len) <=> c < len
  BY DEF LowMask
<1>3. ASSUME NEW b \in Word
      PROVE  /\ b \in mask <=> b >= at /\ b - at < len
             /\ b \in new <=> b >= at /\ b - at \in value
  <2>1. b \in mask <=> b >= at /\ b - at \in LowMask(len)
    BY <1>2, Left
  <2>2. b \in new <=> b >= at /\ b - at \in value
    BY Left
  <2>3. b >= at => b - at \in Nat
    BY WordIsSet
  <2> QED  BY <2>1, <2>2, <2>3, <1>2
<1> HIDE DEF mask, new
<1>4. ASSUME NEW b \in Word
      PROVE  b \in (old \ mask) \cup new <=>
               IF b >= at /\ b - at < len THEN b - at \in value ELSE b \in old
  BY <1>3
<1> QED  BY <1>1, <1>4 DEF mask, new

LEMMA MaskedRestIs ==
    ASSUME NEW old \in SUBSET Word, NEW value \in SUBSET Word, NEW len \in 0 .. WordBits,
           NEW stored \in Nat, \A c \in value : c < len
    PROVE  LET word == (old \ ShiftRight(LowMask(len), stored)) \cup ShiftRight(value, stored)
           IN  /\ word \in SUBSET Word
               /\ \A b \in Word : b \in word <=>
                    IF stored + b < len THEN stored + b \in value ELSE b \in old
<1> DEFINE mask == ShiftRight(LowMask(len), stored)
           new == ShiftRight(value, stored)
<1>1. new \in SUBSET Word
  BY RightIsWord
<1>2. LowMask(len) \in SUBSET Nat /\ \A c \in Nat : c \in LowMask(len) <=> c < len
  BY Width DEF LowMask
<1>3. ASSUME NEW b \in Word
      PROVE  /\ b \in mask <=> stored + b < len
             /\ b \in new <=> stored + b \in value
  <2>1. b \in Nat /\ b + stored = stored + b /\ stored + b \in Nat
    BY WordIsSet
  <2>2. b \in mask <=> b + stored \in LowMask(len)
    BY <1>2, <2>1, Right
  <2>3. b \in new <=> b + stored \in value
    BY <2>1, Right, WordIsSet
  <2> QED  BY <2>1, <2>2, <2>3, <1>2
<1> HIDE DEF mask, new
<1>4. ASSUME NEW b \in Word
      PROVE  b \in (old \ mask) \cup new <=>
               IF stored + b < len THEN stored + b \in value ELSE b \in old
  BY <1>3
<1> QED  BY <1>1, <1>4 DEF mask, new

\* Where a range of at most a word's bits is.
LEMMA RangeInWords ==
    ASSUME NEW pos \in Nat, NEW len \in 0 .. WordBits, NEW i \in Nat, NEW b \in Word
    PROVE  LET q == WordOf(pos)
               at == InWord(pos)
               p == Start(i) + b
           IN  /\ p \in Nat
               /\ i = q => p - pos = b - at
               /\ i = q + 1 => p - pos = (WordBits - at) + b
               /\ p \in pos .. pos + len - 1 => i = q \/ i = q + 1
<1> DEFINE q == WordOf(pos)
           at == InWord(pos)
           p == Start(i) + b
<1>1. q \in Nat /\ at \in Word /\ pos = Start(q) + at
  BY Position
<1>2. at \in Nat /\ at < WordBits /\ b \in Nat /\ b < WordBits /\ WordBits \in Nat
  BY <1>1, Width DEF Word
<1> HIDE DEF q, at
<1>3. /\ q + 1 \in Nat /\ (q + 1) + 1 \in Nat /\ Start(q) \in Nat /\ Start(i) \in Nat
      /\ Start(q + 1) = Start(q) + WordBits
      /\ Start((q + 1) + 1) = Start(q + 1) + WordBits
  BY <1>1, StartIs, StartNext
<1>4. i < q => Start(i) + WordBits <= Start(q)
  BY <1>1, StartAscends
<1>5. (q + 1) + 1 <= i => Start((q + 1) + 1) <= Start(i)
  BY <1>3, StartMonotone
<1>6. p \in Nat
  BY <1>2, <1>3
<1>7. i = q => p - pos = b - at
  BY <1>1, <1>2, <1>3
<1>8. i = q + 1 => p - pos = (WordBits - at) + b
  BY <1>1, <1>2, <1>3
<1>9. ASSUME p \in pos .. pos + len - 1
      PROVE  i = q \/ i = q + 1
  <2>1. ~ (i < q)
    BY <1>1, <1>2, <1>3, <1>4, <1>9
  <2>2. ~ ((q + 1) + 1 <= i)
    BY <1>1, <1>2, <1>3, <1>5, <1>9
  <2> QED  BY <1>1, <2>1, <2>2
<1> QED  BY <1>6, <1>7, <1>8, <1>9 DEF q, at

LEMMA HoldsSame ==
    ASSUME NEW x, NEW s \in Bits, NEW t \in Bits, Holds(x, s), Len(t) = Len(s),
           \A pos \in Nat : IsOne(t, pos) <=> IsOne(s, pos)
    PROVE  Holds(x, t)
<1>1. /\ x = [words |-> x.words, size |-> Len(t), cur |-> Len(x.words)]
      /\ x.words \in Seq(SUBSET Word)
      /\ Len(x.words) = WordsFor(Len(t))
  BY DEF Holds, HoldsBits
<1>2. ASSUME NEW i \in 0 .. Len(x.words) - 1, NEW b \in Word
      PROVE  b \in x.words[i + 1] <=> IsOne(t, Start(i) + b)
  <2>1. Start(i) + b \in Nat
    BY PositionOf
  <2> QED  BY <2>1, HoldsOnes
<1> QED  BY <1>1, <1>2 DEF Holds, HoldsBits

LEMMA SetBitsHolds ==
    ASSUME NEW x, NEW seq \in Bits, Holds(x, seq), NEW len \in 0 .. WordBits, NEW pos \in Nat,
           pos + len <= Len(seq), NEW value \in SUBSET LowMask(len)
    PROVE  Holds(SetBits(x, pos, value, len), Overwritten(seq, pos, value, len))
<1> DEFINE q == WordOf(pos)
           at == InWord(pos)
           stored == WordBits - at
           result == Overwritten(seq, pos, value, len)
           word1 == (x.words[q + 1] \ ShiftLeft(LowMask(len), at)) \cup ShiftLeft(value, at)
           words1 == [x.words EXCEPT ![q + 1] = word1]
           word2 == (words1[(q + 1) + 1] \ ShiftRight(LowMask(len), stored)) \cup ShiftRight(value, stored)
           words2 == [words1 EXCEPT ![(q + 1) + 1] = word2]
<1>1. Len(seq) \in Nat /\ len \in Nat /\ len <= WordBits /\ WordBits \in Nat
  BY LenBits, Width
<1>2. /\ result \in Bits /\ Len(result) = Len(seq)
      /\ \A p \in Nat : IsOne(result, p) <=>
            IF p \in pos .. pos + len - 1 THEN p - pos \in value ELSE IsOne(seq, p)
  BY <1>1, OverwrittenIs
<1> HIDE DEF result
<1>3. CASE len = 0
  <2>1. SetBits(x, pos, value, len) = x
    BY <1>3 DEF SetBits
  <2>2. \A p \in Nat : p \notin pos .. pos + len - 1
    BY <1>3
  <2>3. \A p \in Nat : IsOne(result, p) <=> IsOne(seq, p)
    BY <1>2, <2>2
  <2> QED  BY <1>2, <2>1, <2>3, HoldsSame DEF result
<1>4. CASE len # 0
  <2>1. /\ q \in Nat /\ at \in Nat /\ at < WordBits /\ pos = Start(q) + at /\ stored \in Nat
        /\ stored + at = WordBits
    <3>1. q \in Nat /\ at \in Word /\ pos = Start(q) + at
      BY Position
    <3> HIDE DEF q, at
    <3>2. at \in Nat /\ at < WordBits
      BY <3>1, Width DEF Word
    <3> QED  BY <1>1, <3>1, <3>2
  <2>2. /\ x.words \in Seq(SUBSET Word) /\ Len(x.words) = WordsFor(Len(seq)) /\ x.size = Len(seq)
        /\ Len(x.words) \in Nat
        /\ x = [words |-> x.words, size |-> Len(seq), cur |-> Len(x.words)]
    BY HoldsFacts DEF Holds
  <2>3. q \in 0 .. Len(x.words) - 1
    BY <1>1, <1>4, <2>2, InsideWords
  <2>4. value \in SUBSET Nat /\ value \in SUBSET Word /\ \A c \in value : c < len
    <3>1. \A c \in value : c \in Nat /\ c < len
      BY <1>1 DEF LowMask
    <3>2. \A c \in value : c \in Word
      BY <1>1, <3>1 DEF Word
    <3> QED  BY <3>1, <3>2
  <2>5. x.words[q + 1] \in SUBSET Word
    BY <2>2, <2>3
  <2> HIDE DEF q, at, stored
  <2>6. /\ word1 \in SUBSET Word
        /\ \A b \in Word : b \in word1 <=>
              IF b >= at /\ b - at < len THEN b - at \in value ELSE b \in x.words[q + 1]
    BY <1>1, <2>1, <2>4, <2>5, MaskedIs
  <2> HIDE DEF word1
  <2>7. /\ words1 \in Seq(SUBSET Word) /\ Len(words1) = Len(x.words)
        /\ \A j \in 0 .. Len(x.words) - 1 : words1[j + 1] = IF j = q THEN word1 ELSE x.words[j + 1]
    BY <2>2, <2>3, <2>6, WordReplaced
  <2> HIDE DEF words1
  <2>8. [x EXCEPT !.words[q + 1] = word1] = [words |-> words1, size |-> Len(seq), cur |-> Len(x.words)]
    BY <2>2, RecordReplaced DEF words1
  <2>9. ASSUME NEW i \in 0 .. Len(x.words) - 1, NEW b \in Word
        PROVE  /\ i \in Nat /\ Start(i) + b \in Nat
               /\ b \in Nat /\ b < WordBits
               /\ b \in x.words[i + 1] <=> IsOne(seq, Start(i) + b)
               /\ i = q => (Start(i) + b) - pos = b - at
               /\ i = q + 1 => (Start(i) + b) - pos = stored + b
               /\ Start(i) + b \in pos .. pos + len - 1 => i = q \/ i = q + 1
    <3>1. i \in Nat /\ b \in Nat /\ b < WordBits
      BY <2>2, Width DEF Word
    <3>2. b \in x.words[i + 1] <=> IsOne(seq, Start(i) + b)
      BY HoldsOnes
    <3> QED  BY <3>1, <3>2, RangeInWords, ZenonT(60) DEF q, at, stored
  <2>10. ASSUME NEW i \in 0 .. Len(x.words) - 1, NEW b \in Word, i # q + 1
         PROVE  b \in words1[i + 1] <=> IsOne(result, Start(i) + b)
    <3>1. CASE i = q
      <4> DEFINE p == Start(i) + b
      <4>1. p \in Nat /\ p - pos = b - at /\ (b \in x.words[q + 1] <=> IsOne(seq, p)) /\ b \in Nat
        BY <2>9, <3>1
      <4> HIDE DEF p
      <4>2. p \in pos .. pos + len - 1 <=> b >= at /\ b - at < len
        BY <4>1, <1>1, <2>1, SMTT(30)
      <4>3. words1[i + 1] = word1
        BY <2>7, <3>1
      <4> QED  BY <1>2, <2>6, <4>1, <4>2, <4>3 DEF p
    <3>2. CASE i # q
      <4>1. words1[i + 1] = x.words[i + 1]
        BY <2>7, <3>2
      <4>2. Start(i) + b \notin pos .. pos + len - 1
        BY <2>9, <2>10, <3>2
      <4> QED  BY <1>2, <2>9, <4>1, <4>2
    <3> QED  BY <3>1, <3>2
  <2>11. CASE stored >= len
    <3>1. SetBits(x, pos, value, len) = [words |-> words1, size |-> Len(seq), cur |-> Len(x.words)]
      <4>1. SetBits(x, pos, value, len) =
              [x EXCEPT !.words[q + 1] = (@ \ ShiftLeft(LowMask(len), at)) \cup ShiftLeft(value, at)]
        BY <1>4, <2>11 DEF SetBits, q, at, stored
      <4>2. SetBits(x, pos, value, len) = [x EXCEPT !.words[q + 1] = word1]
        BY <4>1 DEF word1
      <4> QED  BY <2>8, <4>2
    <3>2. ASSUME NEW i \in 0 .. Len(words1) - 1, NEW b \in Word
          PROVE  b \in words1[i + 1] <=> IsOne(result, Start(i) + b)
      <4>1. i \in 0 .. Len(x.words) - 1
        BY <2>7
      <4>2. CASE i # q + 1
        BY <2>10, <4>1, <4>2
      <4>3. CASE i = q + 1
        <5>1. Start(i) + b \notin pos .. pos + len - 1
          <6> DEFINE p == Start(i) + b
          <6>1. p \in Nat /\ p - pos = stored + b /\ b \in Nat
            BY <2>9, <4>1, <4>3
          <6> HIDE DEF p
          <6>2. p \notin pos .. pos + len - 1
            BY <6>1, <1>1, <2>1, <2>11
          <6> QED  BY <6>2 DEF p
        <5>2. words1[i + 1] = x.words[i + 1]
          <6>1. i # q
            BY <2>1, <4>3
          <6> QED  BY <2>7, <4>1, <6>1
        <5> QED  BY <1>2, <2>9, <4>1, <5>1, <5>2
      <4> QED  BY <4>2, <4>3
    <3>3. Len(words1) = WordsFor(Len(result))
      BY <1>2, <2>2, <2>7
    <3>4. Holds([words |-> words1, size |-> Len(result), cur |-> Len(words1)], result)
      BY <1>2, <2>7, <3>2, <3>3, HoldsBy
    <3> QED  BY <1>2, <2>7, <3>1, <3>4 DEF result
  <2>12. CASE ~ (stored >= len)
    <3>1. q + 1 \in 0 .. Len(x.words) - 1
      <4>1. Start(q + 1) + 0 = pos + stored /\ q + 1 \in Nat /\ 0 \in Word
        <5>1. Start(q + 1) = Start(q) + WordBits /\ Start(q) \in Nat
          BY <2>1, StartNext, StartIs
        <5>2. 0 \in Word
          BY Width DEF Word
        <5> DEFINE s == Start(q)
                   u == Start(q + 1)
        <5>3. /\ s \in Nat /\ u = s + WordBits /\ pos = s + at
              /\ at \in Nat /\ stored \in Nat /\ stored + at = WordBits
          BY <2>1, <5>1
        <5> HIDE DEF s, u, q, at, stored
        <5>4. u + 0 = pos + stored
          BY <1>1, <5>3
        <5> QED  BY <2>1, <5>2, <5>4 DEF u
      <4>2. pos + stored < Len(seq) /\ pos + stored \in Nat
        BY <1>1, <2>1, <2>12
      <4>3. WordOf(pos + stored) = q + 1
        BY <4>1, PositionOf
      <4> QED  BY <1>1, <2>2, <4>2, <4>3, InsideWords
    <3>2. words1[(q + 1) + 1] = x.words[(q + 1) + 1] /\ words1[(q + 1) + 1] \in SUBSET Word
      BY <2>1, <2>2, <2>7, <3>1
    <3>3. /\ word2 \in SUBSET Word
          /\ \A b \in Word : b \in word2 <=>
                IF stored + b < len THEN stored + b \in value ELSE b \in words1[(q + 1) + 1]
      BY <2>1, <2>4, <3>2, MaskedRestIs
    <3> HIDE DEF word2
    <3>4. /\ words2 \in Seq(SUBSET Word) /\ Len(words2) = Len(words1)
          /\ \A j \in 0 .. Len(words1) - 1 :
                words2[j + 1] = IF j = q + 1 THEN word2 ELSE words1[j + 1]
      <4>1. q + 1 \in 0 .. Len(words1) - 1
        BY <2>7, <3>1
      <4> QED  BY <2>7, <3>3, <4>1, WordReplaced
    <3> HIDE DEF words2
    <3>5. SetBits(x, pos, value, len) = [words |-> words2, size |-> Len(seq), cur |-> Len(x.words)]
      <4> DEFINE first == [x EXCEPT !.words[q + 1] =
                              (@ \ ShiftLeft(LowMask(len), at)) \cup ShiftLeft(value, at)]
      <4>1. SetBits(x, pos, value, len) =
              [first EXCEPT !.words[(q + 1) + 1] =
                 (@ \ ShiftRight(LowMask(len), stored)) \cup ShiftRight(value, stored)]
        BY <1>4, <2>12 DEF SetBits, q, at, stored
      <4>2. first = [words |-> words1, size |-> Len(seq), cur |-> Len(x.words)]
        BY <2>8 DEF word1
      <4> HIDE DEF first
      <4>3. first.words = words1
        BY <4>2
      <4>4. SetBits(x, pos, value, len) = [first EXCEPT !.words[(q + 1) + 1] = word2]
        BY <4>1, <4>3 DEF word2
      <4> QED  BY <4>2, <4>4, RecordReplaced DEF words2
    <3>6. ASSUME NEW i \in 0 .. Len(words2) - 1, NEW b \in Word
          PROVE  b \in words2[i + 1] <=> IsOne(result, Start(i) + b)
      <4>1. i \in 0 .. Len(x.words) - 1 /\ i \in 0 .. Len(words1) - 1
        BY <2>7, <3>4
      <4>2. CASE i # q + 1
        BY <2>10, <3>4, <4>1, <4>2
      <4>3. CASE i = q + 1
        <5> DEFINE p == Start(i) + b
        <5>1. /\ p \in Nat /\ p - pos = stored + b /\ b \in Nat
              /\ b \in x.words[(q + 1) + 1] <=> IsOne(seq, p)
          BY <2>9, <4>1, <4>3
        <5> HIDE DEF p
        <5>2. p \in pos .. pos + len - 1 <=> stored + b < len
          BY <5>1, <1>1, <2>1, SMTT(30)
        <5>3. words2[i + 1] = word2
          BY <3>4, <4>1, <4>3
        <5> QED  BY <1>2, <3>2, <3>3, <5>1, <5>2, <5>3 DEF p
      <4> QED  BY <4>2, <4>3
    <3>7. Len(words2) = WordsFor(Len(result))
      BY <1>2, <2>2, <2>7, <3>4
    <3>8. Holds([words |-> words2, size |-> Len(result), cur |-> Len(words2)], result)
      BY <1>2, <3>4, <3>6, <3>7, HoldsBy
    <3> QED  BY <1>2, <2>7, <3>4, <3>5, <3>8 DEF result
  <2> QED  BY <2>11, <2>12
<1> QED  BY <1>3, <1>4

(***************************************************************************)
(* append_bits().                                                          *)
(***************************************************************************)
LEMMA WordAppended ==
    ASSUME NEW words \in Seq(SUBSET Word), NEW w \in SUBSET Word
    PROVE  /\ Append(words, w) \in Seq(SUBSET Word)
           /\ Len(Append(words, w)) = Len(words) + 1
           /\ \A i \in 0 .. Len(words) :
                Append(words, w)[i + 1] = IF i = Len(words) THEN w ELSE words[i + 1]
<1> DEFINE more == Append(words, w)
<1>1. /\ more \in Seq(SUBSET Word) /\ Len(more) = Len(words) + 1 /\ Len(words) \in Nat
      /\ \A i \in 1 .. Len(words) : more[i] = words[i]
      /\ more[Len(words) + 1] = w
  BY AppendProperties
<1> HIDE DEF more
<1>2. ASSUME NEW i \in 0 .. Len(words)
      PROVE  more[i + 1] = IF i = Len(words) THEN w ELSE words[i + 1]
  <2>1. i # Len(words) => i + 1 \in 1 .. Len(words)
    BY <1>1
  <2> QED  BY <1>1, <2>1
<1> QED  BY <1>1, <1>2 DEF more

\* The bits of a word that is appended.
LEMMA AppendedIs ==
    ASSUME NEW seq \in Bits, NEW len \in Nat, NEW value \in SUBSET LowMask(len)
    PROVE  /\ seq \o Sequence(value, len) \in Bits
           /\ Len(seq \o Sequence(value, len)) = Len(seq) + len
           /\ \A pos \in Nat : IsOne(seq \o Sequence(value, len), pos) <=>
                 IsOne(seq, pos) \/ (pos >= Len(seq) /\ pos - Len(seq) \in value)
<1> DEFINE s == Sequence(value, len)
<1>1. /\ s \in Bits /\ Len(s) = len
      /\ \A pos \in Nat : IsOne(s, pos) <=> pos < len /\ pos \in value
  BY SequenceIs
<1> HIDE DEF s
<1>2. Len(seq) \in Nat /\ 0 \in Nat
  BY LenBits
<1>3. \A c \in value : c < len
  BY DEF LowMask
<1>4. ASSUME NEW pos \in Nat
      PROVE  IsOne(seq \o s, pos) <=> IsOne(seq, pos) \/ (pos >= Len(seq) /\ pos - Len(seq) \in value)
  <2>1. pos >= Len(seq) => pos - Len(seq) \in Nat
    BY <1>2
  <2>2. IsOne(seq \o s, pos) <=> IsOne(seq, pos) \/ (pos >= Len(seq) /\ IsOne(s, pos - Len(seq)))
    BY <1>1, OneOfConcat
  <2> QED  BY <1>1, <1>3, <2>1, <2>2
<1>5. seq \o s \in Bits /\ Len(seq \o s) = Len(seq) + len
  BY <1>1, <1>2, OneOfConcat
<1> QED  BY <1>4, <1>5 DEF s

LEMMA AppendHolds ==
    ASSUME NEW x, NEW seq \in Bits, Holds(x, seq), NEW len \in 0 .. WordBits,
           NEW value \in SUBSET LowMask(len)
    PROVE  Holds(AppendBits(x, value, len), seq \o Sequence(value, len))
<1> DEFINE n == Len(seq)
           q == WordOf(n)
           at == InWord(n)
           stored == WordBits - at
           result == seq \o Sequence(value, len)
<1>1. n \in Nat /\ len \in Nat /\ len <= WordBits /\ WordBits \in Nat \ {0}
  BY LenBits, Width
<1>2. /\ result \in Bits /\ Len(result) = n + len
      /\ \A pos \in Nat : IsOne(result, pos) <=>
            IsOne(seq, pos) \/ (pos >= n /\ pos - n \in value)
  BY <1>1, AppendedIs
<1> HIDE DEF result
<1>3. \A c \in value : c \in Nat /\ c < len
  BY <1>1 DEF LowMask
<1>4. CASE len = 0
  <2>1. AppendBits(x, value, len) = x
    BY <1>4 DEF AppendBits
  <2>2. \A c : c \notin value
    BY <1>3, <1>4
  <2>3. \A pos \in Nat : IsOne(result, pos) <=> IsOne(seq, pos)
    BY <1>2, <2>2
  <2>4. Len(result) = n
    BY <1>1, <1>2, <1>4
  <2> QED  BY <1>2, <2>1, <2>3, <2>4, HoldsSame DEF result
<1>5. CASE len # 0
  <2>1. value \in SUBSET Word /\ value \in SUBSET Nat
    <3>1. \A c \in value : c \in Word
      BY <1>1, <1>3 DEF Word
    <3> QED  BY <1>3, <3>1
  <2>2. x.words \in Seq(SUBSET Word) /\ x.size = n /\ x.cur = Len(x.words)
        /\ Len(x.words) \in Nat
        /\ Len(x.words) = IF at = 0 THEN q ELSE q + 1
    BY <1>1, HoldsFacts, WordsForIs
  <2>3. /\ q \in Nat /\ at \in Nat /\ at < WordBits /\ n = Start(q) + at /\ stored \in Nat
        /\ stored + at = WordBits /\ Start(q) \in Nat
        /\ Start(q + 1) = Start(q) + WordBits /\ Start((q + 1) + 1) = Start(q + 1) + WordBits
    <3>1. q \in Nat /\ at \in Word /\ n = Start(q) + at
      BY Position, SMTT(30)
    <3> HIDE DEF q, at
    <3>2. at \in Nat /\ at < WordBits
      BY <3>1, Width DEF Word
    <3>3. q + 1 \in Nat
      BY <3>1
    <3> QED  BY <1>1, <3>1, <3>2, <3>3, StartIs, StartNext
  <2>4. ASSUME NEW i \in Nat, NEW b \in Word
        PROVE  /\ Start(i) + b \in Nat /\ b \in Nat
               /\ i < q => Start(i) + b < n
               /\ q < i => ~ (Start(i) + b < n)
               /\ i = q => (Start(i) + b) - n = b - at
               /\ i = q + 1 => (Start(i) + b) - n = stored + b
    <3>1. b \in Nat /\ 0 \in 0 .. WordBits
      BY <1>1, WordIsSet
    <3>2. Start(i) + b < n <=> i < q \/ (i = q /\ b < at)
      BY <1>1, Before
    <3>3. /\ Start(i) + b \in Nat
          /\ i = q => (Start(i) + b) - n = b - at
          /\ i = q + 1 => (Start(i) + b) - n = stored + b
      BY <1>1, <3>1, RangeInWords
    <3> HIDE DEF n, q, at, stored
    <3> QED  BY <2>3, <3>1, <3>2, <3>3
  <2> DEFINE grown == IF at = 0 THEN Append(x.words, value)
                      ELSE [x.words EXCEPT ![x.cur] = @ \cup ShiftLeft(value, at)]
             words == IF at # 0 /\ len > stored
                      THEN Append(grown, ShiftRight(value, stored)) ELSE grown
  <2> HIDE DEF n, q, at, stored
  <2>5. /\ grown \in Seq(SUBSET Word) /\ Len(grown) = q + 1
        /\ \A i \in 0 .. q : \A b \in Word : b \in grown[i + 1] <=> IsOne(result, Start(i) + b)
    <3>1. CASE at = 0
      <4>1. grown = Append(x.words, value) /\ Len(x.words) = q
        BY <2>2, <3>1
      <4> HIDE DEF grown
      <4>2. /\ grown \in Seq(SUBSET Word) /\ Len(grown) = q + 1
            /\ \A i \in 0 .. q : grown[i + 1] = IF i = q THEN value ELSE x.words[i + 1]
        BY <2>1, <2>2, <4>1, WordAppended
      <4>3. ASSUME NEW i \in 0 .. q, NEW b \in Word
            PROVE  b \in grown[i + 1] <=> IsOne(result, Start(i) + b)
        <5> DEFINE p == Start(i) + b
        <5>1. i \in Nat /\ p \in Nat /\ b \in Nat /\ (i = q => p - n = b - at) /\ (i < q => p < n)
          BY <2>3, <2>4
        <5> HIDE DEF p
        <5>2. CASE i = q
          <6>1. p - n = b /\ p >= n
            BY <1>1, <2>3, <3>1, <5>1, <5>2 DEF n
          <6>2. ~ IsOne(seq, p)
            BY <1>1, <5>1, <6>1 DEF IsOne, n
          <6>3. IsOne(result, p) <=> b \in value
            BY <1>2, <5>1, <6>1, <6>2 DEF n
          <6> QED  BY <4>2, <5>2, <6>3 DEF p
        <5>3. CASE i # q
          <6>1. i < q /\ i \in 0 .. Len(x.words) - 1
            BY <2>2, <2>3, <4>1, <5>3
          <6>2. b \in x.words[i + 1] <=> IsOne(seq, p)
            BY <6>1, HoldsOnes DEF p
          <6>3. ~ (p >= n)
            BY <1>1, <5>1, <6>1 DEF n
          <6>4. IsOne(result, p) <=> IsOne(seq, p)
            BY <1>2, <5>1, <6>3 DEF n
          <6> QED  BY <4>2, <5>3, <6>2, <6>4 DEF p
        <5> QED  BY <5>2, <5>3
      <4> QED  BY <4>2, <4>3
    <3>2. CASE at # 0
      <4> DEFINE word == x.words[q + 1] \cup ShiftLeft(value, at)
      <4>1. Len(x.words) = q + 1 /\ x.cur = q + 1 /\ q \in 0 .. Len(x.words) - 1
            /\ 0 .. Len(x.words) - 1 = 0 .. q
        BY <2>2, <2>3, <3>2
      <4>2. grown = [x.words EXCEPT ![q + 1] = word]
        BY <3>2, <4>1
      <4>3. word \in SUBSET Word
        <5>1. x.words[q + 1] \in SUBSET Word
          BY <2>2, <4>1
        <5>2. ShiftLeft(value, at) \in SUBSET Word
          BY LeftIsWord
        <5> QED  BY <5>1, <5>2
      <4>4. \A b \in Word : b \in word <=> b \in x.words[q + 1] \/ (b >= at /\ b - at \in value)
        BY <2>1, <2>3, Left
      <4> HIDE DEF word, grown
      <4>5. /\ grown \in Seq(SUBSET Word) /\ Len(grown) = q + 1
            /\ \A i \in 0 .. q : grown[i + 1] = IF i = q THEN word ELSE x.words[i + 1]
        BY <2>2, <4>1, <4>2, <4>3, WordReplaced
      <4>6. ASSUME NEW i \in 0 .. q, NEW b \in Word
            PROVE  b \in grown[i + 1] <=> IsOne(result, Start(i) + b)
        <5> DEFINE p == Start(i) + b
        <5>1. i \in Nat /\ p \in Nat /\ b \in Nat /\ (i = q => p - n = b - at) /\ (i < q => p < n)
          BY <2>3, <2>4
        <5>2. b \in x.words[i + 1] <=> IsOne(seq, p)
          BY <4>1, HoldsOnes
        <5> HIDE DEF p
        <5>3. CASE i = q
          <6>1. p - n = b - at /\ (p >= n <=> b >= at)
            BY <1>1, <2>3, <5>1, <5>3 DEF n
          <6>2. IsOne(result, p) <=> IsOne(seq, p) \/ (b >= at /\ b - at \in value)
            BY <1>2, <5>1, <6>1 DEF n
          <6> QED  BY <4>4, <4>5, <5>2, <5>3, <6>2 DEF p
        <5>4. CASE i # q
          <6>1. ~ (p >= n)
            BY <1>1, <2>3, <5>1, <5>4 DEF n
          <6>2. IsOne(result, p) <=> IsOne(seq, p)
            BY <1>2, <5>1, <6>1 DEF n
          <6> QED  BY <4>5, <5>2, <5>4, <6>2 DEF p
        <5> QED  BY <5>3, <5>4
      <4> QED  BY <4>5, <4>6
    <3> QED  BY <3>1, <3>2
  <2> HIDE DEF grown
  <2>6. /\ words \in Seq(SUBSET Word) /\ Len(words) = WordsFor(Len(result))
        /\ \A i \in 0 .. Len(words) - 1 : \A b \in Word :
              b \in words[i + 1] <=> IsOne(result, Start(i) + b)
    <3>1. CASE at # 0 /\ len > stored
      <4> DEFINE rest == ShiftRight(value, stored)
      <4>1. rest \in SUBSET Word /\ \A b \in Word : b \in rest <=> b + stored \in value
        BY <2>1, <2>3, Right, RightIsWord, WordIsSet
      <4>2. words = Append(grown, rest)
        BY <3>1
      <4> HIDE DEF rest, words
      <4>3. /\ words \in Seq(SUBSET Word) /\ Len(words) = (q + 1) + 1
            /\ \A i \in 0 .. q + 1 : words[i + 1] = IF i = q + 1 THEN rest ELSE grown[i + 1]
        BY <2>5, <4>1, <4>2, WordAppended
      <4>4. WordsFor(Len(result)) = (q + 1) + 1
        <5>1. Len(result) \in Nat /\ (q + 1) + 1 \in Nat /\ ((q + 1) + 1) - 1 = q + 1
          BY <1>1, <1>2, <2>3 DEF n
        <5>2. Len(result) <= Start((q + 1) + 1) /\ Start(q + 1) < Len(result)
          BY <1>1, <1>2, <2>3, <3>1 DEF n
        <5> QED  BY <5>1, <5>2, WordsForBy
      <4>5. ASSUME NEW i \in 0 .. q + 1, NEW b \in Word
            PROVE  b \in words[i + 1] <=> IsOne(result, Start(i) + b)
        <5>1. CASE i = q + 1
          <6> DEFINE p == Start(i) + b
          <6>1. p \in Nat /\ b \in Nat /\ p - n = stored + b /\ ~ (p < n)
            BY <2>3, <2>4, <5>1
          <6> HIDE DEF p
          <6>2. p >= n /\ ~ IsOne(seq, p) /\ stored + b = b + stored
            BY <1>1, <2>3, <6>1 DEF IsOne, n
          <6>3. IsOne(result, p) <=> b + stored \in value
            BY <1>2, <6>1, <6>2 DEF n
          <6> QED  BY <4>1, <4>3, <5>1, <6>3 DEF p
        <5>2. CASE i # q + 1
          <6>1. i \in 0 .. q
            BY <2>3, <5>2
          <6> QED  BY <2>5, <4>3, <5>2, <6>1
        <5> QED  BY <5>1, <5>2
      <4>6. 0 .. Len(words) - 1 = 0 .. q + 1
        BY <2>3, <4>3
      <4> QED  BY <4>3, <4>4, <4>5, <4>6
    <3>2. CASE ~ (at # 0 /\ len > stored)
      <4>1. words = grown
        BY <3>2
      <4>2. WordsFor(Len(result)) = q + 1
        <5>1. Len(result) \in Nat /\ q + 1 \in Nat /\ (q + 1) - 1 = q
          BY <1>1, <1>2, <2>3 DEF n
        <5>2. Len(result) <= Start(q + 1) /\ Start(q) < Len(result)
          BY <1>1, <1>2, <1>5, <2>3, <3>2, SMTT(30) DEF n
        <5> QED  BY <5>1, <5>2, WordsForBy
      <4>3. 0 .. Len(grown) - 1 = 0 .. q
        BY <2>3, <2>5
      <4> QED  BY <2>5, <4>1, <4>2, <4>3
    <3> QED  BY <3>1, <3>2
  <2>7. AppendBits(x, value, len) = [words |-> words, size |-> Len(result), cur |-> Len(words)]
    BY <1>2, <1>5, <2>2 DEF AppendBits, grown, at, stored, n
  <2> HIDE DEF words
  <2> QED  BY <1>2, <2>6, <2>7, HoldsBy DEF result
<1> QED  BY <1>4, <1>5

(***************************************************************************)
(* append().                                                               *)
(***************************************************************************)
LEMMA OnesOfIs ==
    ASSUME NEW seq \in Bits, NEW pos \in Nat
    PROVE  pos \in OnesOf(seq) <=> IsOne(seq, pos)
<1>1. Len(seq) \in Nat /\ DOMAIN seq = 1 .. Len(seq)
  BY LenBits
<1>2. ASSUME pos \in OnesOf(seq)
      PROVE  IsOne(seq, pos)
  <2>1. PICK i \in 1 .. Len(seq) : seq[i] = 1 /\ pos = i - 1
    BY <1>1, <1>2 DEF OnesOf
  <2>2. pos + 1 = i /\ pos < Len(seq)
    BY <1>1, <2>1
  <2> QED  BY <2>1, <2>2 DEF IsOne
<1>3. ASSUME IsOne(seq, pos)
      PROVE  pos \in OnesOf(seq)
  <2>1. pos + 1 \in 1 .. Len(seq) /\ (pos + 1) - 1 = pos /\ seq[pos + 1] = 1
    BY <1>1, <1>3 DEF IsOne
  <2>2. pos + 1 \in {j \in DOMAIN seq : seq[j] = 1}
    BY <1>1, <2>1
  <2> QED  BY <2>1, <2>2 DEF OnesOf
<1> QED  BY <1>2, <1>3

LEMMA OnesAreNumbers ==
    ASSUME NEW seq \in Bits
    PROVE  OnesOf(seq) \in SUBSET Nat
<1>1. ASSUME NEW pos \in OnesOf(seq)
      PROVE  pos \in Nat
  <2>1. PICK i \in 1 .. Len(seq) : pos = i - 1
    BY <1>1, LenBits DEF OnesOf
  <2> QED  BY <2>1, LenBits
<1> QED  BY <1>1

LEMMA HoldingHolds ==
    ASSUME NEW seq \in Bits
    PROVE  Holds(Holding(seq), seq)
<1> DEFINE word(i) == {b \in Word : i * WordBits + b \in OnesOf(seq)}
           k == WordsFor(Len(seq))
           words == [i \in 1 .. k |-> word(i - 1)]
<1>1. k \in Nat
  BY LenBits, WordsForBounds
<1>2. \A i : word(i) \in SUBSET Word
  OBVIOUS
<1>3. \A i \in 0 .. k - 1 : \A b \in Word : b \in word(i) <=> IsOne(seq, Start(i) + b)
  <2> TAKE i \in 0 .. k - 1
  <2> TAKE b \in Word
  <2>1. Start(i) + b \in Nat
    BY <1>1, PositionOf
  <2>2. Start(i) + b \in OnesOf(seq) <=> IsOne(seq, Start(i) + b)
    BY <2>1, OnesOfIs
  <2> QED  BY <2>2 DEF Start
<1>4. Holding(seq) = [words |-> words, size |-> Len(seq), cur |-> Len(words)]
  BY DEF Holding
<1> HIDE DEF k, word
<1>5. words \in Seq(SUBSET Word) /\ Len(words) = k
  BY <1>1, <1>2
<1>6. \A i \in 0 .. k - 1 : words[i + 1] = word(i)
  <2> TAKE i \in 0 .. k - 1
  <2>1. i + 1 \in 1 .. k /\ (i + 1) - 1 = i
    BY <1>1
  <2> QED  BY <2>1
<1> HIDE DEF words
<1>7. \A i \in 0 .. Len(words) - 1 : \A b \in Word : b \in words[i + 1] <=> IsOne(seq, Start(i) + b)
  BY <1>3, <1>5, <1>6
<1>8. Len(words) = WordsFor(Len(seq))
  BY <1>5 DEF k
<1> QED  BY <1>4, <1>5, <1>7, <1>8, HoldsBy

\* A bit of any word, there or not.
LEMMA HoldsEvery ==
    ASSUME NEW x, NEW seq \in Bits, Holds(x, seq), NEW i \in Nat, NEW b \in Word
    PROVE  IsOne(seq, Start(i) + b) <=> i < Len(x.words) /\ b \in x.words[i + 1]
<1>1. Len(x.words) = WordsFor(Len(seq)) /\ Len(x.words) \in Nat /\ Len(seq) \in Nat
      /\ Start(i) + b \in Nat
  BY HoldsFacts, LenBits, PositionOf
<1>2. CASE i < Len(x.words)
  <2>1. i \in 0 .. Len(x.words) - 1
    BY <1>1, <1>2
  <2> QED  BY <1>2, <2>1, HoldsOnes
<1>3. CASE ~ (i < Len(x.words))
  <2>1. Len(seq) <= Start(i) + b
    BY <1>1, <1>3, BehindWords
  <2> QED  BY <1>1, <1>3, <2>1 DEF IsOne
<1> QED  BY <1>2, <1>3

LEMMA StartSum ==
    ASSUME NEW i \in Nat, NEW j \in Nat
    PROVE  Start(i + j) = Start(i) + Start(j)
BY Width DEF Start

LEMMA WordsForSum ==
    ASSUME NEW q \in Nat, NEW m \in Nat
    PROVE  WordsFor(Start(q) + m) = q + WordsFor(m)
<1> DEFINE k == WordsFor(m)
<1>1. k \in Nat /\ m <= Start(k) /\ (k # 0 => Start(k - 1) < m)
  BY WordsForBounds
<1> HIDE DEF k
<1>2. Start(q) \in Nat /\ Start(k) \in Nat /\ Start(q + k) = Start(q) + Start(k)
  BY <1>1, StartIs, StartSum
<1>3. CASE k # 0
  <2>1. k - 1 \in Nat /\ (q + k) - 1 = q + (k - 1) /\ q + k \in Nat
    BY <1>1, <1>3
  <2>2. Start((q + k) - 1) = Start(q) + Start(k - 1) /\ Start(k - 1) \in Nat
    BY <2>1, StartSum, StartIs
  <2>3. Start(q) + m \in Nat /\ Start(q) + m <= Start(q + k) /\ Start((q + k) - 1) < Start(q) + m
    BY <1>1, <1>2, <1>3, <2>2
  <2> QED  BY <2>1, <2>3, WordsForBy DEF k
<1>4. CASE k = 0
  <2>1. m = 0
    BY <1>1, <1>4, StartZero
  <2>2. 0 \in Word /\ Start(q) + 0 = Start(q) + m
    BY <1>2, <2>1, Width DEF Word
  <2>3. InWord(Start(q) + m) = 0 /\ WordOf(Start(q) + m) = q /\ Start(q) + m \in Nat
    BY <2>2, PositionOf
  <2>4. WordsFor(Start(q) + m) = q
    BY <2>3, WordsForIs
  <2> QED  BY <1>4, <2>4 DEF k
<1> QED  BY <1>3, <1>4

\* At the end of a word the words of the other follow.
LEMMA JoinHolds ==
    ASSUME NEW x, NEW s \in Bits, Holds(x, s), InWord(Len(s)) = 0,
           NEW y, NEW t \in Bits, Holds(y, t)
    PROVE  LET words == x.words \o y.words
           IN  Holds([words |-> words, size |-> Len(s \o t), cur |-> Len(words)], s \o t)
<1> DEFINE n == Len(s)
           q == WordOf(n)
           words == x.words \o y.words
           result == s \o t
<1>1. n \in Nat /\ Len(t) \in Nat
  BY LenBits
<1>2. q \in Nat /\ n = Start(q) /\ Start(q) \in Nat
  <2>1. q \in Nat /\ InWord(n) \in Word /\ n = Start(q) + InWord(n)
    BY <1>1, Position
  <2>2. Start(q) \in Nat
    BY <2>1, StartIs
  <2> HIDE DEF q
  <2> QED  BY <2>1, <2>2
<1>3. /\ x.words \in Seq(SUBSET Word) /\ Len(x.words) = q
      /\ y.words \in Seq(SUBSET Word) /\ Len(y.words) = WordsFor(Len(t)) /\ Len(y.words) \in Nat
  BY <1>1, HoldsFacts, WordsForIs
<1> HIDE DEF q, n
<1>4. /\ words \in Seq(SUBSET Word) /\ Len(words) = q + Len(y.words)
      /\ \A j \in 1 .. q + Len(y.words) :
            words[j] = IF j <= q THEN x.words[j] ELSE y.words[j - q]
  BY <1>3, ConcatProperties, ZenonT(60)
<1> HIDE DEF words
<1>5. /\ result \in Bits /\ Len(result) = n + Len(t)
      /\ \A pos \in Nat : IsOne(result, pos) <=> IsOne(s, pos) \/ (pos >= n /\ IsOne(t, pos - n))
  <2>1. 0 \in Nat
    OBVIOUS
  <2> QED  BY <2>1, OneOfConcat DEF n
<1> HIDE DEF result
<1>6. ASSUME NEW i \in 0 .. Len(words) - 1, NEW b \in Word
      PROVE  b \in words[i + 1] <=> IsOne(result, Start(i) + b)
  <2>1. i \in Nat /\ i + 1 \in 1 .. q + Len(y.words) /\ Start(i) + b \in Nat /\ b \in Nat
        /\ Start(i) \in Nat
    BY <1>2, <1>3, <1>4, PositionOf, WordIsSet, StartIs, SMTT(30)
  <2>2. words[i + 1] = IF i + 1 <= q THEN x.words[i + 1] ELSE y.words[(i + 1) - q]
    BY <1>4, <2>1
  <2>3. IsOne(s, Start(i) + b) <=> i < q /\ b \in x.words[i + 1]
    BY <1>3, <2>1, HoldsEvery
  <2>4. CASE i < q
    <3>1. Start(i) + WordBits <= n
      BY <1>2, <2>1, <2>4, StartAscends
    <3>2. b < WordBits
      BY Width DEF Word
    <3>3. ~ (Start(i) + b >= n)
      BY <1>1, <2>1, <3>1, <3>2, Width
    <3>4. i + 1 <= q
      BY <1>2, <2>1, <2>4
    <3> QED  BY <1>5, <2>1, <2>2, <2>3, <2>4, <3>3, <3>4
  <2>5. CASE ~ (i < q)
    <3>1. i - q \in Nat /\ q + (i - q) = i /\ (i + 1) - q = (i - q) + 1 /\ ~ (i + 1 <= q)
          /\ i - q < Len(y.words)
      BY <1>2, <2>1, <2>5
    <3>2. Start(i) = n + Start(i - q) /\ Start(i - q) \in Nat
      BY <1>2, <3>1, StartSum, StartIs
    <3>3. Start(i) + b >= n /\ (Start(i) + b) - n = Start(i - q) + b
      BY <1>1, <2>1, <3>2
    <3>4. IsOne(t, Start(i - q) + b) <=> b \in y.words[(i - q) + 1]
      BY <3>1, HoldsEvery
    <3> QED  BY <1>5, <2>1, <2>2, <2>3, <2>5, <3>1, <3>3, <3>4
  <2> QED  BY <2>4, <2>5
<1>7. Len(words) = WordsFor(Len(result))
  BY <1>1, <1>2, <1>3, <1>4, <1>5, WordsForSum
<1>8. Holds([words |-> words, size |-> Len(result), cur |-> Len(words)], result)
  BY <1>4, <1>5, <1>6, <1>7, HoldsBy
<1> QED  BY <1>8 DEF words, result

\* Inside a word every bit of the other moves up by as many bits as are
\* there.
LEMMA ShiftedInHolds ==
    ASSUME NEW x, NEW s \in Bits, Holds(x, s), InWord(Len(s)) # 0,
           NEW y, NEW t \in Bits, Holds(y, t)
    PROVE  LET n == Len(x.words)
               shift == InWord(Len(s))
               words == [i \in 1 .. WordsFor(Len(s \o t)) |->
                           (IF i > n THEN ShiftRight(y.words[i - n], WordBits - shift)
                                     ELSE x.words[i])
                           \cup
                           (IF i < n \/ i - n + 1 > Len(y.words) THEN {}
                            ELSE ShiftLeft(y.words[i - n + 1], shift))]
           IN  Holds([words |-> words, size |-> Len(s \o t), cur |-> Len(words)], s \o t)
<1> DEFINE n == Len(x.words)
           q == WordOf(Len(s))
           shift == InWord(Len(s))
           k == WordsFor(Len(s \o t))
           old(i) == IF i > n THEN ShiftRight(y.words[i - n], WordBits - shift) ELSE x.words[i]
           new(i) == IF i < n \/ i - n + 1 > Len(y.words) THEN {}
                     ELSE ShiftLeft(y.words[i - n + 1], shift)
           words == [i \in 1 .. k |-> old(i) \cup new(i)]
           result == s \o t
           size == Len(s)
           stored == WordBits - shift
<1>1. size \in Nat /\ Len(t) \in Nat
  BY LenBits
<1>2. /\ q \in Nat /\ size = Start(q) + shift /\ shift \in Nat \ {0} /\ shift < WordBits
      /\ stored \in Nat /\ stored + shift = WordBits
      /\ Start(q) \in Nat /\ n = q + 1
  <2>1. q \in Nat /\ shift \in Word /\ size = Start(q) + shift
    BY <1>1, Position
  <2>2. n = q + 1
    BY <1>1, HoldsFacts, WordsForIs
  <2> HIDE DEF q, shift, n
  <2>3. shift \in Nat /\ shift < WordBits /\ shift # 0
    BY <2>1, Width DEF Word, shift
  <2>4. Start(q) \in Nat
    BY <2>1, StartIs
  <2> QED  BY <2>1, <2>2, <2>3, <2>4, Width
<1>3. /\ x.words \in Seq(SUBSET Word)
      /\ y.words \in Seq(SUBSET Word) /\ Len(y.words) = WordsFor(Len(t)) /\ Len(y.words) \in Nat
  BY HoldsFacts
<1>4. /\ result \in Bits /\ Len(result) = size + Len(t)
      /\ \A pos \in Nat : IsOne(result, pos) <=> IsOne(s, pos) \/ (pos >= size /\ IsOne(t, pos - size))
  <2>1. 0 \in Nat
    OBVIOUS
  <2> QED  BY <2>1, OneOfConcat
<1> HIDE DEF n, q, shift, stored, size
<1>5. k \in Nat /\ k <= (q + 1) + Len(y.words)
  <2>1. k \in Nat
    BY <1>1, <1>4, WordsForBounds
  <2>2. Len(t) <= Start(Len(y.words)) /\ Start(Len(y.words)) \in Nat
    BY <1>1, <1>3, WordsForBounds, StartIs
  <2> HIDE DEF k, old, new, words, result
  <2>3. Start((q + 1) + Len(y.words)) = Start(q + 1) + Start(Len(y.words))
        /\ Start(q + 1) = Start(q) + WordBits /\ (q + 1) + Len(y.words) \in Nat
    <3>1. q + 1 \in Nat
      BY <1>2
    <3>2. Start((q + 1) + Len(y.words)) = Start(q + 1) + Start(Len(y.words))
      BY <1>3, <3>1, StartSum
    <3>3. Start(q + 1) = Start(q) + WordBits
      BY <1>2, StartNext
    <3> QED  BY <1>3, <3>1, <3>2, <3>3
  <2>4. Len(result) <= Start((q + 1) + Len(y.words))
    <3> DEFINE l == Len(t)
               m == Start(Len(y.words))
               e == Len(result)
    <3>1. l \in Nat /\ m \in Nat /\ l <= m /\ e = size + l
      BY <1>1, <1>4, <2>2
    <3>2. Start((q + 1) + Len(y.words)) = (Start(q) + WordBits) + m
      BY <2>3
    <3> HIDE DEF l, m, e
    <3>3. e <= (Start(q) + WordBits) + m
      BY <1>1, <1>2, <3>1, Width, SMTT(30)
    <3> QED  BY <3>2, <3>3 DEF e
  <2>5. 0 \in Word
    BY Width DEF Word
  <2>6. ~ ((q + 1) + Len(y.words) < k)
    <3> SUFFICES ASSUME (q + 1) + Len(y.words) < k
                 PROVE  FALSE
      OBVIOUS
    <3>1. k # 0 /\ k - 1 \in Nat /\ (q + 1) + Len(y.words) <= k - 1
      BY <2>1, <2>3
    <3>2. Start(k - 1) < Len(result) /\ Len(result) \in Nat
      <4>1. Len(result) \in Nat
        BY <1>4, LenBits
      <4>2. k = WordsFor(Len(result))
        BY DEF k, result
      <4> QED  BY <3>1, <4>1, <4>2, WordsForBounds
    <3>3. Start((q + 1) + Len(y.words)) <= Start(k - 1)
      BY <2>3, <3>1, StartMonotone
    <3>4. Start(k - 1) \in Nat /\ Start((q + 1) + Len(y.words)) \in Nat
      BY <2>3, <3>1, StartIs
    <3> QED  BY <2>4, <3>2, <3>3, <3>4
  <2> QED  BY <2>1, <2>3, <2>6
<1> HIDE DEF result, k
<1>6. ASSUME NEW i \in 0 .. k - 1
      PROVE  /\ old(i + 1) \in SUBSET Word /\ new(i + 1) \in SUBSET Word
             /\ \A b \in Word :
                  /\ b \in old(i + 1) <=>
                       IF i > q THEN b + stored \in y.words[i - q]
                                ELSE b \in x.words[i + 1]
                  /\ b \in new(i + 1) <=>
                       /\ i >= q /\ i - q < Len(y.words)
                       /\ b >= shift /\ b - shift \in y.words[(i - q) + 1]
  <2>1. /\ i \in Nat /\ (i + 1 > n <=> i > q) /\ (i + 1 < n <=> i < q) /\ (i + 1) - n = i - q
        /\ ((i + 1) - n) + 1 = (i - q) + 1
        /\ (((i + 1) - n) + 1 > Len(y.words) <=> ~ (i - q < Len(y.words)))
        /\ i > q => i - q \in 1 .. Len(y.words)
        /\ i >= q /\ i - q < Len(y.words) => (i - q) + 1 \in 1 .. Len(y.words)
        /\ i <= q => i + 1 \in 1 .. Len(x.words)
    <3>1. Len(x.words) = q + 1
      BY <1>2 DEF n
    <3> QED  BY <1>2, <1>3, <1>5, <3>1, SMTT(30)
  <2>2. old(i + 1) = IF i > q THEN ShiftRight(y.words[i - q], stored) ELSE x.words[i + 1]
    BY <2>1 DEF stored
  <2>3. new(i + 1) = IF i < q \/ ~ (i - q < Len(y.words)) THEN {}
                     ELSE ShiftLeft(y.words[(i - q) + 1], shift)
    BY <2>1
  <2> HIDE DEF old, new
  <2>4. i > q => /\ old(i + 1) \in SUBSET Word
                 /\ \A b \in Word : b \in old(i + 1) <=> b + stored \in y.words[i - q]
    <3> SUFFICES ASSUME i > q
                 PROVE  /\ old(i + 1) \in SUBSET Word
                        /\ \A b \in Word : b \in old(i + 1) <=> b + stored \in y.words[i - q]
      OBVIOUS
    <3>1. y.words[i - q] \in SUBSET Word
      BY <1>3, <2>1
    <3>2. y.words[i - q] \in SUBSET Nat
      BY <3>1, WordIsSet
    <3>3. old(i + 1) = ShiftRight(y.words[i - q], stored)
      BY <2>2
    <3>4. old(i + 1) \in SUBSET Word
      BY <1>2, <3>1, <3>3, RightIsWord
    <3>5. \A b \in Word : b \in Nat
      BY WordIsSet
    <3>6. \A b \in Word : b \in ShiftRight(y.words[i - q], stored) <=> b + stored \in y.words[i - q]
      BY <1>2, <3>2, <3>5, Right
    <3> QED  BY <3>3, <3>4, <3>6
  <2>5. ~ (i > q) => old(i + 1) = x.words[i + 1] /\ old(i + 1) \in SUBSET Word
    BY <1>2, <1>3, <2>1, <2>2, SMTT(30)
  <2>6. i >= q /\ i - q < Len(y.words) =>
            /\ new(i + 1) \in SUBSET Word
            /\ \A b \in Word : b \in new(i + 1) <=> b >= shift /\ b - shift \in y.words[(i - q) + 1]
    <3> SUFFICES ASSUME i >= q, i - q < Len(y.words)
                 PROVE  /\ new(i + 1) \in SUBSET Word
                        /\ \A b \in Word : b \in new(i + 1) <=>
                              b >= shift /\ b - shift \in y.words[(i - q) + 1]
      OBVIOUS
    <3>1. y.words[(i - q) + 1] \in SUBSET Word
      BY <1>3, <2>1
    <3>2. y.words[(i - q) + 1] \in SUBSET Nat
      BY <3>1, WordIsSet
    <3>3. new(i + 1) = ShiftLeft(y.words[(i - q) + 1], shift)
      BY <1>2, <2>1, <2>3
    <3> DEFINE w == y.words[(i - q) + 1]
    <3>4. w \in SUBSET Nat /\ shift \in Nat
      BY <1>2, <3>2
    <3> HIDE DEF w
    <3>5. \A b \in Word : b \in ShiftLeft(w, shift) <=> b >= shift /\ b - shift \in w
      BY <3>4, Left
    <3>6. ShiftLeft(w, shift) \in SUBSET Word
      BY LeftIsWord
    <3> QED  BY <3>3, <3>5, <3>6 DEF w
  <2>7. ~ (i >= q /\ i - q < Len(y.words)) => new(i + 1) = {}
    BY <1>2, <2>1, <2>3
  <2> QED  BY <2>4, <2>5, <2>6, <2>7
<1> HIDE DEF old, new
<1>7. words \in Seq(SUBSET Word) /\ Len(words) = k
      /\ \A i \in 0 .. k - 1 : words[i + 1] = old(i + 1) \cup new(i + 1)
  <2>1. \A i \in 1 .. k : i - 1 \in 0 .. k - 1 /\ (i - 1) + 1 = i
    BY <1>5
  <2>2. \A i \in 1 .. k : old(i) \cup new(i) \in SUBSET Word
    <3> TAKE i \in 1 .. k
    <3>1. old((i - 1) + 1) \in SUBSET Word /\ new((i - 1) + 1) \in SUBSET Word
      BY <1>6, <2>1
    <3> QED  BY <2>1, <3>1
  <2>3. \A i \in 0 .. k - 1 : i + 1 \in 1 .. k
    BY <1>5
  <2>4. words \in Seq(SUBSET Word) /\ Len(words) = k
    BY <1>5, <2>2
  <2> QED  BY <2>3, <2>4
<1> HIDE DEF words
<1>8. ASSUME NEW i \in 0 .. k - 1, NEW b \in Word
      PROVE  b \in words[i + 1] <=> IsOne(result, Start(i) + b)
  <2> DEFINE p == Start(i) + b
  <2>1. /\ i \in Nat /\ p \in Nat /\ b \in Nat /\ b < WordBits /\ Start(i) \in Nat
        /\ b \in words[i + 1] <=> b \in old(i + 1) \/ b \in new(i + 1)
    <3>1. i \in Nat
      BY <1>5
    <3>2. p \in Nat /\ Start(i) \in Nat
      BY <3>1, PositionOf, StartIs
    <3>3. b \in Nat /\ b < WordBits
      BY Width DEF Word
    <3> QED  BY <1>7, <3>1, <3>2, <3>3
  <2>2. IsOne(s, p) <=> i < q + 1 /\ b \in x.words[i + 1]
    BY <1>2, <2>1, HoldsEvery DEF n
  <2>3. IsOne(result, p) <=> IsOne(s, p) \/ (p >= size /\ IsOne(t, p - size))
    BY <1>4, <2>1
  <2>4. CASE i < q
    <3>1. ~ (p >= size)
      <4>1. Start(i) + WordBits <= Start(q)
        BY <1>2, <2>1, <2>4, StartAscends
      <4> QED  BY <1>1, <1>2, <2>1, <4>1, SMTT(30)
    <3>2. ~ (i > q) /\ ~ (i >= q) /\ i < q + 1
      BY <1>2, <2>1, <2>4
    <3> QED  BY <1>6, <2>1, <2>2, <2>3, <3>1, <3>2
  <2>5. CASE i >= q
    <3>1. i - q \in Nat /\ q + (i - q) = i
      BY <1>2, <2>1, <2>5
    <3>2. Start(i) = Start(q) + Start(i - q) /\ Start(i - q) \in Nat
      BY <1>2, <3>1, StartSum, StartIs
    <3>3. CASE b >= shift
      <4>1. b - shift \in Word
        BY <1>2, <2>1, <3>3, SMTT(30) DEF Word
      <4>2. p >= size /\ p - size = Start(i - q) + (b - shift)
        BY <1>1, <1>2, <2>1, <3>2, <3>3, SMTT(30)
      <4>3. IsOne(t, p - size) <=> i - q < Len(y.words) /\ b - shift \in y.words[(i - q) + 1]
        BY <3>1, <4>1, <4>2, HoldsEvery
      <4>4. i > q => b + stored \notin y.words[i - q]
        <5> SUFFICES ASSUME i > q
                     PROVE  b + stored \notin y.words[i - q]
          OBVIOUS
        <5>1. i - q \in 1 .. Len(y.words)
          BY <1>2, <1>3, <1>5, <2>1, SMTT(30)
        <5>2. y.words[i - q] \in SUBSET Word
          BY <1>3, <5>1
        <5>3. b + stored \notin Word
          BY <1>2, <2>1, <3>3, Width DEF Word
        <5> QED  BY <5>2, <5>3
      <4>5. i < q + 1 <=> ~ (i > q)
        BY <1>2, <2>1, <2>5
      <4> QED  BY <1>6, <2>1, <2>2, <2>3, <2>5, <3>3, <4>2, <4>3, <4>4, <4>5
    <3>4. CASE ~ (b >= shift)
      <4>1. CASE i = q
        <5>1. ~ (p >= size) /\ ~ (i > q) /\ i < q + 1
          <6>1. Start(i) = Start(q)
            BY <4>1
          <6> QED  BY <1>1, <1>2, <2>1, <3>4, <4>1, <6>1
        <5> QED  BY <1>6, <2>1, <2>2, <2>3, <3>4, <5>1
      <4>2. CASE i # q
        <5>1. i > q /\ ~ (i < q + 1) /\ i - q - 1 \in Nat /\ (i - q - 1) + 1 = i - q
              /\ i - q - 1 < Len(y.words)
          BY <1>2, <1>3, <1>5, <2>1, <2>5, <4>2, SMTT(30)
        <5>2. Start(i - q) = Start(i - q - 1) + WordBits /\ Start(i - q - 1) \in Nat
          BY <5>1, StartNext, StartIs
        <5>3. b + stored \in Word
          BY <1>2, <2>1, <3>4, Width DEF Word
        <5>4. p >= size /\ p - size = Start(i - q - 1) + (b + stored)
          <6> DEFINE u == Start(i - q - 1)
                     v == Start(i - q)
                     w == Start(i)
                     a == Start(q)
          <6>1. u \in Nat /\ v = u + WordBits /\ w = a + v /\ p = w + b /\ a \in Nat
                /\ size = a + shift /\ b \in Nat /\ WordBits \in Nat
            BY <1>2, <2>1, <3>2, <5>2, Width
          <6> HIDE DEF u, v, w, p, a
          <6>2. p >= size /\ p - size = u + (b + stored)
            BY <1>2, <6>1
          <6> QED  BY <6>2 DEF u
        <5>5. IsOne(t, p - size) <=> b + stored \in y.words[i - q]
          BY <5>1, <5>3, <5>4, HoldsEvery
        <5> QED  BY <1>6, <2>1, <2>2, <2>3, <3>4, <5>1, <5>4, <5>5
      <4> QED  BY <4>1, <4>2
    <3> QED  BY <3>3, <3>4
  <2>6. i < q \/ i >= q
    BY <1>2, <2>1
  <2> QED  BY <2>4, <2>5, <2>6
<1>9. Len(words) = WordsFor(Len(result))
  BY <1>7 DEF k, result
<1>10. Holds([words |-> words, size |-> Len(result), cur |-> Len(words)], result)
  BY <1>4, <1>7, <1>8, <1>9, HoldsBy
<1> QED  BY <1>10 DEF words, result, k, old, new, n, shift

LEMMA AppendVectorHolds ==
    ASSUME NEW x, NEW s \in Bits, Holds(x, s), NEW y, NEW t \in Bits, Holds(y, t)
    PROVE  Holds(AppendVector(x, y), s \o t)
<1>1. x.size = Len(s) /\ y.size = Len(t) /\ Len(s) \in Nat /\ Len(t) \in Nat
      /\ Len(s \o t) = Len(s) + Len(t) /\ s \o t \in Bits
  <2>1. 0 \in Nat
    OBVIOUS
  <2> QED  BY <2>1, HoldsFacts, LenBits, OneOfConcat
<1>2. CASE Len(t) = 0
  <2>1. AppendVector(x, y) = x
    BY <1>1, <1>2 DEF AppendVector
  <2>2. \A pos \in Nat : IsOne(s \o t, pos) <=> IsOne(s, pos)
    <3> TAKE pos \in Nat
    <3>1. ~ (pos >= Len(s) /\ IsOne(t, pos - Len(s)))
      BY <1>1, <1>2 DEF IsOne
    <3> QED  BY <3>1, OneOfConcat
  <2> QED  BY <1>1, <1>2, <2>1, <2>2, HoldsSame
<1>3. CASE Len(t) # 0 /\ InWord(Len(s)) = 0
  <2>1. AppendVector(x, y) =
           [words |-> x.words \o y.words, size |-> Len(s \o t), cur |-> Len(x.words \o y.words)]
    BY <1>1, <1>3 DEF AppendVector
  <2> QED  BY <1>3, <2>1, JoinHolds
<1>4. CASE Len(t) # 0 /\ InWord(Len(s)) # 0
  <2> DEFINE n == Len(x.words)
             shift == InWord(Len(s))
             words == [i \in 1 .. WordsFor(Len(s \o t)) |->
                         (IF i > n THEN ShiftRight(y.words[i - n], WordBits - shift)
                                   ELSE x.words[i])
                         \cup
                         (IF i < n \/ i - n + 1 > Len(y.words) THEN {}
                          ELSE ShiftLeft(y.words[i - n + 1], shift))]
  <2>1. AppendVector(x, y) = [words |-> words, size |-> Len(s \o t), cur |-> Len(words)]
    BY <1>1, <1>4 DEF AppendVector
  <2> QED  BY <1>4, <2>1, ShiftedInHolds
<1> QED  BY <1>2, <1>3, <1>4

(***************************************************************************)
(* reverse().                                                              *)
(***************************************************************************)
Turned(seq) == [i \in DOMAIN seq |-> seq[Len(seq) + 1 - i]]

LEMMA TurnedIs ==
    ASSUME NEW seq \in Bits
    PROVE  /\ Turned(seq) \in Bits
           /\ Len(Turned(seq)) = Len(seq)
           /\ \A pos \in Nat : IsOne(Turned(seq), pos) <=>
                 pos < Len(seq) /\ IsOne(seq, (Len(seq) - 1) - pos)
<1> DEFINE n == Len(seq)
           result == [i \in 1 .. n |-> seq[n + 1 - i]]
<1>1. n \in Nat /\ DOMAIN seq = 1 .. n /\ \A i \in 1 .. n : seq[i] \in {0, 1}
  BY DEF Bits
<1>2. Turned(seq) = result
  BY <1>1 DEF Turned
<1> HIDE DEF n
<1>3. \A i \in 1 .. n : n + 1 - i \in 1 .. n
  BY <1>1
<1>4. result \in Bits /\ Len(result) = n /\ \A i \in 1 .. n : result[i] = seq[n + 1 - i]
  BY <1>1, <1>3 DEF Bits
<1> HIDE DEF result
<1>5. ASSUME NEW pos \in Nat
      PROVE  IsOne(result, pos) <=> pos < n /\ IsOne(seq, (n - 1) - pos)
  <2>1. CASE pos < n
    <3>1. pos + 1 \in 1 .. n /\ n + 1 - (pos + 1) = ((n - 1) - pos) + 1 /\ (n - 1) - pos < n
      BY <1>1, <2>1
    <3>2. result[pos + 1] = seq[((n - 1) - pos) + 1]
      BY <1>4, <3>1
    <3> QED  BY <1>4, <2>1, <3>1, <3>2 DEF IsOne, n
  <2>2. CASE ~ (pos < n)
    BY <1>4, <2>2 DEF IsOne
  <2> QED  BY <2>1, <2>2
<1> QED  BY <1>2, <1>4, <1>5 DEF n

LEMMA Reflected ==
    ASSUME NEW word \in SUBSET Word
    PROVE  /\ ReverseBits(word) \in SUBSET Word
           /\ \A b \in Word : (WordBits - 1) - b \in Word
                              /\ (b \in ReverseBits(word) <=> (WordBits - 1) - b \in word)
<1>1. \A b \in Word : /\ (WordBits - 1) - b \in Word
                      /\ (WordBits - 1) - ((WordBits - 1) - b) = b
  BY Width DEF Word
<1>2. ReverseBits(word) = {(WordBits - 1) - b : b \in word}
  BY Width DEF ReverseBits
<1>3. ReverseBits(word) \in SUBSET Word
  BY <1>1, <1>2
<1>4. ASSUME NEW b \in Word
      PROVE  b \in ReverseBits(word) <=> (WordBits - 1) - b \in word
  <2>1. ASSUME b \in ReverseBits(word)
        PROVE  (WordBits - 1) - b \in word
    <3>1. PICK c \in word : b = (WordBits - 1) - c
      BY <1>2, <2>1
    <3> QED  BY <1>1, <3>1
  <2>2. ASSUME (WordBits - 1) - b \in word
        PROVE  b \in ReverseBits(word)
    BY <1>1, <1>2, <2>2
  <2> QED  BY <2>1, <2>2
<1> QED  BY <1>1, <1>3, <1>4

LEMMA TurnHolds ==
    ASSUME NEW x, NEW seq \in Bits, Holds(x, seq)
    PROVE  Holds(Reversed(x), Turned(seq))
<1> DEFINE n == Len(seq)
           L == Len(x.words)
           r == InWord(n)
           shift == WordBits - r
           remainder(i) == IF i = 1 THEN {} ELSE ShiftRight(x.words[i - 1], WordBits - shift)
           shifted(i) == IF shift = WordBits THEN x.words[i]
                         ELSE remainder(i) \cup ShiftLeft(x.words[i], shift)
           words == [i \in DOMAIN x.words |-> ReverseBits(shifted(L + 1 - i))]
           result == Turned(seq)
<1>1. n \in Nat
  BY LenBits
<1>2. /\ x.words \in Seq(SUBSET Word) /\ L = WordsFor(n) /\ L \in Nat /\ DOMAIN x.words = 1 .. L
      /\ x.size = n
      /\ x = [words |-> x.words, size |-> n, cur |-> L]
  BY HoldsFacts DEF Holds
<1>3. /\ result \in Bits /\ Len(result) = n
      /\ \A pos \in Nat : IsOne(result, pos) <=> pos < n /\ IsOne(seq, (n - 1) - pos)
  BY TurnedIs
<1> HIDE DEF result
<1>4. Reversed(x) = [words |-> words, size |-> n, cur |-> L]
  <2>1. Reversed(x) = [x EXCEPT !.words = words]
    BY <1>2 DEF Reversed
  <2> HIDE DEF words, n, L
  <2> QED  BY <1>2, <2>1
<1>5. /\ r \in Nat /\ r < WordBits /\ shift \in Nat /\ shift + r = WordBits /\ WordBits - shift = r
      /\ WordBits \in Nat
      /\ Start(L) \in Nat /\ n = IF r = 0 THEN Start(L) ELSE Start(L) - shift
      /\ (shift = WordBits <=> r = 0)
  <2> DEFINE q == WordOf(n)
  <2>1. q \in Nat /\ r \in Word /\ n = Start(q) + r
    BY <1>1, Position
  <2>2. L = IF r = 0 THEN q ELSE q + 1
    BY <1>1, <1>2, WordsForIs
  <2> HIDE DEF r, q, L, n
  <2>3. r \in Nat /\ r < WordBits /\ WordBits \in Nat
    BY <2>1, Width DEF Word
  <2>4. Start(q) \in Nat /\ Start(q + 1) = Start(q) + WordBits
    BY <2>1, StartIs, StartNext
  <2> QED  BY <2>1, <2>2, <2>3, <2>4
<1> HIDE DEF n, r, L, shift
<1>6. ASSUME NEW j \in 0 .. L - 1
      PROVE  /\ shifted(j + 1) \in SUBSET Word
             /\ \A c \in Word : c \in shifted(j + 1) <=>
                  IF r = 0 THEN c \in x.words[j + 1]
                  ELSE \/ j # 0 /\ c + r \in x.words[j]
                       \/ c >= shift /\ c - shift \in x.words[j + 1]
  <2>1. j \in Nat /\ (j + 1) - 1 = j /\ (j + 1 = 1 <=> j = 0) /\ j + 1 \in 1 .. L
        /\ (j # 0 => j \in 1 .. L)
    BY <1>2
  <2>2. x.words[j + 1] \in SUBSET Word /\ (j # 0 => x.words[j] \in SUBSET Word)
    BY <1>2, <2>1 DEF L
  <2>3. x.words[j + 1] \in SUBSET Nat /\ (j # 0 => x.words[j] \in SUBSET Nat)
    BY <2>2, WordIsSet
  <2>4. CASE r = 0
    <3>1. shifted(j + 1) = x.words[j + 1]
      BY <1>5, <2>4
    <3> HIDE DEF shifted
    <3> QED  BY <2>2, <2>4, <3>1
  <2>5. CASE r # 0
    <3> DEFINE low == remainder(j + 1)
               high == ShiftLeft(x.words[j + 1], shift)
    <3>1. shifted(j + 1) = low \cup high
      BY <1>5, <2>5
    <3>2. high \in SUBSET Word /\ \A c \in Word : c \in high <=> c >= shift /\ c - shift \in x.words[j + 1]
      BY <1>5, <2>3, Left, LeftIsWord
    <3>3. low = IF j = 0 THEN {} ELSE ShiftRight(x.words[j], r)
      BY <1>5, <2>1
    <3>4. low \in SUBSET Word /\ \A c \in Word : c \in low <=> j # 0 /\ c + r \in x.words[j]
      <4>1. CASE j = 0
        <5> HIDE DEF low
        <5> QED  BY <3>3, <4>1
      <4>2. CASE j # 0
        <5> HIDE DEF low
        <5>1. low = ShiftRight(x.words[j], r)
          BY <3>3, <4>2
        <5>2. low \in SUBSET Word
          BY <1>5, <2>2, <4>2, <5>1, RightIsWord
        <5>3. \A c \in Word : c \in Nat
          BY WordIsSet
        <5>4. \A c \in Word : c \in ShiftRight(x.words[j], r) <=> c + r \in x.words[j]
          BY <1>5, <2>3, <4>2, <5>3, Right
        <5> QED  BY <4>2, <5>1, <5>2, <5>4
      <4> QED  BY <4>1, <4>2
    <3> HIDE DEF low, high, shifted
    <3> QED  BY <2>5, <3>1, <3>2, <3>4
  <2> QED  BY <2>4, <2>5
<1> HIDE DEF shifted
<1>7. /\ words \in Seq(SUBSET Word) /\ Len(words) = L
      /\ \A i \in 0 .. L - 1 : words[i + 1] = ReverseBits(shifted(((L - 1) - i) + 1))
  <2>1. \A i \in 1 .. L : L - i \in 0 .. L - 1 /\ (L - i) + 1 = L + 1 - i
    BY <1>2
  <2>2. \A i \in 1 .. L : ReverseBits(shifted(L + 1 - i)) \in SUBSET Word
    <3> TAKE i \in 1 .. L
    <3>1. shifted((L - i) + 1) \in SUBSET Word
      BY <1>6, <2>1
    <3> QED  BY <2>1, <3>1, Reflected
  <2>3. words \in Seq(SUBSET Word) /\ Len(words) = L /\ \A i \in 1 .. L : words[i] = ReverseBits(shifted(L + 1 - i))
    BY <1>2, <2>2
  <2> HIDE DEF words
  <2>4. ASSUME NEW i \in 0 .. L - 1
        PROVE  words[i + 1] = ReverseBits(shifted(((L - 1) - i) + 1))
    <3>1. i + 1 \in 1 .. L /\ L + 1 - (i + 1) = ((L - 1) - i) + 1
      BY <1>2
    <3> QED  BY <2>3, <3>1
  <2> QED  BY <2>3, <2>4
<1> HIDE DEF words
<1>8. ASSUME NEW i \in 0 .. L - 1, NEW b \in Word
      PROVE  b \in words[i + 1] <=> IsOne(result, Start(i) + b)
  <2> DEFINE j == (L - 1) - i
             c == (WordBits - 1) - b
             p == Start(i) + b
  <2>1. j \in 0 .. L - 1 /\ j \in Nat /\ i \in Nat /\ i + (j + 1) = L
    BY <1>2
  <2>2. shifted(j + 1) \in SUBSET Word
    BY <1>6, <2>1
  <2>3. c \in Word /\ (b \in words[i + 1] <=> c \in shifted(j + 1))
    <3>1. words[i + 1] = ReverseBits(shifted(j + 1))
      BY <1>7
    <3> HIDE DEF j
    <3> QED  BY <2>2, <3>1, Reflected
  <2> HIDE DEF j
  <2>4. /\ Start(L) = Start(i) + (Start(j) + WordBits)
        /\ Start(i) \in Nat /\ Start(j) \in Nat
    <3>1. Start(L) = Start(i) + Start(j + 1)
      BY <2>1, StartSum
    <3>2. Start(j + 1) = Start(j) + WordBits
      BY <2>1, StartNext
    <3> QED  BY <2>1, <3>1, <3>2, StartIs
  <2>5. b \in Nat /\ b < WordBits /\ c \in Nat /\ c < WordBits /\ b + c = WordBits - 1 /\ p \in Nat
    BY <1>5, <2>4, Width DEF Word
  <2>6. Start(L) - 1 - p = Start(j) + c
    <3> DEFINE u == Start(j)
               v == Start(i)
               w == Start(L)
    <3>1. u \in Nat /\ v \in Nat /\ w = v + (u + WordBits) /\ p = v + b
      BY <2>4
    <3> HIDE DEF u, v, w, p, c
    <3>2. w - 1 - p = u + c
      BY <1>5, <2>5, <3>1
    <3> QED  BY <3>2 DEF u, w
  <2>7. c \in shifted(j + 1) <=>
           IF r = 0 THEN c \in x.words[j + 1]
           ELSE \/ j # 0 /\ c + r \in x.words[j]
                \/ c >= shift /\ c - shift \in x.words[j + 1]
    BY <1>6, <2>1, <2>3
  <2>8. IsOne(result, p) <=> p < n /\ IsOne(seq, (n - 1) - p)
    BY <1>3, <2>5
  <2> HIDE DEF p, c
  <2>9. CASE r = 0
    <3>1. (n - 1) - p = Start(j) + c
      BY <1>5, <2>5, <2>6, <2>9
    <3>2. p < n
      BY <1>1, <2>4, <2>5, <3>1
    <3>3. c \in x.words[j + 1] <=> IsOne(seq, Start(j) + c)
      BY <2>1, <2>3, HoldsOnes DEF L
    <3> QED  BY <2>3, <2>7, <2>8, <2>9, <3>1, <3>2, <3>3 DEF p
  <2>10. CASE r # 0
    <3>1. (n - 1) - p = (Start(j) + c) - shift
      BY <1>1, <1>5, <2>5, <2>6, <2>10
    <3>2. CASE c >= shift
      <4>1. c - shift \in Word
        BY <1>5, <2>5, <3>2 DEF Word
      <4>2. (n - 1) - p = Start(j) + (c - shift) /\ p < n
        BY <1>1, <1>5, <2>4, <2>5, <3>1, <3>2
      <4>3. c - shift \in x.words[j + 1] <=> IsOne(seq, Start(j) + (c - shift))
        BY <2>1, <4>1, HoldsOnes DEF L
      <4>4. j # 0 => c + r \notin x.words[j]
        <5> SUFFICES ASSUME j # 0
                     PROVE  c + r \notin x.words[j]
          OBVIOUS
        <5>1. x.words[j] \in SUBSET Word
          BY <1>2, <2>1 DEF L
        <5>2. c + r \notin Word
          BY <1>5, <2>5, <3>2 DEF Word
        <5> QED  BY <5>1, <5>2
      <4> QED  BY <2>3, <2>7, <2>8, <2>10, <3>2, <4>2, <4>3, <4>4 DEF p
    <3>3. CASE ~ (c >= shift) /\ j = 0
      <4>1. Start(j) = 0
        BY <3>3, StartZero
      <4>2. ~ (p < n)
        BY <1>1, <1>5, <2>5, <3>1, <3>3, <4>1
      <4> QED  BY <2>3, <2>7, <2>8, <2>10, <3>3, <4>2 DEF p
    <3>4. CASE ~ (c >= shift) /\ j # 0
      <4>1. j - 1 \in 0 .. L - 1 /\ j - 1 \in Nat /\ (j - 1) + 1 = j
        BY <1>2, <2>1, <3>4
      <4>2. Start(j) = Start(j - 1) + WordBits /\ Start(j - 1) \in Nat
        BY <4>1, StartNext, StartIs
      <4>3. c + r \in Word
        BY <1>5, <2>5, <3>4 DEF Word
      <4>4. (n - 1) - p = Start(j - 1) + (c + r) /\ p < n
        BY <1>1, <1>5, <2>4, <2>5, <3>1, <4>2
      <4>5. c + r \in x.words[j] <=> IsOne(seq, Start(j - 1) + (c + r))
        BY <4>1, <4>3, HoldsOnes DEF L
      <4> QED  BY <2>3, <2>7, <2>8, <2>10, <3>4, <4>4, <4>5 DEF p
    <3> QED  BY <3>2, <3>3, <3>4
  <2> QED  BY <2>9, <2>10
<1>9. Len(words) = WordsFor(Len(result))
  BY <1>2, <1>3, <1>7
<1>10. Holds([words |-> words, size |-> Len(result), cur |-> Len(words)], result)
  BY <1>3, <1>7, <1>8, <1>9, HoldsBy
<1> QED  BY <1>3, <1>4, <1>7, <1>10 DEF result

(***************************************************************************)
(* push_pad().                                                             *)
(***************************************************************************)
LEMMA PadIs ==
    ASSUME NEW pos \in Nat
    PROVE  PadOf(pos) \in 0 .. WordBits
<1>1. ByteBits \in Nat \ {0} /\ WordBits \in Nat \ {0} /\ WordBits % ByteBits = 0
  BY WordAssumption
<1>2. ByteBits <= WordBits
  <2>1. WordBits < ByteBits => WordBits % ByteBits = WordBits
    BY <1>1
  <2> QED  BY <1>1, <2>1
<1>3. pos % ByteBits \in 0 .. ByteBits - 1
  BY <1>1
<1>4. ByteBits - (pos % ByteBits) \in Nat
  BY <1>1, <1>3
<1>5. (ByteBits - (pos % ByteBits)) % ByteBits \in 0 .. ByteBits - 1
  BY <1>1, <1>4
<1> QED  BY <1>1, <1>2, <1>5 DEF PadOf

LEMMA PadHolds ==
    ASSUME NEW x, NEW seq \in Bits, Holds(x, seq)
    PROVE  Holds(PushPad(x), seq \o [i \in 1 .. PadOf(Len(seq)) |-> 0])
<1> DEFINE pad == PadOf(Len(seq))
<1>1. pad \in 0 .. WordBits
  BY LenBits, PadIs
<1>2. PushPad(x) = AppendBits(x, {}, pad)
  BY HoldsFacts DEF PushPad
<1>3. Sequence({}, pad) = [i \in 1 .. pad |-> 0]
  BY DEF Sequence
<1>4. {} \in SUBSET LowMask(pad)
  OBVIOUS
<1>5. Holds(AppendBits(x, {}, pad), seq \o Sequence({}, pad))
  BY <1>1, <1>4, AppendHolds
<1> QED  BY <1>2, <1>3, <1>5

-----------------------------------------------------------------------------
(***************************************************************************)
(* Every call of the builder keeps the invariant, and no reader changes    *)
(* the words.                                                              *)
(***************************************************************************)
BuilderInv ==
    /\ bits \in Bits
    /\ Holds(builder, bits)

LEMMA BuilderInitHolds == StreamInit => BuilderInv
BY EmptyHolds DEF StreamInit, BuilderInv, Bits

LEMMA BuilderStepKeeps == BuilderInv /\ [StreamNext]_streamVars => BuilderInv'
<1> SUFFICES ASSUME BuilderInv, [StreamNext]_streamVars
             PROVE  BuilderInv'
  OBVIOUS
<1>1. bits \in Bits /\ Holds(builder, bits) /\ Len(bits) \in Nat /\ DOMAIN bits = 1 .. Len(bits)
  BY LenBits DEF BuilderInv
<1>2. ASSUME NEW x, NEW seq \in Bits, Holds(x, seq), Changes(x, seq)
      PROVE  BuilderInv'
  BY <1>2 DEF Changes, BuilderInv
<1>3. CASE UNCHANGED <<builder, bits>>
  BY <1>1, <1>3 DEF BuilderInv
<1>4. CASE Push
  <2>1. PICK bit \in {0, 1} : Changes(PushBack(builder, bit), Append(bits, bit))
    BY <1>4 DEF Push
  <2>2. Append(bits, bit) \in Bits
    BY <1>1 DEF Bits
  <2> QED  BY <1>1, <1>2, <2>1, <2>2, PushHolds
<1>5. CASE Extend
  <2>1. PICK n \in 0 .. MaxBits - Len(bits) :
           Changes(ZeroExtend(builder, n), bits \o [i \in 1 .. n |-> 0])
    BY <1>5 DEF Extend
  <2>2. n \in Nat /\ 0 \in Nat
    BY <1>1, BoundsAssumption
  <2>3. bits \o [i \in 1 .. n |-> 0] \in Bits
    BY <1>1, <2>2, Zeros, OneOfConcat
  <2> QED  BY <1>1, <1>2, <2>1, <2>2, <2>3, ExtendHolds
<1>6. CASE Set
  <2>1. PICK pos \in 0 .. Len(bits) - 1, bit \in {0, 1} :
           Changes(SetBit(builder, pos, bit), [bits EXCEPT ![pos + 1] = bit])
    BY <1>6 DEF Set
  <2>2. [bits EXCEPT ![pos + 1] = bit] \in Bits
    BY <1>1, BitReplaced
  <2> QED  BY <1>1, <1>2, <2>1, <2>2, SetHolds
<1>7. CASE Overwrite
  <2>0. PICK len \in 0 .. WordBits :
           \E pos \in 0 .. Len(bits) - len : \E word \in SUBSET LowMask(len) :
              Changes(SetBits(builder, pos, word, len), Overwritten(bits, pos, word, len))
    BY <1>7 DEF Overwrite, Overwritten
  <2>1. PICK pos \in 0 .. Len(bits) - len, word \in SUBSET LowMask(len) :
           Changes(SetBits(builder, pos, word, len), Overwritten(bits, pos, word, len))
    BY <2>0
  <2>2. len \in Nat /\ pos \in Nat /\ pos + len <= Len(bits)
    BY <1>1, Width
  <2>3. Overwritten(bits, pos, word, len) \in Bits
    BY <1>1, <2>2, OverwrittenIs
  <2> QED  BY <1>1, <1>2, <2>1, <2>2, <2>3, SetBitsHolds
<1>8. CASE AppendWord
  <2>0. PICK len \in 0 .. WordBits : \E word \in SUBSET LowMask(len) :
           Changes(AppendBits(builder, word, len), bits \o Sequence(word, len))
    BY <1>8 DEF AppendWord
  <2>1. PICK word \in SUBSET LowMask(len) :
           Changes(AppendBits(builder, word, len), bits \o Sequence(word, len))
    BY <2>0
  <2>2. len \in Nat
    BY Width
  <2>3. bits \o Sequence(word, len) \in Bits
    BY <1>1, <2>2, AppendedIs
  <2> QED  BY <1>1, <1>2, <2>1, <2>3, AppendHolds
<1>9. CASE AppendOther
  <2>0. PICK n \in 0 .. MaxOther : \E other \in [1 .. n -> {0, 1}] :
           Changes(AppendVector(builder, Holding(other)), bits \o other)
    BY <1>9 DEF AppendOther
  <2>1. PICK other \in [1 .. n -> {0, 1}] :
           Changes(AppendVector(builder, Holding(other)), bits \o other)
    BY <2>0
  <2>2. n \in Nat /\ 0 \in Nat
    BY BoundsAssumption
  <2>3. other \in Bits
    BY <2>2 DEF Bits
  <2>4. bits \o other \in Bits /\ Holds(Holding(other), other)
    BY <1>1, <2>2, <2>3, OneOfConcat, HoldingHolds
  <2> QED  BY <1>1, <1>2, <2>1, <2>3, <2>4, AppendVectorHolds
<1>10. CASE Turn
  <2>1. Changes(Reversed(builder), Turned(bits))
    BY <1>10 DEF Turn, Turned
  <2>2. Turned(bits) \in Bits
    BY <1>1, TurnedIs
  <2> QED  BY <1>1, <1>2, <2>1, <2>2, TurnHolds
<1>11. CASE Pad
  <2>1. Changes(PushPad(builder), bits \o [i \in 1 .. PadOf(Len(bits)) |-> 0])
    BY <1>11 DEF Pad
  <2>2. PadOf(Len(bits)) \in Nat /\ 0 \in Nat
    BY <1>1, PadIs
  <2>3. bits \o [i \in 1 .. PadOf(Len(bits)) |-> 0] \in Bits
    BY <1>1, <2>2, Zeros, OneOfConcat
  <2> QED  BY <1>1, <1>2, <2>1, <2>3, PadHolds
<1>12. CASE \/ Build \/ DropReader \/ OpenBits \/ Take \/ SkipToOne \/ OpenOnes
            \/ NextOneOf \/ SkipOnes \/ SkipZerosOf
  BY <1>3, <1>12 DEF Build, DropReader, OpenBits, Take, SkipToOne, OpenOnes,
                     NextOneOf, SkipOnes, SkipZerosOf, MoveOnes
<1>13. CASE UNCHANGED streamVars
  BY <1>3, <1>13 DEF streamVars
<1> QED  BY <1>4, <1>5, <1>6, <1>7, <1>8, <1>9, <1>10, <1>11, <1>12, <1>13 DEF StreamNext

LEMMA BuilderInductive == StreamSpec => []BuilderInv
<1>1. StreamInit => BuilderInv
  BY BuilderInitHolds
<1>2. BuilderInv /\ [StreamNext]_streamVars => BuilderInv'
  BY BuilderStepKeeps
<1> QED  BY <1>1, <1>2, PTL DEF StreamSpec

LEMMA WordOnesIs ==
    ASSUME NEW x, NEW seq \in Bits, Holds(x, seq)
    PROVE  WordOnes(x) = OnesOf(seq)
<1>1. /\ x.words \in Seq(SUBSET Word) /\ Len(x.words) = WordsFor(Len(seq)) /\ Len(x.words) \in Nat
      /\ Len(seq) \in Nat
  BY HoldsFacts, LenBits
<1>2. ASSUME NEW p \in WordOnes(x)
      PROVE  p \in OnesOf(seq)
  <2>1. PICK i \in 0 .. Len(x.words) - 1 : p \in {i * WordBits + b : b \in x.words[i + 1]}
    BY <1>2 DEF WordOnes, WordAt
  <2>2. PICK b \in x.words[i + 1] : p = Start(i) + b
    BY <2>1 DEF Start
  <2>3. x.words[i + 1] \in SUBSET Word /\ i \in Nat
    BY <1>1
  <2>4. IsOne(seq, p) /\ p \in Nat
    BY <2>2, <2>3, HoldsOnes, PositionOf
  <2> QED  BY <2>4, OnesOfIs
<1>3. ASSUME NEW p \in OnesOf(seq)
      PROVE  p \in WordOnes(x)
  <2> DEFINE i == WordOf(p)
             b == InWord(p)
  <2>1. p \in Nat /\ IsOne(seq, p)
    BY <1>3, OnesAreNumbers, OnesOfIs
  <2>2. i \in Nat /\ b \in Word /\ p = Start(i) + b /\ i \in 0 .. Len(x.words) - 1
    BY <1>1, <2>1, Position, InsideWords DEF IsOne
  <2> HIDE DEF i, b
  <2>3. b \in WordAt(x, i)
    BY <2>1, <2>2, HoldsOnes DEF WordAt
  <2>4. p \in {i * WordBits + c : c \in WordAt(x, i)}
    BY <2>2, <2>3 DEF Start
  <2> QED  BY <2>2, <2>4 DEF WordOnes
<1> QED  BY <1>2, <1>3

\* Whatever the order of the calls, the words hold the bits that the builder
\* was given, with zeros behind them, and none is too many
\* (bit_vector_builder).
THEOREM WordsHold == StreamSpec => []WordsHoldBits
<1>1. BuilderInv => WordsHoldBits
  BY HoldsFacts, WordOnesIs DEF BuilderInv, WordsHoldBits
<1> QED  BY <1>1, BuilderInductive, PTL

-----------------------------------------------------------------------------
(***************************************************************************)
(* Reading.  Whatever has the words and the size of a vector is read the   *)
(* same: the vector and its builder.                                       *)
(***************************************************************************)
Reads(x, seq) == HoldsBits(x.words, seq) /\ x.size = Len(seq)

\* The ones among some bits, counted from the first of them.
OnesIn(seq, pos, len) == {b \in 0 .. len - 1 : IsOne(seq, pos + b)}

LEMMA OneBitsAre ==
    ASSUME NEW pos \in Nat, NEW len \in Int, bits \in Bits
    PROVE  OneBits(pos, len) = OnesIn(bits, pos, len)
<1>1. \A b \in 0 .. len - 1 : pos + b \in OnesOf(bits) <=> IsOne(bits, pos + b)
  <2> TAKE b \in 0 .. len - 1
  <2>1. pos + b \in Nat
    OBVIOUS
  <2> QED  BY <2>1, OnesOfIs
<1> QED  BY <1>1 DEF OneBits, OnesIn

LEMMA BuilderReads ==
    ASSUME NEW x, NEW seq, Holds(x, seq)
    PROVE  Reads(x, seq) /\ Reads(Built(x), seq)
BY HoldsFacts DEF Holds, Reads, Built

LEMMA ReadsFacts ==
    ASSUME NEW x, NEW seq \in Bits, Reads(x, seq)
    PROVE  /\ x.words \in Seq(SUBSET Word)
           /\ Len(x.words) = WordsFor(Len(seq))
           /\ Len(x.words) \in Nat
           /\ Len(seq) \in Nat
           /\ \A i \in 0 .. Len(x.words) - 1 :
                WordAt(x, i) \in SUBSET Word /\ WordAt(x, i) \in SUBSET Nat
<1>1. /\ x.words \in Seq(SUBSET Word) /\ Len(x.words) = WordsFor(Len(seq))
      /\ Len(x.words) \in Nat /\ Len(seq) \in Nat
  BY LenBits DEF Reads, HoldsBits
<1>2. ASSUME NEW i \in 0 .. Len(x.words) - 1
      PROVE  WordAt(x, i) \in SUBSET Word /\ WordAt(x, i) \in SUBSET Nat
  <2>1. WordAt(x, i) \in SUBSET Word
    BY <1>1 DEF WordAt
  <2> QED  BY <2>1, WordIsSet
<1> QED  BY <1>1, <1>2

\* A bit of any word, there or not.
LEMMA EveryBit ==
    ASSUME NEW x, NEW seq \in Bits, Reads(x, seq), NEW i \in Nat, NEW b \in Word
    PROVE  IsOne(seq, Start(i) + b) <=> i < Len(x.words) /\ b \in WordAt(x, i)
<1> DEFINE y == [words |-> x.words, size |-> Len(seq), cur |-> Len(x.words)]
<1>1. Holds(y, seq) /\ y.words = x.words
  BY DEF Reads, Holds
<1> HIDE DEF y
<1> QED  BY <1>1, HoldsEvery DEF WordAt

(***************************************************************************)
(* get_word64(): the bits from a position on, and zeros behind the last.   *)
(***************************************************************************)
LEMMA WordFrom ==
    ASSUME NEW x, NEW seq \in Bits, Reads(x, seq), NEW pos \in Nat, pos < Len(seq)
    PROVE  /\ ShiftRight(WordAt(x, WordOf(pos)), InWord(pos)) \in SUBSET Word
           /\ \A b \in Word :
                b \in ShiftRight(WordAt(x, WordOf(pos)), InWord(pos)) <=>
                    b < WordBits - InWord(pos) /\ IsOne(seq, pos + b)
<1> DEFINE q == WordOf(pos)
           r == InWord(pos)
           w == WordAt(x, q)
<1>1. q \in 0 .. Len(x.words) - 1 /\ w \in SUBSET Word /\ w \in SUBSET Nat
  BY ReadsFacts, InsideWords
<1>2. q \in Nat /\ r \in Word /\ pos = Start(q) + r
  BY Position
<1> HIDE DEF q, r
<1>3. r \in Nat /\ Start(q) \in Nat
  BY <1>2, StartIs, WordIsSet
<1> HIDE DEF w
<1>4. ShiftRight(w, r) \in SUBSET Word
  BY <1>1, <1>3, RightIsWord
<1>5. ASSUME NEW b \in Word
      PROVE  b \in ShiftRight(w, r) <=> b < WordBits - r /\ IsOne(seq, pos + b)
  <2>1. b \in Nat
    BY WordIsSet
  <2>2. b \in ShiftRight(w, r) <=> b + r \in w
    BY <1>1, <1>3, <2>1, Right
  <2>3. CASE b < WordBits - r
    <3>1. b + r \in Word
      BY <1>3, <2>1, <2>3, Width DEF Word
    <3>2. Start(q) + (b + r) = pos + b
      BY <1>2, <1>3, <2>1
    <3>3. IsOne(seq, Start(q) + (b + r)) <=> b + r \in w
      BY <1>1, <1>2, <3>1, EveryBit DEF w
    <3> QED  BY <2>2, <2>3, <3>2, <3>3
  <2>4. CASE ~ (b < WordBits - r)
    <3>1. b + r \notin Word
      BY <1>3, <2>1, <2>4, Width DEF Word
    <3> QED  BY <1>1, <2>2, <2>4, <3>1
  <2> QED  BY <2>3, <2>4
<1> QED  BY <1>4, <1>5 DEF w, q, r

\* The part that comes from the next word.
LEMMA WordFromNext ==
    ASSUME NEW x, NEW seq \in Bits, Reads(x, seq), NEW pos \in Nat, pos < Len(seq),
           WordOf(pos) + 1 < Len(x.words)
    PROVE  /\ ShiftLeft(WordAt(x, WordOf(pos) + 1), WordBits - InWord(pos)) \in SUBSET Word
           /\ \A b \in Word :
                b \in ShiftLeft(WordAt(x, WordOf(pos) + 1), WordBits - InWord(pos)) <=>
                    b >= WordBits - InWord(pos) /\ IsOne(seq, pos + b)
<1> DEFINE q == WordOf(pos)
           r == InWord(pos)
           w == WordAt(x, q + 1)
           stored == WordBits - r
<1>1. q \in Nat /\ r \in Word /\ pos = Start(q) + r
  BY Position
<1>2. q + 1 \in 0 .. Len(x.words) - 1
  BY <1>1, ReadsFacts
<1>3. w \in SUBSET Nat
  BY <1>2, ReadsFacts
<1> HIDE DEF q, r
<1>4. /\ r \in Nat /\ r < WordBits /\ stored \in Nat /\ stored + r = WordBits
      /\ Start(q) \in Nat /\ Start(q + 1) = Start(q) + WordBits /\ q + 1 \in Nat
  <2>1. r \in Nat /\ r < WordBits
    BY <1>1, Width DEF Word
  <2> QED  BY <1>1, <2>1, StartIs, StartNext, Width
<1> HIDE DEF w, stored
<1>5. ShiftLeft(w, stored) \in SUBSET Word
  BY LeftIsWord
<1>6. ASSUME NEW b \in Word
      PROVE  b \in ShiftLeft(w, stored) <=> b >= stored /\ IsOne(seq, pos + b)
  <2>1. b \in Nat /\ b < WordBits
    BY Width DEF Word
  <2>2. b \in ShiftLeft(w, stored) <=> b >= stored /\ b - stored \in w
    BY <1>3, <1>4, Left
  <2>3. CASE b >= stored
    <3>1. b - stored \in Word
      BY <1>4, <2>1, <2>3 DEF Word
    <3>2. Start(q + 1) + (b - stored) = pos + b
      BY <1>1, <1>4, <2>1, <2>3
    <3>3. IsOne(seq, Start(q + 1) + (b - stored)) <=> b - stored \in w
      <4>1. q + 1 < Len(x.words)
        BY DEF q
      <4> QED  BY <1>4, <3>1, <4>1, EveryBit DEF w
    <3> QED  BY <2>2, <2>3, <3>2, <3>3
  <2> QED  BY <2>2, <2>3
<1> QED  BY <1>5, <1>6 DEF w, q, r, stored

LEMMA GetWordIs ==
    ASSUME NEW x, NEW seq \in Bits, Reads(x, seq), NEW pos \in Nat, pos < Len(seq)
    PROVE  GetWord(x, pos) = OnesIn(seq, pos, WordBits)
<1> DEFINE q == WordOf(pos)
           r == InWord(pos)
           stored == WordBits - r
           high == ShiftRight(WordAt(x, q), r)
           next == ShiftLeft(WordAt(x, q + 1), stored)
           low == IF r # 0 /\ q + 1 < Len(x.words) THEN next ELSE {}
<1>1. /\ high \in SUBSET Word
      /\ \A b \in Word : b \in high <=> b < stored /\ IsOne(seq, pos + b)
  BY WordFrom
<1>2. /\ q \in Nat /\ r \in Nat /\ r < WordBits /\ stored \in Nat /\ stored + r = WordBits
      /\ pos = Start(q) + r
      /\ Start(q) \in Nat /\ Start(q + 1) = Start(q) + WordBits /\ q + 1 \in Nat
  <2>1. q \in Nat /\ r \in Word /\ pos = Start(q) + r
    BY Position
  <2> HIDE DEF q, r
  <2>2. r \in Nat /\ r < WordBits
    BY <2>1, Width DEF Word
  <2> QED  BY <2>1, <2>2, StartIs, StartNext, Width
<1>3. /\ low \in SUBSET Word
      /\ \A b \in Word : b \in low <=> b >= stored /\ IsOne(seq, pos + b)
  <2>1. CASE r # 0 /\ q + 1 < Len(x.words)
    <3>1. /\ next \in SUBSET Word
          /\ \A b \in Word : b \in next <=> b >= stored /\ IsOne(seq, pos + b)
      BY <2>1, WordFromNext
    <3>2. low = next
      BY <2>1
    <3> HIDE DEF low, next
    <3> QED  BY <3>1, <3>2
  <2>2. CASE ~ (r # 0 /\ q + 1 < Len(x.words))
    <3> HIDE DEF q, r, next, stored
    <3>1. low = {}
      BY <2>2
    <3> HIDE DEF low
    <3>2. ASSUME NEW b \in Word, b >= stored
          PROVE  ~ IsOne(seq, pos + b)
      <4>1. b \in Nat /\ b < WordBits
        BY Width DEF Word
      <4>2. r # 0
        BY <1>2, <3>2, <4>1 DEF stored
      <4>3. b - stored \in Word
        BY <1>2, <3>2, <4>1 DEF Word
      <4>4. Start(q + 1) + (b - stored) = pos + b
        BY <1>2, <3>2, <4>1
      <4>5. ~ (q + 1 < Len(x.words))
        BY <2>2, <4>2
      <4> QED  BY <1>2, <4>3, <4>4, <4>5, EveryBit
    <3> QED  BY <3>1, <3>2
  <2> QED  BY <2>1, <2>2
<1>4. GetWord(x, pos) = high \cup low
  BY DEF GetWord
<1> HIDE DEF high, low, stored
<1>5. \A b \in Word : b < stored \/ b >= stored
  BY <1>2, WordIsSet
<1>6. \A b \in Word : b \in high \cup low <=> IsOne(seq, pos + b)
  BY <1>1, <1>3, <1>5
<1>7. OnesIn(seq, pos, WordBits) = {b \in Word : IsOne(seq, pos + b)}
  BY DEF OnesIn, Word
<1> QED  BY <1>1, <1>3, <1>4, <1>6, <1>7

(***************************************************************************)
(* get_bits(), get_word56() and predecessor1().                            *)
(***************************************************************************)
LEMMA OnesInIs ==
    ASSUME NEW seq, NEW pos, NEW len \in Nat
    PROVE  /\ OnesIn(seq, pos, len) \in SUBSET Nat
           /\ \A b \in Nat : b \in OnesIn(seq, pos, len) <=> b < len /\ IsOne(seq, pos + b)
BY DEF OnesIn

LEMMA SameNumbers ==
    ASSUME NEW S \in SUBSET Nat, NEW T \in SUBSET Nat, \A b \in Nat : b \in S <=> b \in T
    PROVE  S = T
OBVIOUS

LEMMA GetBitsIs ==
    ASSUME NEW x, NEW seq \in Bits, Reads(x, seq), NEW pos \in Nat, NEW len \in 0 .. WordBits,
           pos < Len(seq), pos + len <= Len(seq)
    PROVE  GetBits(x, pos, len) = OnesIn(seq, pos, len)
<1> DEFINE q == WordOf(pos)
           r == InWord(pos)
           stored == WordBits - r
           high == ShiftRight(WordAt(x, q), r)
           next == ShiftLeft(WordAt(x, q + 1), stored)
           result == GetBits(x, pos, len)
<1>1. /\ high \in SUBSET Word
      /\ \A b \in Word : b \in high <=> b < stored /\ IsOne(seq, pos + b)
  BY WordFrom
<1>2. /\ q \in Nat /\ r \in Nat /\ r < WordBits /\ stored \in Nat /\ stored + r = WordBits
      /\ pos = Start(q) + r /\ len \in Nat /\ WordBits \in Nat
      /\ Start(q) \in Nat /\ Start(q + 1) = Start(q) + WordBits /\ q + 1 \in Nat
  <2>1. q \in Nat /\ r \in Word /\ pos = Start(q) + r
    BY Position
  <2> HIDE DEF q, r
  <2>2. r \in Nat /\ r < WordBits
    BY <2>1, Width DEF Word
  <2> QED  BY <2>1, <2>2, StartIs, StartNext, Width
<1>3. /\ OnesIn(seq, pos, len) \in SUBSET Nat
      /\ \A b \in Nat : b \in OnesIn(seq, pos, len) <=> b < len /\ IsOne(seq, pos + b)
  BY <1>2, OnesInIs
<1>4. \A b \in Nat : b \in LowMask(len) <=> b < len
  BY <1>2 DEF LowMask
<1>5. \A b \in Nat : b < len => b \in Word
  BY <1>2 DEF Word
<1>6. Word \in SUBSET Nat /\ LowMask(len) \in SUBSET Nat
  BY <1>2, WordIsSet DEF LowMask
<1>7. CASE len = 0
  <2>1. result = {}
    BY <1>7 DEF GetBits
  <2>2. OnesIn(seq, pos, len) = {}
    BY <1>7 DEF OnesIn
  <2> QED  BY <2>1, <2>2
<1>8. CASE len # 0 /\ r + len <= WordBits
  <2>1. result = high \cap LowMask(len)
    BY <1>8 DEF GetBits
  <2> HIDE DEF result, high, stored, q, r
  <2>2. \A b \in Nat : b < len => b < stored
    BY <1>2, <1>8
  <2>3. \A b \in Nat : b \in result <=> b < len /\ IsOne(seq, pos + b)
    BY <1>1, <1>4, <1>5, <2>1, <2>2
  <2>4. result \in SUBSET Nat
    BY <1>6, <2>1
  <2> QED  BY <1>3, <2>3, <2>4, SameNumbers DEF result
<1>9. CASE len # 0 /\ ~ (r + len <= WordBits)
  <2>1. result = high \cup (next \cap LowMask(len))
    BY <1>9 DEF GetBits
  <2>2. q + 1 < Len(x.words)
    <3>1. pos + stored \in Nat /\ pos + stored = Start(q + 1) + 0 /\ pos + stored < Len(seq)
      <4> DEFINE s == Start(q)
                 u == Start(q + 1)
                 m == Len(seq)
      <4>1. /\ m \in Nat /\ s \in Nat /\ u = s + WordBits /\ pos = s + r /\ r \in Nat
            /\ stored \in Nat /\ stored + r = WordBits /\ len \in Nat
            /\ WordBits \in Nat /\ ~ (r + len <= WordBits) /\ pos + len <= m
        BY <1>2, <1>9, LenBits
      <4> HIDE DEF q, r, stored, s, u, m
      <4>2. pos + stored \in Nat /\ pos + stored = u + 0 /\ pos + stored < m
        BY <4>1
      <4> QED  BY <4>2 DEF u, m
    <3>2. 0 \in Word
      BY Width DEF Word
    <3>3. WordOf(pos + stored) = q + 1
      BY <1>2, <3>1, <3>2, PositionOf
    <3>4. q + 1 \in 0 .. WordsFor(Len(seq)) - 1
      BY <3>1, <3>3, InsideWords, LenBits
    <3> HIDE DEF q
    <3> QED  BY <1>2, <3>4, ReadsFacts, SMTT(30)
  <2>3. /\ next \in SUBSET Word
        /\ \A b \in Word : b \in next <=> b >= stored /\ IsOne(seq, pos + b)
    BY <2>2, WordFromNext
  <2> HIDE DEF result, high, next, stored, q, r
  <2>4. \A b \in Nat : (b < stored => b < len) /\ (b < stored \/ b >= stored)
    BY <1>2, <1>9 DEF stored
  <2>5. \A b \in Nat : b \in result <=> b < len /\ IsOne(seq, pos + b)
    BY <1>1, <1>4, <1>5, <1>6, <2>1, <2>3, <2>4
  <2>6. result \in SUBSET Nat
    BY <1>1, <1>6, <2>1, <2>3
  <2> QED  BY <1>3, <2>5, <2>6, SameNumbers DEF result
<1> QED  BY <1>7, <1>8, <1>9

LEMMA GetWordBits ==
    ASSUME NEW x, NEW seq \in Bits, Reads(x, seq), NEW pos \in Nat, NEW len \in 0 .. WordBits,
           pos < Len(seq)
    PROVE  GetWord(x, pos) \cap LowMask(len) = OnesIn(seq, pos, len)
<1>1. GetWord(x, pos) = OnesIn(seq, pos, WordBits)
  BY GetWordIs
<1>2. len \in Nat /\ len <= WordBits /\ WordBits \in Nat
  BY Width
<1>3. 0 .. len - 1 \subseteq 0 .. WordBits - 1
  BY <1>2
<1> QED  BY <1>1, <1>3 DEF OnesIn, LowMask

\* The memory of a vector is its bits, where it has any.
LEMMA MemoryIs ==
    ASSUME NEW x, NEW seq \in Bits, Reads(x, seq), NEW pos \in Nat, pos < Len(seq)
    PROVE  pos \in Memory(x) <=> IsOne(seq, pos)
<1> DEFINE y == [words |-> x.words, size |-> Len(seq), cur |-> Len(x.words)]
<1>1. Holds(y, seq)
  BY DEF Reads, Holds
<1>2. WordOnes(x) = WordOnes(y)
  BY DEF WordOnes, WordAt
<1> HIDE DEF y
<1>3. pos \in WordOnes(x) <=> IsOne(seq, pos)
  BY <1>1, <1>2, WordOnesIs, OnesOfIs
<1>4. ~ (pos >= Len(x.words) * WordBits)
  <2>1. Len(seq) <= Start(Len(x.words)) /\ Len(seq) \in Nat /\ Start(Len(x.words)) \in Nat
    BY ReadsFacts, WordsForBounds, StartIs
  <2>2. ~ (pos >= Start(Len(x.words)))
    BY <2>1
  <2> QED  BY <2>2 DEF Start
<1> QED  BY <1>3, <1>4 DEF Memory

LEMMA GetWordAtByteIs ==
    ASSUME NEW x, NEW seq \in Bits, Reads(x, seq), NEW pos \in Nat, NEW len \in Nat,
           len <= WordBits - ByteBits + 1, pos + len <= Len(seq)
    PROVE  GetWordAtByte(x, pos) \cap LowMask(len) = OnesIn(seq, pos, len)
<1> DEFINE base == (pos \div ByteBits) * ByteBits
           rest == pos % ByteBits
           loaded == {b \in Word : base + b \in Memory(x)}
           result == GetWordAtByte(x, pos) \cap LowMask(len)
<1>1. ByteBits \in Nat \ {0} /\ WordBits \in Nat
  BY WordAssumption
<1>2. base \in Nat /\ rest \in Nat /\ rest < ByteBits /\ base + rest = pos
  <2> DEFINE q == pos \div ByteBits
  <2>1. q \in Nat /\ rest \in 0 .. ByteBits - 1
    BY <1>1
  <2>2. pos = ByteBits * q + rest
    BY <1>1
  <2> HIDE DEF q, rest
  <2>3. ByteBits * q = q * ByteBits /\ q * ByteBits \in Nat
    BY <1>1, <2>1
  <2>4. base = q * ByteBits
    BY DEF q
  <2> HIDE DEF base
  <2> QED  BY <1>1, <2>1, <2>2, <2>3, <2>4
<1>3. result = ShiftRight(loaded, rest) \cap LowMask(len)
  BY DEF GetWordAtByte
<1> HIDE DEF result, base, rest
<1>4. loaded \in SUBSET Word
  OBVIOUS
<1>5. loaded \in SUBSET Nat
  BY <1>4, WordIsSet
<1>6. \A b \in Nat : b \in LowMask(len) <=> b < len
  BY DEF LowMask
<1>7. ASSUME NEW b \in Nat
      PROVE  b \in result <=> b < len /\ IsOne(seq, pos + b)
  <2>1. b \in ShiftRight(loaded, rest) <=> b + rest \in loaded
    BY <1>2, <1>5, Right
  <2>2. CASE b < len
    <3>1. b + rest \in Word
      BY <1>1, <1>2, <2>2 DEF Word
    <3>2. base + (b + rest) = pos + b
      BY <1>2
    <3>3. pos + b \in Nat /\ pos + b < Len(seq)
      BY <2>2, LenBits
    <3>4. b + rest \in loaded <=> pos + b \in Memory(x)
      BY <3>1, <3>2
    <3>5. pos + b \in Memory(x) <=> IsOne(seq, pos + b)
      BY <3>3, MemoryIs
    <3> QED  BY <1>3, <1>6, <2>1, <2>2, <3>4, <3>5
  <2>3. CASE ~ (b < len)
    BY <1>3, <1>6, <2>3
  <2> QED  BY <2>2, <2>3
<1>8. result \in SUBSET Nat
  BY <1>3 DEF LowMask
<1>9. /\ OnesIn(seq, pos, len) \in SUBSET Nat
      /\ \A b \in Nat : b \in OnesIn(seq, pos, len) <=> b < len /\ IsOne(seq, pos + b)
  BY OnesInIs
<1> QED  BY <1>7, <1>8, <1>9, SameNumbers DEF result

(***************************************************************************)
(* The lowest and the highest of a set of numbers.                         *)
(***************************************************************************)
LEMMA LowestIs ==
    ASSUME NEW S \in SUBSET Nat, S # {}
    PROVE  Lowest(S) \in S /\ \A c \in S : Lowest(S) <= c
<1> DEFINE R == {ss \in Nat \X Nat : ss[1] < ss[2]}
<1>1. IsWellFoundedOn(R, Nat)
  BY NatLessThanWellFounded, Zenon DEF OpToRel
<1>2. PICK b \in S : \A c \in S : <<c, b>> \notin R
  <2> HIDE DEF R
  <2> QED  BY <1>1, WFMin, Zenon
<1>3. ASSUME NEW c \in S
      PROVE  b <= c
  <2>1. <<c, b>> \notin R
    BY <1>2, Zenon
  <2> QED  BY <2>1
<1> QED  BY <1>3, Zenon DEF Lowest

LEMMA HighestIs ==
    ASSUME NEW n \in Nat, NEW S \in SUBSET (0 .. n), S # {}
    PROVE  Highest(S) \in S /\ \A c \in S : c <= Highest(S)
<1> DEFINE T == {n - b : b \in S}
           l == Lowest(T)
<1>0. \A b \in S : b \in Nat /\ b <= n /\ n - b \in Nat
  OBVIOUS
<1>1. T \in SUBSET Nat /\ T # {}
  BY <1>0
<1>2. l \in T /\ \A t \in T : l <= t
  BY <1>1, LowestIs
<1> HIDE DEF l
<1>3. PICK h \in S : l = n - h
  BY <1>2
<1>4. ASSUME NEW c \in S
      PROVE  h >= c
  <2>1. l <= n - c
    BY <1>2
  <2> QED  BY <1>3, <2>1
<1> HIDE DEF T
<1>5. Highest(S) \in S /\ \A c \in S : Highest(S) >= c
  BY <1>4, Zenon DEF Highest
<1>6. \A c \in S : c \in Nat /\ Highest(S) \in Nat
  BY <1>0, <1>5
<1> QED  BY <1>5, <1>6

LEMMA Predecessor1Is ==
    ASSUME NEW x, NEW seq \in Bits, Reads(x, seq), NEW pos \in Nat, pos < Len(seq),
           OnesIn(seq, 0, pos + 1) # {}
    PROVE  /\ Predecessor1(x, pos) \in OnesIn(seq, 0, pos + 1)
           /\ \A one \in OnesIn(seq, 0, pos + 1) : one <= Predecessor1(x, pos)
<1> DEFINE q == WordOf(pos)
           r == InWord(pos)
           shift == WordBits - r - 1
           word(i) == IF i = q THEN ShiftRight(ShiftLeft(WordAt(x, i), shift), shift)
                      ELSE WordAt(x, i)
           some == {i \in 0 .. q : word(i) # {}}
           found == Highest(some)
           high == Highest(word(found))
<1>1. /\ q \in Nat /\ r \in Nat /\ r < WordBits /\ pos = Start(q) + r /\ Start(q) \in Nat
      /\ shift \in Nat /\ shift + r = WordBits - 1 /\ WordBits \in Nat /\ r \in Word
  <2>1. q \in Nat /\ r \in Word /\ pos = Start(q) + r
    BY Position
  <2> HIDE DEF q, r
  <2>2. r \in Nat /\ r < WordBits
    BY <2>1, Width DEF Word
  <2> QED  BY <2>1, <2>2, StartIs, Width
<1>2. q \in 0 .. Len(x.words) - 1 /\ Len(x.words) \in Nat
  BY ReadsFacts, InsideWords
<1>3. Predecessor1(x, pos) = found * WordBits + high
  BY DEF Predecessor1
<1> HIDE DEF q, r, shift
<1>4. ASSUME NEW i \in 0 .. q
      PROVE  /\ i \in Nat
             /\ word(i) \in SUBSET Word
             /\ \A b \in Word : b \in word(i) <=> Start(i) + b <= pos /\ IsOne(seq, Start(i) + b)
  <2>1. i \in Nat /\ i < Len(x.words) /\ i \in 0 .. Len(x.words) - 1 /\ Start(i) \in Nat
    <3>1. i \in Nat /\ i < Len(x.words) /\ i \in 0 .. Len(x.words) - 1
      BY <1>1, <1>2
    <3> QED  BY <3>1, StartIs
  <2>2. WordAt(x, i) \in SUBSET Word /\ WordAt(x, i) \in SUBSET Nat
    BY <2>1, ReadsFacts
  <2>3. \A b \in Word : b \in WordAt(x, i) <=> IsOne(seq, Start(i) + b)
    BY <2>1, EveryBit
  <2>4. CASE i = q
    <3> DEFINE left == ShiftLeft(WordAt(x, i), shift)
    <3>1. word(i) = ShiftRight(left, shift)
      BY <2>4
    <3>2. left \in SUBSET Word /\ \A b \in Word : b \in left <=> b >= shift /\ b - shift \in WordAt(x, i)
      BY <1>1, <2>2, Left, LeftIsWord
    <3> HIDE DEF left, word
    <3>3. left \in SUBSET Nat
      BY <3>2, WordIsSet
    <3>4. word(i) \in SUBSET Word
      BY <1>1, <3>1, <3>2, RightIsWord
    <3>5. ASSUME NEW b \in Word
          PROVE  b \in word(i) <=> Start(i) + b <= pos /\ IsOne(seq, Start(i) + b)
      <4>1. b \in Nat
        BY WordIsSet
      <4>2. b \in word(i) <=> b + shift \in left
        BY <1>1, <3>1, <3>3, <4>1, Right
      <4>3. CASE b <= r
        <5>1. b + shift \in Word /\ b + shift >= shift /\ (b + shift) - shift = b
          BY <1>1, <4>1, <4>3 DEF Word
        <5>2. b \in word(i) <=> b \in WordAt(x, i)
          BY <3>2, <4>2, <5>1
        <5>3. Start(i) + b <= pos
          BY <1>1, <2>4, <4>1, <4>3
        <5> QED  BY <2>3, <5>2, <5>3
      <4>4. CASE ~ (b <= r)
        <5>1. b + shift \notin Word
          BY <1>1, <4>1, <4>4 DEF Word
        <5>2. ~ (Start(i) + b <= pos)
          BY <1>1, <2>4, <4>1, <4>4
        <5> QED  BY <3>2, <4>2, <5>1, <5>2
      <4> QED  BY <4>3, <4>4
    <3> QED  BY <2>1, <3>4, <3>5
  <2>5. CASE i # q
    <3>1. word(i) = WordAt(x, i)
      BY <2>5
    <3> HIDE DEF word
    <3>2. Start(i) + WordBits <= Start(q)
      BY <1>1, <2>1, <2>5, StartAscends
    <3>3. \A b \in Word : b \in Nat /\ b < WordBits
      BY <1>1 DEF Word
    <3>4. \A b \in Word : Start(i) + b <= pos
      BY <1>1, <2>1, <3>2, <3>3, SMTT(30)
    <3> QED  BY <2>1, <2>2, <2>3, <3>1, <3>4
  <2> QED  BY <2>4, <2>5
<1> HIDE DEF word
<1>5. /\ OnesIn(seq, 0, pos + 1) \in SUBSET Nat
      /\ \A b \in Nat : b \in OnesIn(seq, 0, pos + 1) <=> b <= pos /\ IsOne(seq, b)
  <2>1. pos + 1 \in Nat /\ (\A b \in Nat : 0 + b = b /\ (b < pos + 1 <=> b <= pos))
    OBVIOUS
  <2> QED  BY <2>1, OnesInIs
<1>6. ASSUME NEW one \in OnesIn(seq, 0, pos + 1)
      PROVE  /\ WordOf(one) \in some /\ InWord(one) \in word(WordOf(one)) /\ InWord(one) \in Nat
             /\ one = Start(WordOf(one)) + InWord(one)
  <2> DEFINE i == WordOf(one)
             b == InWord(one)
  <2>1. one \in Nat /\ one <= pos /\ IsOne(seq, one)
    BY <1>5
  <2>2. i \in Nat /\ b \in Word /\ one = Start(i) + b
    BY <2>1, Position
  <2> HIDE DEF i, b
  <2>3. b \in Nat /\ Start(i) \in Nat
    BY <2>2, StartIs, WordIsSet
  <2>4. i \in 0 .. q
    <3>1. q < i => Start(q) + WordBits <= Start(i)
      BY <1>1, <2>2, StartAscends
    <3> QED  BY <1>1, <2>1, <2>2, <2>3, <3>1, SMTT(30)
  <2>5. b \in word(i)
    BY <1>4, <2>1, <2>2, <2>4
  <2> QED  BY <2>2, <2>3, <2>4, <2>5 DEF i, b
<1>7. found \in some /\ \A i \in some : i <= found
  <2>1. some # {}
    BY <1>6
  <2>2. some \in SUBSET (0 .. q)
    OBVIOUS
  <2> HIDE DEF some
  <2> QED  BY <1>1, <2>1, <2>2, HighestIs
<1>8. high \in word(found) /\ \A b \in word(found) : b <= high
  <2>1. found \in 0 .. q /\ word(found) # {}
    BY <1>7
  <2> HIDE DEF found
  <2>2. word(found) \in SUBSET (0 .. WordBits - 1) /\ WordBits - 1 \in Nat
    <3>1. word(found) \in SUBSET Word
      BY <1>4, <2>1
    <3> QED  BY <3>1, Width DEF Word
  <2> QED  BY <2>1, <2>2, HighestIs
<1>9. found \in 0 .. q /\ found \in Nat /\ high \in Word
  BY <1>1, <1>4, <1>7, <1>8
<1> HIDE DEF found, high
<1> DEFINE result == Start(found) + high
<1>10. result \in Nat /\ result \in OnesIn(seq, 0, pos + 1) /\ Start(found) \in Nat /\ high \in Nat
       /\ high < WordBits
  <2>1. result \in Nat
    BY <1>9, PositionOf
  <2>2. result <= pos /\ IsOne(seq, result)
    BY <1>4, <1>8, <1>9
  <2>3. high < WordBits
    BY <1>1, <1>9 DEF Word
  <2> QED  BY <1>5, <1>9, <2>1, <2>2, <2>3, StartIs, WordIsSet
<1>11. ASSUME NEW one \in OnesIn(seq, 0, pos + 1)
       PROVE  one <= result
  <2> DEFINE i == WordOf(one)
             b == InWord(one)
  <2>1. i \in some /\ b \in word(i) /\ one = Start(i) + b /\ b \in Nat
    BY <1>6
  <2> HIDE DEF i, b
  <2>2. i \in Nat /\ i <= found /\ i \in 0 .. q /\ Start(i) \in Nat
    BY <1>1, <1>7, <2>1, StartIs
  <2>3. CASE i = found
    BY <1>8, <1>10, <2>1, <2>2, <2>3
  <2>4. CASE i # found
    <3>1. Start(i) + WordBits <= Start(found)
      BY <1>9, <2>2, <2>4, StartAscends
    <3>2. b < WordBits
      <4>1. b \in Word
        BY <1>4, <2>1, <2>2
      <4> QED  BY <1>1, <4>1 DEF Word
    <3> DEFINE u == Start(i)
               v == Start(found)
    <3>3. u \in Nat /\ v \in Nat /\ u + WordBits <= v /\ one = u + b /\ result = v + high
      BY <1>10, <2>1, <2>2, <3>1
    <3> HIDE DEF u, v, result
    <3> QED  BY <1>1, <1>10, <2>1, <3>2, <3>3
  <2> QED  BY <2>3, <2>4
<1> QED  BY <1>3, <1>10, <1>11 DEF Start

-----------------------------------------------------------------------------
(***************************************************************************)
(* bits_iterator.  The inductive invariant: the buffer has the ones among  *)
(* as many bits from the position on as are available, and nothing else.   *)
(***************************************************************************)
Buffered(it, seq) ==
    /\ it = [pos |-> it.pos, buf |-> it.buf, avail |-> it.avail]
    /\ it.pos \in 0 .. Len(seq)
    /\ it.avail \in 0 .. WordBits
    /\ it.buf = OnesIn(seq, it.pos, it.avail)

LEMMA BufferedAt ==
    ASSUME NEW seq \in Bits, NEW pos \in 0 .. Len(seq)
    PROVE  Buffered(BitsAt(pos), seq)
<1>1. BitsAt(pos).pos = pos /\ BitsAt(pos).buf = {} /\ BitsAt(pos).avail = 0
  BY DEF BitsAt
<1>2. OnesIn(seq, pos, 0) = {}
  BY DEF OnesIn
<1>3. 0 \in 0 .. WordBits
  BY Width
<1>4. BitsAt(pos) = [pos |-> pos, buf |-> {}, avail |-> 0]
  BY DEF BitsAt
<1> QED  BY <1>1, <1>2, <1>3, <1>4 DEF Buffered

LEMMA ShiftedOnes ==
    ASSUME NEW seq \in Bits, NEW pos \in Nat, NEW a \in Nat, NEW l \in Nat, l <= a
    PROVE  ShiftRight(OnesIn(seq, pos, a), l) = OnesIn(seq, pos + l, a - l)
<1> DEFINE S == OnesIn(seq, pos, a)
           T == OnesIn(seq, pos + l, a - l)
<1>1. S \in SUBSET Nat /\ \A b \in Nat : b \in S <=> b < a /\ IsOne(seq, pos + b)
  BY OnesInIs
<1>2. a - l \in Nat
  OBVIOUS
<1>3. T \in SUBSET Nat /\ \A b \in Nat : b \in T <=> b < a - l /\ IsOne(seq, (pos + l) + b)
  BY <1>2, OnesInIs
<1> HIDE DEF S, T
<1>4. \A b \in Nat : b \in ShiftRight(S, l) <=> b \in T
  <2> TAKE b \in Nat
  <2>1. b \in ShiftRight(S, l) <=> b + l \in S
    BY <1>1, Right
  <2>2. b + l \in Nat /\ (b + l < a <=> b < a - l) /\ pos + (b + l) = (pos + l) + b
    OBVIOUS
  <2> QED  BY <1>1, <1>3, <2>1, <2>2
<1>5. ShiftRight(S, l) \in SUBSET Nat
  <2>1. ASSUME NEW b \in ShiftRight(S, l)
        PROVE  b \in Nat
    <3>1. PICK c \in S : c >= l /\ b = c - l
      BY <2>1 DEF ShiftRight
    <3> QED  BY <1>1, <3>1
  <2> QED  BY <2>1
<1>6. ShiftRight(S, l) = T
  BY <1>3, <1>4, <1>5, SameNumbers
<1> QED  BY <1>6 DEF S, T

LEMMA FilledIs ==
    ASSUME NEW x, NEW seq \in Bits, Reads(x, seq), NEW it, Buffered(it, seq), it.pos < Len(seq)
    PROVE  /\ Buffered(Filled(x, it), seq)
           /\ Filled(x, it).pos = it.pos
           /\ Filled(x, it).avail = WordBits
<1> DEFINE w == GetWord(x, it.pos)
<1>1. it.pos \in Nat /\ it = [pos |-> it.pos, buf |-> it.buf, avail |-> it.avail]
      /\ it.pos \in 0 .. Len(seq)
  BY LenBits DEF Buffered
<1>2. w = OnesIn(seq, it.pos, WordBits)
  BY <1>1, GetWordIs
<1> HIDE DEF w
<1>3. Filled(x, it) = [pos |-> it.pos, buf |-> w, avail |-> WordBits]
  <2>1. Filled(x, it) = [it EXCEPT !.buf = w, !.avail = WordBits]
    BY DEF Filled, w
  <2> QED  BY <1>1, <2>1
<1>4. WordBits \in 0 .. WordBits
  BY Width
<1> QED  BY <1>1, <1>2, <1>3, <1>4 DEF Buffered

LEMMA ReadBitsIs ==
    ASSUME NEW x, NEW seq \in Bits, Reads(x, seq), NEW it, Buffered(it, seq),
           NEW len \in 0 .. WordBits - 1, it.pos + len <= Len(seq)
    PROVE  /\ ReadBits(x, it, len).value = OnesIn(seq, it.pos, len)
           /\ ReadBits(x, it, len).it.pos = it.pos + len
           /\ Buffered(ReadBits(x, it, len).it, seq)
<1> DEFINE f == IF it.avail < len THEN Filled(x, it) ELSE it
           value == f.buf \cap LowMask(len)
           rest == ShiftRight(f.buf, len)
           read == ReadBits(x, it, len)
<1>1. it.pos \in Nat /\ it.avail \in 0 .. WordBits /\ Len(seq) \in Nat /\ WordBits \in Nat
      /\ len \in Nat /\ len < WordBits /\ len # WordBits
  BY LenBits, Width DEF Buffered
<1>2. Buffered(f, seq) /\ f.pos = it.pos /\ len <= f.avail
  <2>1. CASE it.avail < len
    <3>1. it.pos < Len(seq)
      BY <1>1, <2>1
    <3>2. f = Filled(x, it)
      BY <2>1
    <3> HIDE DEF f
    <3> QED  BY <1>1, <3>1, <3>2, FilledIs
  <2>2. CASE ~ (it.avail < len)
    <3>1. f = it
      BY <2>2
    <3> HIDE DEF f
    <3> QED  BY <1>1, <2>2, <3>1
  <2> QED  BY <2>1, <2>2
<1>3. read = [value |-> value, it |-> [pos |-> f.pos + len, buf |-> rest, avail |-> f.avail - len]]
  BY <1>1 DEF ReadBits
<1> HIDE DEF f, read
<1>4. f.avail \in 0 .. WordBits /\ f.avail \in Nat /\ f.buf = OnesIn(seq, it.pos, f.avail)
  BY <1>1, <1>2 DEF Buffered
<1>5. value = OnesIn(seq, it.pos, len)
  <2>1. 0 .. len - 1 \subseteq 0 .. f.avail - 1
    BY <1>1, <1>2, <1>4
  <2> QED  BY <1>4, <2>1 DEF OnesIn, LowMask
<1>6. rest = OnesIn(seq, it.pos + len, f.avail - len)
  <2> DEFINE a == f.avail
             pos == it.pos
  <2>1. a \in Nat /\ pos \in Nat /\ len \in Nat /\ len <= a /\ rest = ShiftRight(OnesIn(seq, pos, a), len)
    BY <1>1, <1>2, <1>4
  <2> HIDE DEF a, pos, rest
  <2>2. rest = OnesIn(seq, pos + len, a - len)
    BY <2>1, ShiftedOnes
  <2> QED  BY <2>2 DEF a, pos
<1> HIDE DEF value, rest
<1> DEFINE next == read.it
<1>7. read.value = value /\ next = [pos |-> it.pos + len, buf |-> rest, avail |-> f.avail - len]
  BY <1>2, <1>3
<1> HIDE DEF next
<1>8. next.pos = it.pos + len /\ next.buf = rest /\ next.avail = f.avail - len
  BY <1>7
<1>9. f.avail - len \in 0 .. WordBits /\ it.pos + len \in 0 .. Len(seq)
  BY <1>1, <1>2, <1>4
<1>10. Buffered(next, seq)
  BY <1>6, <1>7, <1>8, <1>9 DEF Buffered
<1> QED  BY <1>5, <1>7, <1>8, <1>10 DEF next, read

\* skip_zeros() goes behind the next one, if there is one.
LEMMA SkipZerosIs ==
    ASSUME NEW x, NEW seq \in Bits, Reads(x, seq), NEW it, Buffered(it, seq),
           \E one \in Nat : one >= it.pos /\ IsOne(seq, one)
    PROVE  LET skip == SkipZeros(x, it)
           IN  /\ skip.zeros \in Nat
               /\ skip.it.pos = it.pos + skip.zeros + 1
               /\ OnesIn(seq, it.pos, skip.zeros + 1) = {skip.zeros}
               /\ Buffered(skip.it, seq)
<1> DEFINE pos == it.pos
           base == it.pos + it.avail
           start(i) == it.pos + it.avail + (i - 1) * WordBits
           S == {i \in 1 .. Len(x.words) + 1 : start(i) < x.size /\ GetWord(x, start(i)) # {}}
           fills == IF it.buf # {} THEN 0 ELSE Lowest(S)
           f == IF fills = 0 THEN it ELSE Filled(x, BitsAt(start(fills)))
           l == Lowest(f.buf)
           skip == SkipZeros(x, it)
           avail == it.avail
           n == Len(seq)
<1>0. /\ n \in Nat /\ WordBits \in Nat
      /\ x.size = n /\ Len(x.words) = WordsFor(n) /\ Len(x.words) \in Nat
  BY LenBits, Width, ReadsFacts DEF Reads
<1>1. /\ pos \in Nat /\ avail \in Nat /\ base \in Nat /\ pos <= base /\ base = pos + avail
      /\ it.buf = OnesIn(seq, pos, avail)
  <2>1. pos \in 0 .. n /\ avail \in 0 .. WordBits /\ it.buf = OnesIn(seq, pos, avail)
    BY DEF Buffered
  <2>2. base = pos + avail
    OBVIOUS
  <2> HIDE DEF pos, avail, n, base
  <2> QED  BY <1>0, <2>1, <2>2
<1>2. skip = [zeros |-> (f.pos - pos) + l,
              it |-> [pos |-> f.pos + l + 1, buf |-> ShiftRight(f.buf, l + 1),
                      avail |-> f.avail - (l + 1)]]
  BY DEF SkipZeros
<1>3. \A b \in Nat : b \in it.buf <=> b < avail /\ IsOne(seq, pos + b)
  BY <1>1, OnesInIs
<1>4. \A i \in Nat : start(i + 1) = base + Start(i) /\ Start(i) \in Nat
  <2> TAKE i \in Nat
  <2>1. (i + 1) - 1 = i /\ Start(i) \in Nat
    BY StartIs
  <2> QED  BY <1>1, <2>1 DEF Start
<1> HIDE DEF skip, base, start, pos, avail, n
<1>5. /\ Buffered(f, seq)
      /\ f.buf # {}
      /\ pos <= f.pos
      /\ \A c \in Nat : IsOne(seq, pos + c) => f.pos <= pos + c
  <2>1. CASE it.buf # {}
    <3>1. f = it
      BY <2>1
    <3> HIDE DEF f
    <3> QED  BY <1>1, <2>1, <3>1 DEF pos
  <2>2. CASE it.buf = {}
    <3>1. ASSUME NEW c \in Nat, IsOne(seq, pos + c)
          PROVE  \E i \in S : start(i) <= pos + c
      <4> DEFINE p == pos + c
                 d == p - base
                 j == WordOf(d)
                 b == InWord(d)
      <4>1. ~ (c < avail) /\ p < n
        BY <1>3, <2>2, <3>1 DEF IsOne, n
      <4>2. p \in Nat /\ d \in Nat /\ d <= p /\ p = base + d
        <5> HIDE DEF S, f, l, fills
        <5> QED  BY <1>1, <4>1
      <4> HIDE DEF d
      <4>3. j \in Nat /\ b \in Word /\ b \in Nat /\ d = Start(j) + b /\ Start(j) \in Nat
        BY <4>2, Position, StartIs, WordIsSet
      <4>4. j \in 0 .. Len(x.words) - 1
        <5> HIDE DEF p, j
        <5>1. d < n
          BY <1>0, <4>1, <4>2
        <5> QED  BY <1>0, <4>2, <5>1, InsideWords DEF j
      <4> HIDE DEF j, b, p
      <4>5. start(j + 1) = base + Start(j) /\ start(j + 1) \in Nat /\ start(j + 1) + b = p
            /\ start(j + 1) <= p /\ start(j + 1) < n
        <5> DEFINE s == start(j + 1)
                   u == Start(j)
        <5>1. s = base + u /\ u \in Nat
          BY <1>4, <4>3
        <5>2. d = u + b
          BY <4>3
        <5> HIDE DEF s, u
        <5>3. s \in Nat /\ s + b = p /\ s <= p /\ s < n
          BY <1>0, <1>1, <4>1, <4>2, <4>3, <5>1, <5>2, SMTT(30)
        <5> QED  BY <5>1, <5>3 DEF s, u
      <4>6. GetWord(x, start(j + 1)) = OnesIn(seq, start(j + 1), WordBits)
        BY <4>5, GetWordIs DEF n
      <4>7. IsOne(seq, start(j + 1) + b) /\ b \in 0 .. WordBits - 1
        BY <3>1, <4>3, <4>5 DEF p, Word
      <4>8. b \in GetWord(x, start(j + 1))
        BY <4>6, <4>7 DEF OnesIn
      <4>9. j + 1 \in 1 .. Len(x.words) + 1
        BY <1>0, <4>4
      <4>10. j + 1 \in S
        BY <1>0, <4>5, <4>8, <4>9
      <4> QED  BY <4>5, <4>10 DEF p
    <3>2. S # {}
      <4>1. PICK one \in Nat : one >= it.pos /\ IsOne(seq, one)
        OBVIOUS
      <4>2. one - pos \in Nat /\ pos + (one - pos) = one
        BY <1>1, <4>1 DEF pos
      <4> QED  BY <3>1, <4>1, <4>2
    <3> DEFINE i == Lowest(S)
    <3>3. i \in S /\ \A k \in S : i <= k
      <4>1. S \in SUBSET Nat
        BY <1>0
      <4> HIDE DEF S
      <4> QED  BY <3>2, <4>1, LowestIs
    <3> HIDE DEF i
    <3>4. i \in Nat /\ i # 0 /\ i - 1 \in Nat /\ (i - 1) + 1 = i /\ start(i) < n
          /\ GetWord(x, start(i)) # {}
      BY <1>0, <3>3
    <3> HIDE DEF S
    <3>5. start(i) = base + Start(i - 1) /\ start(i) \in Nat /\ start(i) \in 0 .. n
          /\ pos <= start(i)
      <4> DEFINE s == start(i)
                 u == Start(i - 1)
      <4>1. s = base + u /\ u \in Nat
        <5>1. start((i - 1) + 1) = base + Start(i - 1) /\ Start(i - 1) \in Nat
          BY <1>4, <3>4
        <5> QED  BY <3>4, <5>1
      <4>2. s < n
        BY <3>4
      <4> HIDE DEF s, u
      <4>3. s \in Nat /\ s \in 0 .. n /\ pos <= s
        BY <1>0, <1>1, <4>1, <4>2
      <4> QED  BY <4>1, <4>3 DEF s, u
    <3>6. f = Filled(x, BitsAt(start(i)))
      BY <2>2, <3>4 DEF i
    <3> HIDE DEF f
    <3>7. Buffered(BitsAt(start(i)), seq) /\ BitsAt(start(i)).pos = start(i)
      BY <3>5, BufferedAt DEF BitsAt, n
    <3>8. Buffered(f, seq) /\ f.pos = start(i) /\ f.buf = GetWord(x, start(i))
      <4>1. Buffered(f, seq) /\ f.pos = start(i) /\ f.avail = WordBits
        BY <3>4, <3>6, <3>7, FilledIs DEF n
      <4> QED  BY <3>4, <3>5, <4>1, GetWordIs DEF Buffered, n
    <3>9. ASSUME NEW c \in Nat, IsOne(seq, pos + c)
          PROVE  f.pos <= pos + c
      <4>1. PICK k \in S : start(k) <= pos + c
        BY <3>1, <3>9
      <4>2. i <= k /\ k \in Nat /\ k - 1 \in Nat /\ (k - 1) + 1 = k
        BY <1>0, <3>3, <4>1 DEF S
      <4>3. Start(i - 1) <= Start(k - 1)
        BY <3>4, <4>2, StartMonotone
      <4>4. start(k) = base + Start(k - 1) /\ Start(k - 1) \in Nat /\ Start(i - 1) \in Nat
        <5>1. start((k - 1) + 1) = base + Start(k - 1)
          BY <1>4, <4>2
        <5> QED  BY <1>4, <3>4, <4>2, <5>1
      <4> QED  BY <1>1, <3>5, <3>8, <4>1, <4>3, <4>4
    <3>10. pos <= f.pos
      BY <3>5, <3>8
    <3> QED  BY <3>4, <3>8, <3>9, <3>10
  <2> QED  BY <2>1, <2>2
<1> HIDE DEF f, fills, S
<1>6. f.pos \in Nat /\ f.pos <= n /\ f.avail \in Nat /\ f.avail <= WordBits
      /\ f.buf = OnesIn(seq, f.pos, f.avail)
  <2>1. f.pos \in 0 .. n /\ f.avail \in 0 .. WordBits /\ f.buf = OnesIn(seq, f.pos, f.avail)
    BY <1>5 DEF Buffered, n
  <2> QED  BY <1>0, <2>1
<1>7. \A b \in Nat : b \in f.buf <=> b < f.avail /\ IsOne(seq, f.pos + b)
  BY <1>6, OnesInIs
<1>8. l \in f.buf /\ l \in Nat /\ \A b \in f.buf : l <= b
  <2>1. f.buf \in SUBSET Nat
    BY <1>6, OnesInIs
  <2> QED  BY <1>5, <2>1, LowestIs
<1> HIDE DEF l
<1> DEFINE zeros == (f.pos - pos) + l
<1>9. zeros \in Nat /\ pos + zeros = f.pos + l
  BY <1>1, <1>5, <1>6, <1>8
<1>10. IsOne(seq, pos + zeros) /\ l < f.avail
  BY <1>7, <1>8, <1>9
<1>11. ASSUME NEW c \in Nat, c < zeros
       PROVE  ~ IsOne(seq, pos + c)
  <2> SUFFICES ASSUME IsOne(seq, pos + c)
               PROVE  FALSE
    OBVIOUS
  <2>1. f.pos <= pos + c
    BY <1>5
  <2> DEFINE b == (pos + c) - f.pos
  <2>2. b \in Nat /\ f.pos + b = pos + c /\ b < l
    <3> DEFINE p == f.pos
               z == zeros
    <3>1. p \in Nat /\ p <= pos + c /\ z \in Nat /\ pos + z = p + l /\ c < z /\ l \in Nat
      BY <1>6, <1>8, <1>9, <1>11, <2>1
    <3>2. b = (pos + c) - p
      OBVIOUS
    <3> HIDE DEF p, z, b
    <3>3. b \in Nat /\ p + b = pos + c /\ b < l
      BY <1>1, <3>1, <3>2
    <3> QED  BY <3>3 DEF p
  <2> HIDE DEF b
  <2>3. b \in f.buf
    BY <1>6, <1>7, <1>8, <1>10, <2>2
  <2> QED  BY <1>8, <2>2, <2>3
<1> HIDE DEF zeros
<1>12. OnesIn(seq, pos, zeros + 1) = {zeros}
  <2>1. zeros + 1 \in Nat /\ \A b \in Nat : b < zeros + 1 <=> b < zeros \/ b = zeros
    BY <1>9
  <2>2. OnesIn(seq, pos, zeros + 1) \in SUBSET Nat
        /\ \A b \in Nat : b \in OnesIn(seq, pos, zeros + 1) <=> b < zeros + 1 /\ IsOne(seq, pos + b)
    BY <2>1, OnesInIs
  <2>3. \A b \in Nat : b \in OnesIn(seq, pos, zeros + 1) <=> b = zeros
    BY <1>10, <1>11, <2>1, <2>2
  <2> QED  BY <1>9, <2>2, <2>3
<1> DEFINE rest == ShiftRight(f.buf, l + 1)
           next == skip.it
<1>13. rest = OnesIn(seq, f.pos + (l + 1), f.avail - (l + 1))
  <2> DEFINE a == f.avail
             m == l + 1
             p == f.pos
  <2>1. a \in Nat /\ m \in Nat /\ p \in Nat /\ m <= a /\ rest = ShiftRight(OnesIn(seq, p, a), m)
    BY <1>6, <1>8, <1>10
  <2> HIDE DEF a, m, p, rest
  <2>2. rest = OnesIn(seq, p + m, a - m)
    BY <2>1, ShiftedOnes
  <2> QED  BY <2>2 DEF a, m, p
<1> HIDE DEF rest
<1>14. skip.zeros = zeros /\ next = [pos |-> f.pos + l + 1, buf |-> rest, avail |-> f.avail - (l + 1)]
  BY <1>2 DEF zeros, rest
<1> HIDE DEF next
<1>15. next.pos = f.pos + l + 1 /\ next.buf = rest /\ next.avail = f.avail - (l + 1)
  BY <1>14
<1>16. f.pos + l + 1 = f.pos + (l + 1) /\ f.pos + l + 1 = pos + zeros + 1
       /\ f.avail - (l + 1) \in 0 .. WordBits /\ f.pos + l + 1 \in 0 .. n
  <2> DEFINE p == f.pos
             a == f.avail
  <2>1. p \in Nat /\ a \in Nat /\ a <= WordBits /\ l \in Nat /\ l < a /\ pos + zeros = p + l
    BY <1>6, <1>8, <1>9, <1>10
  <2>2. pos + zeros < n
    BY <1>10 DEF IsOne, n
  <2> HIDE DEF p, a
  <2>3. p + l + 1 = p + (l + 1) /\ p + l + 1 = pos + zeros + 1
        /\ a - (l + 1) \in 0 .. WordBits /\ p + l + 1 \in 0 .. n
    BY <1>0, <1>1, <1>9, <2>1, <2>2
  <2> QED  BY <2>3 DEF p, a
<1>18. Buffered(next, seq)
  <2>1. next.buf = OnesIn(seq, next.pos, next.avail)
    BY <1>13, <1>15, <1>16
  <2>2. next = [pos |-> next.pos, buf |-> next.buf, avail |-> next.avail]
    BY <1>14, <1>15
  <2> QED  BY <1>15, <1>16, <2>1, <2>2 DEF Buffered, n
<1> QED  BY <1>9, <1>12, <1>14, <1>15, <1>16, <1>18 DEF next, skip, pos

-----------------------------------------------------------------------------
(***************************************************************************)
(* All that is read without moving a reader is what the vector holds,      *)
(* whatever the calls that made it.                                        *)
(***************************************************************************)
LEMMA BuilderInPlace == BuilderInv => BitsInPlace
<1> SUFFICES ASSUME BuilderInv, phase = "build", NEW pos \in 0 .. Len(bits) - 1
             PROVE  /\ \A len \in 0 .. WordBits :
                        pos + len <= Len(bits) =>
                            /\ GetBits(builder, pos, len) = OneBits(pos, len)
                            /\ GetWord(builder, pos) \cap LowMask(len) = OneBits(pos, len)
                            /\ len <= WordBits - ByteBits + 1 =>
                                GetWordAtByte(builder, pos) \cap LowMask(len) = OneBits(pos, len)
                    /\ OneBits(0, pos + 1) # {} =>
                        /\ Predecessor1(builder, pos) \in OneBits(0, pos + 1)
                        /\ \A one \in OneBits(0, pos + 1) : one <= Predecessor1(builder, pos)
  BY DEF BitsInPlace
<1>1. bits \in Bits /\ Reads(builder, bits) /\ Len(bits) \in Nat
  BY LenBits, BuilderReads DEF BuilderInv
<1>2. pos \in Nat /\ pos < Len(bits) /\ 0 \in Nat /\ pos + 1 \in Int
  BY <1>1
<1>3. ASSUME NEW len \in 0 .. WordBits, pos + len <= Len(bits)
      PROVE  /\ GetBits(builder, pos, len) = OneBits(pos, len)
             /\ GetWord(builder, pos) \cap LowMask(len) = OneBits(pos, len)
             /\ len <= WordBits - ByteBits + 1 =>
                 GetWordAtByte(builder, pos) \cap LowMask(len) = OneBits(pos, len)
  <2>1. len \in Nat /\ len \in Int
    BY Width
  <2>2. OneBits(pos, len) = OnesIn(bits, pos, len)
    BY <1>1, <1>2, <2>1, OneBitsAre
  <2>3. GetBits(builder, pos, len) = OnesIn(bits, pos, len)
    BY <1>1, <1>2, <1>3, GetBitsIs
  <2>4. GetWord(builder, pos) \cap LowMask(len) = OnesIn(bits, pos, len)
    BY <1>1, <1>2, GetWordBits
  <2>5. ASSUME len <= WordBits - ByteBits + 1
        PROVE  GetWordAtByte(builder, pos) \cap LowMask(len) = OnesIn(bits, pos, len)
    BY <1>1, <1>2, <1>3, <2>1, <2>5, GetWordAtByteIs
  <2> QED  BY <2>2, <2>3, <2>4, <2>5
<1>4. OneBits(0, pos + 1) = OnesIn(bits, 0, pos + 1)
  BY <1>1, <1>2, OneBitsAre
<1>5. ASSUME OnesIn(bits, 0, pos + 1) # {}
      PROVE  /\ Predecessor1(builder, pos) \in OnesIn(bits, 0, pos + 1)
             /\ \A one \in OnesIn(bits, 0, pos + 1) : one <= Predecessor1(builder, pos)
  BY <1>1, <1>2, <1>5, Predecessor1Is
<1> QED  BY <1>3, <1>4, <1>5

-----------------------------------------------------------------------------
(***************************************************************************)
(* The numbers that words stand for.                                       *)
(***************************************************************************)
LEMMA UpTo ==
    ASSUME NEW n \in Nat, NEW S, 0 \in S, \A i \in 0 .. n - 1 : i \in S => i + 1 \in S
    PROVE  \A i \in 0 .. n : i \in S
<1> DEFINE T == {i \in Nat : i <= n /\ i \notin S}
           l == Lowest(T)
<1> SUFFICES ASSUME T # {}
             PROVE  FALSE
  OBVIOUS
<1>1. l \in T /\ \A c \in T : l <= c
  <2>1. T \in SUBSET Nat
    OBVIOUS
  <2> HIDE DEF T
  <2> QED  BY <2>1, LowestIs
<1> HIDE DEF l
<1>2. l \in Nat /\ l <= n /\ l \notin S /\ l # 0
  BY <1>1
<1>3. l - 1 \in 0 .. n - 1 /\ l - 1 \notin T
  BY <1>1, <1>2
<1>4. l - 1 \in S
  BY <1>2, <1>3
<1>5. (l - 1) + 1 \in S
  BY <1>3, <1>4
<1> QED  BY <1>2, <1>5

PowersUpTo(P, n) == P = [b \in 0 .. n |-> IF b = 0 THEN 1 ELSE 2 * P[b - 1]]

LEMMA PowersExist ==
    ASSUME NEW n \in Nat
    PROVE  \E P : PowersUpTo(P, n)
<1> DEFINE S == {i \in Nat : \E P : PowersUpTo(P, i)}
<1>1. 0 \in S
  <2> DEFINE P == [b \in 0 .. 0 |-> 1]
  <2>1. P = [b \in 0 .. 0 |-> IF b = 0 THEN 1 ELSE 2 * P[b - 1]]
    OBVIOUS
  <2> QED  BY <2>1 DEF PowersUpTo
<1>2. ASSUME NEW i \in Nat, i \in S
      PROVE  i + 1 \in S
  <2>1. PICK P : PowersUpTo(P, i)
    BY <1>2
  <2> DEFINE Step(F, b) == IF b = 0 THEN 1 ELSE 2 * F[b - 1]
             Q == [b \in 0 .. i + 1 |-> IF b <= i THEN P[b] ELSE Step(P, b)]
  <2>2. \A b \in 0 .. i : P[b] = Step(P, b)
    <3>1. P = [b \in 0 .. i |-> Step(P, b)]
      BY <2>1 DEF PowersUpTo
    <3> QED  BY <3>1
  <2>3. \A b \in 0 .. i + 1 : Q[b] = Step(Q, b)
    <3> TAKE b \in 0 .. i + 1
    <3>1. Q[b] = Step(P, b)
      BY <2>2
    <3>2. b # 0 => b - 1 \in 0 .. i + 1 /\ b - 1 <= i
      OBVIOUS
    <3> QED  BY <3>1, <3>2
  <2>4. Q = [b \in 0 .. i + 1 |-> Step(Q, b)]
    <3>1. Q = [b \in 0 .. i + 1 |-> Q[b]]
      OBVIOUS
    <3> HIDE DEF Q, Step
    <3> QED  BY <3>1, <2>3, Zenon
  <2>5. PowersUpTo(Q, i + 1)
    BY <2>4 DEF PowersUpTo
  <2> QED  BY <2>5
<1>3. \A i \in 0 .. n : i \in S
  <2> HIDE DEF S
  <2> QED  BY <1>1, <1>2, UpTo
<1> QED  BY <1>3

LEMMA PowersAre ==
    /\ PowerOf2[0] = 1
    /\ \A b \in 0 .. WordBits - 1 : PowerOf2[b + 1] = 2 * PowerOf2[b]
    /\ \A b \in 0 .. WordBits : PowerOf2[b] \in Nat \ {0}
<1> DEFINE P == PowerOf2
<1>1. PowersUpTo(P, WordBits)
  <2>1. \E Q : PowersUpTo(Q, WordBits)
    BY Width, PowersExist
  <2>2. P = CHOOSE Q : PowersUpTo(Q, WordBits)
    BY DEF PowerOf2, PowersUpTo
  <2> HIDE DEF P
  <2> QED  BY <2>1, <2>2, Zenon
<1> HIDE DEF P
<1>2. \A b \in 0 .. WordBits : P[b] = IF b = 0 THEN 1 ELSE 2 * P[b - 1]
  BY <1>1 DEF PowersUpTo
<1>3. P[0] = 1
  BY <1>2, Width
<1>4. \A b \in 0 .. WordBits - 1 : P[b + 1] = 2 * P[b]
  BY <1>2, Width
<1> DEFINE S == {b \in Nat : P[b] \in Nat \ {0}}
<1>5. 0 \in S
  BY <1>3
<1>6. \A b \in 0 .. WordBits - 1 : b \in S => b + 1 \in S
  BY <1>4
<1>7. \A b \in 0 .. WordBits : b \in S
  <2> HIDE DEF S
  <2> QED  BY <1>5, <1>6, Width, UpTo
<1> QED  BY <1>3, <1>4, <1>7 DEF P

LEMMA DivisionIs ==
    ASSUME NEW n \in Nat, NEW p \in Nat \ {0}
    PROVE  /\ n \div p \in Nat /\ n % p \in 0 .. p - 1
           /\ n = p * (n \div p) + (n % p)
OBVIOUS

LEMMA DivisionOf ==
    ASSUME NEW p \in Nat \ {0}, NEW q \in Nat, NEW r \in 0 .. p - 1
    PROVE  (p * q + r) % p = r
<1> DEFINE n == p * q + r
           d == n \div p
           m == n % p
<1>1. n \in Nat
  OBVIOUS
<1>2. d \in Nat /\ m \in 0 .. p - 1 /\ n = p * d + m
  BY <1>1, DivisionIs
<1> HIDE DEF d, m
<1>3. p * (d - q) = r - m
  BY <1>2
<1>4. CASE d = q
  BY <1>2, <1>4 DEF m
<1>5. CASE d > q
  <2>1. PICK k \in Nat : d - q = k + 1
    <3>1. d - q - 1 \in Nat /\ d - q = (d - q - 1) + 1
      BY <1>2, <1>5
    <3> QED  BY <3>1
  <2>2. p * (k + 1) = p * k + p /\ p * k \in Nat
    OBVIOUS
  <2> QED  BY <1>2, <1>3, <2>1, <2>2
<1>6. CASE d < q
  <2>1. PICK k \in Nat : q - d = k + 1
    <3>1. q - d - 1 \in Nat /\ q - d = (q - d - 1) + 1
      BY <1>2, <1>6
    <3> QED  BY <3>1
  <2>2. p * (k + 1) = p * k + p /\ p * k \in Nat
    OBVIOUS
  <2>3. p * (q - d) = m - r
    BY <1>2
  <2> QED  BY <1>2, <2>1, <2>2, <2>3
<1> QED  BY <1>2, <1>4, <1>5, <1>6

LEMMA RemainderOfTwice ==
    ASSUME NEW n \in Nat, NEW p \in Nat \ {0}
    PROVE  n % (2 * p) = (n % p) + (IF (n \div p) % 2 = 1 THEN p ELSE 0)
<1> DEFINE q == n \div p
           r == n % p
           h == q \div 2
           e == q % 2
<1>1. q \in Nat /\ r \in 0 .. p - 1 /\ n = p * q + r
  BY DivisionIs
<1> HIDE DEF q, r
<1>2. h \in Nat /\ e \in 0 .. 1 /\ q = 2 * h + e
  BY <1>1
<1> HIDE DEF h
<1> DEFINE s == r + (IF e = 1 THEN p ELSE 0)
<1>3. s \in 0 .. (2 * p) - 1 /\ 2 * p \in Nat \ {0}
  BY <1>1, <1>2
<1>4. n = (2 * p) * h + s
  <2> HIDE DEF e
  <2>1. p * (2 * h + e) = (2 * p) * h + p * e
    BY <1>2
  <2>2. p * e = IF e = 1 THEN p ELSE 0
    <3>1. e = 0 \/ e = 1
      BY <1>2
    <3> QED  BY <3>1
  <2> QED  BY <1>1, <1>2, <2>1, <2>2
<1> HIDE DEF e, s
<1> DEFINE t == 2 * p
<1>5. n = t * h + s /\ t \in Nat \ {0} /\ s \in 0 .. t - 1
  BY <1>3, <1>4
<1> HIDE DEF t
<1>6. n % t = s
  BY <1>2, <1>5, DivisionOf
<1> QED  BY <1>6 DEF t, s, e, q, r

\* The number below each bit of a word.
NumberBelow(F, x, n) ==
    F = [b \in 0 .. n |-> IF b = 0 THEN 0
                          ELSE F[b - 1] + (IF b - 1 \in x THEN PowerOf2[b - 1] ELSE 0)]

LEMMA NumberBelowExists ==
    ASSUME NEW x, NEW n \in Nat
    PROVE  \E F : NumberBelow(F, x, n)
<1> DEFINE S == {i \in Nat : \E F : NumberBelow(F, x, i)}
           One(b) == IF b \in x THEN PowerOf2[b] ELSE 0
           Step(F, b) == IF b = 0 THEN 0 ELSE F[b - 1] + One(b - 1)
<1>1. 0 \in S
  <2> DEFINE F == [b \in 0 .. 0 |-> 0]
  <2>1. F = [b \in 0 .. 0 |-> IF b = 0 THEN 0
                              ELSE F[b - 1] + (IF b - 1 \in x THEN PowerOf2[b - 1] ELSE 0)]
    OBVIOUS
  <2> QED  BY <2>1 DEF NumberBelow
<1>2. ASSUME NEW i \in Nat, i \in S
      PROVE  i + 1 \in S
  <2>1. PICK F : NumberBelow(F, x, i)
    BY <1>2
  <2> DEFINE G == [b \in 0 .. i + 1 |-> IF b <= i THEN F[b] ELSE Step(F, b)]
  <2>2. \A b \in 0 .. i : F[b] = Step(F, b)
    <3>1. F = [b \in 0 .. i |-> Step(F, b)]
      BY <2>1 DEF NumberBelow
    <3> QED  BY <3>1
  <2>3. \A b \in 0 .. i + 1 : G[b] = Step(G, b)
    <3> TAKE b \in 0 .. i + 1
    <3>1. G[b] = Step(F, b)
      BY <2>2
    <3>2. b # 0 => b - 1 \in 0 .. i + 1 /\ b - 1 <= i
      OBVIOUS
    <3> HIDE DEF One
    <3> QED  BY <3>1, <3>2
  <2>4. G = [b \in 0 .. i + 1 |-> Step(G, b)]
    <3>1. G = [b \in 0 .. i + 1 |-> G[b]]
      OBVIOUS
    <3> HIDE DEF G, Step
    <3> QED  BY <3>1, <2>3, Zenon
  <2>5. NumberBelow(G, x, i + 1)
    BY <2>4 DEF NumberBelow
  <2> QED  BY <2>5
<1>3. \A i \in 0 .. n : i \in S
  <2> HIDE DEF S
  <2> QED  BY <1>1, <1>2, UpTo
<1> QED  BY <1>3

LEMMA NumberIs ==
    ASSUME NEW x
    PROVE  \E F : /\ Number(x) = F[WordBits]
                  /\ F[0] = 0
                  /\ \A b \in 0 .. WordBits - 1 :
                       F[b + 1] = F[b] + (IF b \in x THEN PowerOf2[b] ELSE 0)
<1> DEFINE F == CHOOSE G : NumberBelow(G, x, WordBits)
<1>1. NumberBelow(F, x, WordBits)
  <2>1. \E G : NumberBelow(G, x, WordBits)
    BY Width, NumberBelowExists
  <2> QED  BY <2>1, Zenon
<1>2. Number(x) = F[WordBits]
  BY DEF Number, NumberBelow
<1> HIDE DEF F
<1>3. \A b \in 0 .. WordBits :
        F[b] = IF b = 0 THEN 0 ELSE F[b - 1] + (IF b - 1 \in x THEN PowerOf2[b - 1] ELSE 0)
  BY <1>1 DEF NumberBelow
<1>4. F[0] = 0
  BY <1>3, Width
<1>5. ASSUME NEW b \in 0 .. WordBits - 1
      PROVE  F[b + 1] = F[b] + (IF b \in x THEN PowerOf2[b] ELSE 0)
  <2>1. b + 1 \in 0 .. WordBits /\ b + 1 # 0 /\ (b + 1) - 1 = b
    BY Width
  <2> QED  BY <1>3, <2>1
<1> QED  BY <1>2, <1>4, <1>5

\* A number that fits in a word is the one that its word stands for.
LEMMA NumberOfBinary ==
    ASSUME NEW n \in Nat, n < PowerOf2[WordBits]
    PROVE  Number(Binary(n)) = n
<1> DEFINE x == Binary(n)
<1>1. PICK F : /\ Number(x) = F[WordBits]
               /\ F[0] = 0
               /\ \A b \in 0 .. WordBits - 1 :
                    F[b + 1] = F[b] + (IF b \in x THEN PowerOf2[b] ELSE 0)
  BY NumberIs
<1>2. \A b \in 0 .. WordBits - 1 : b \in x <=> (n \div PowerOf2[b]) % 2 = 1
  BY DEF Binary, Word
<1> HIDE DEF x
<1> DEFINE S == {b \in Nat : F[b] = n % PowerOf2[b]}
<1>3. 0 \in S
  BY <1>1, PowersAre
<1>4. ASSUME NEW b \in 0 .. WordBits - 1, b \in S
      PROVE  b + 1 \in S
  <2> DEFINE p == PowerOf2[b]
             one == IF b \in x THEN p ELSE 0
  <2>1. p \in Nat \ {0} /\ PowerOf2[b + 1] = 2 * p /\ b \in Nat
    BY PowersAre, Width
  <2>2. one = IF (n \div p) % 2 = 1 THEN p ELSE 0
    BY <1>2
  <2>3. F[b] = n % p /\ F[b + 1] = F[b] + one
    BY <1>1, <1>4
  <2> HIDE DEF p, one
  <2>4. F[b + 1] = n % (2 * p)
    BY <2>1, <2>2, <2>3, RemainderOfTwice
  <2> QED  BY <2>1, <2>4
<1>5. \A b \in 0 .. WordBits : b \in S
  <2> HIDE DEF S
  <2> QED  BY <1>3, <1>4, Width, UpTo
<1>6. F[WordBits] = n % PowerOf2[WordBits]
  BY <1>5, Width
<1>7. PowerOf2[WordBits] \in Nat \ {0}
  BY PowersAre, Width
<1>8. n % PowerOf2[WordBits] = n
  BY <1>7
<1> QED  BY <1>1, <1>6, <1>8 DEF x

LEMMA NumberOfNone == Number({}) = 0
<1>1. PICK F : /\ Number({}) = F[WordBits]
               /\ F[0] = 0
               /\ \A b \in 0 .. WordBits - 1 : F[b + 1] = F[b] + 0
  <2>1. \A b : b \notin {}
    OBVIOUS
  <2> QED  BY NumberIs, <2>1
<1> DEFINE S == {b \in Nat : F[b] = 0}
<1>2. 0 \in S /\ \A b \in 0 .. WordBits - 1 : b \in S => b + 1 \in S
  BY <1>1
<1>3. \A b \in 0 .. WordBits : b \in S
  <2> HIDE DEF S
  <2> QED  BY <1>2, Width, UpTo
<1> QED  BY <1>1, <1>3, Width

(***************************************************************************)
(* A code is of a number and one, which is a word.  Its highest bit is     *)
(* written apart from the rest.                                            *)
(***************************************************************************)
Fits(n) == n + 1 < PowerOf2[WordBits]
TopBit(n) == Highest(Binary(n + 1))
RestBits(n) == Binary(n + 1) \ {TopBit(n)}

LEMMA BitsOfNumber ==
    ASSUME NEW n \in Nat, Fits(n)
    PROVE  /\ TopBit(n) \in Word
           /\ RestBits(n) \in SUBSET LowMask(TopBit(n))
           /\ Number(RestBits(n) \cup {TopBit(n)}) - 1 = n
<1> DEFINE x == Binary(n + 1)
           top == Highest(x)
<1>1. Number(x) = n + 1
  BY NumberOfBinary DEF Fits
<1>2. x \in SUBSET (0 .. WordBits - 1) /\ WordBits - 1 \in Nat
  BY Width DEF Binary, Word
<1> HIDE DEF x
<1>3. x # {}
  BY <1>1, NumberOfNone
<1>4. top \in x /\ \A b \in x : b <= top
  BY <1>2, <1>3, HighestIs
<1> HIDE DEF top
<1>5. top \in 0 .. WordBits - 1 /\ (x \ {top}) \cup {top} = x
  BY <1>2, <1>4
<1>6. x \ {top} \in SUBSET (0 .. top - 1)
  BY <1>2, <1>4
<1>7. Number((x \ {top}) \cup {top}) - 1 = n
  BY <1>1, <1>5
<1> QED  BY <1>5, <1>6, <1>7 DEF Word, LowMask, RestBits, TopBit, top, x

\* The length of a number is a number that fits.
LEMMA PowersAhead == \A b \in 0 .. WordBits : b < PowerOf2[b]
<1> DEFINE S == {b \in Nat : b < PowerOf2[b]}
<1>1. 0 \in S
  BY PowersAre
<1>2. ASSUME NEW b \in 0 .. WordBits - 1, b \in S
      PROVE  b + 1 \in S
  <2>1. PowerOf2[b] \in Nat \ {0} /\ PowerOf2[b + 1] = 2 * PowerOf2[b]
    BY PowersAre, Width
  <2> QED  BY <1>2, <2>1
<1>3. \A b \in 0 .. WordBits : b \in S
  <2> HIDE DEF S
  <2> QED  BY <1>1, <1>2, Width, UpTo
<1> QED  BY <1>3

LEMMA LengthFits ==
    ASSUME NEW n \in Nat, Fits(n)
    PROVE  TopBit(n) \in Nat /\ Fits(TopBit(n))
<1>1. TopBit(n) \in 0 .. WordBits - 1
  BY BitsOfNumber DEF Word
<1>2. WordBits < PowerOf2[WordBits] /\ PowerOf2[WordBits] \in Nat
  BY PowersAhead, PowersAre, Width
<1> QED  BY <1>1, <1>2, Width DEF Fits

(***************************************************************************)
(* The codes as bits: what is at pos.                                      *)
(***************************************************************************)
RestAt(seq, pos, n) ==
    /\ pos + TopBit(n) <= Len(seq)
    /\ OnesIn(seq, pos, TopBit(n)) = RestBits(n)

GammaAt(seq, pos, n) ==
    /\ IsOne(seq, pos + TopBit(n))
    /\ OnesIn(seq, pos, TopBit(n)) = {}
    /\ RestAt(seq, pos + TopBit(n) + 1, n)

AfterGamma(pos, n) == pos + TopBit(n) + 1 + TopBit(n)

DeltaAt(seq, pos, n) ==
    /\ GammaAt(seq, pos, TopBit(n))
    /\ RestAt(seq, AfterGamma(pos, TopBit(n)), n)

AfterDelta(pos, n) == AfterGamma(pos, TopBit(n)) + TopBit(n)

\* What is appended leaves the bits before it.
LEMMA BitsBefore ==
    ASSUME NEW seq \in Bits, NEW len \in Nat, NEW value \in SUBSET LowMask(len),
           NEW pos \in Nat, NEW l \in Nat, pos + l <= Len(seq)
    PROVE  OnesIn(seq \o Sequence(value, len), pos, l) = OnesIn(seq, pos, l)
<1> DEFINE t == seq \o Sequence(value, len)
<1>1. \A p \in Nat : IsOne(t, p) <=> IsOne(seq, p) \/ (p >= Len(seq) /\ p - Len(seq) \in value)
  BY AppendedIs
<1>2. Len(seq) \in Nat
  BY LenBits
<1> HIDE DEF t
<1>3. \A b \in 0 .. l - 1 : IsOne(t, pos + b) <=> IsOne(seq, pos + b)
  <2> TAKE b \in 0 .. l - 1
  <2>1. pos + b \in Nat /\ ~(pos + b >= Len(seq))
    BY <1>2
  <2> QED  BY <1>1, <2>1
<1>4. OnesIn(t, pos, l) = OnesIn(seq, pos, l)
  BY <1>3 DEF OnesIn
<1> QED  BY <1>4 DEF t

\* ... and its own are behind them.
LEMMA BitsBehind ==
    ASSUME NEW seq \in Bits, NEW len \in Nat, NEW value \in SUBSET LowMask(len)
    PROVE  OnesIn(seq \o Sequence(value, len), Len(seq), len) = value
<1> DEFINE t == seq \o Sequence(value, len)
           n == Len(seq)
<1>1. \A p \in Nat : IsOne(t, p) <=> IsOne(seq, p) \/ (p >= n /\ p - n \in value)
  BY AppendedIs
<1>2. n \in Nat /\ value \in SUBSET (0 .. len - 1)
  BY LenBits DEF LowMask
<1>3. \A p \in Nat : IsOne(seq, p) => p < n
  BY DEF IsOne
<1> HIDE DEF t, n
<1>4. \A b \in 0 .. len - 1 : IsOne(t, n + b) <=> b \in value
  <2> TAKE b \in 0 .. len - 1
  <2>1. n + b \in Nat /\ n + b >= n /\ (n + b) - n = b /\ ~(n + b < n)
    BY <1>2
  <2> QED  BY <1>1, <1>3, <2>1
<1>5. OnesIn(t, n, len) = value
  BY <1>2, <1>4 DEF OnesIn
<1> QED  BY <1>5 DEF t, n

LEMMA RestWritten ==
    ASSUME NEW x, NEW seq \in Bits, Holds(x, seq), NEW n \in Nat, Fits(n)
    PROVE  LET next == seq \o Sequence(RestBits(n), TopBit(n))
           IN  /\ next \in Bits /\ Len(next) = Len(seq) + TopBit(n)
               /\ Holds(AppendBits(x, RestBits(n), TopBit(n)), next)
               /\ RestAt(next, Len(seq), n)
<1> DEFINE l == TopBit(n)
           rest == RestBits(n)
<1>1. l \in 0 .. WordBits - 1 /\ rest \in SUBSET LowMask(l)
  BY BitsOfNumber DEF Word
<1> HIDE DEF l, rest
<1>2. l \in Nat /\ l \in 0 .. WordBits /\ Len(seq) \in Nat
  BY <1>1, Width, LenBits
<1> DEFINE next == seq \o Sequence(rest, l)
<1>3. next \in Bits /\ Len(next) = Len(seq) + l
  BY <1>1, <1>2, AppendedIs
<1>4. Holds(AppendBits(x, rest, l), next)
  BY <1>1, <1>2, AppendHolds
<1>5. OnesIn(next, Len(seq), l) = rest
  BY <1>1, <1>2, BitsBehind
<1> HIDE DEF next
<1>6. Len(seq) + l <= Len(next)
  BY <1>2, <1>3
<1> QED  BY <1>3, <1>4, <1>5, <1>6 DEF RestAt, next, l, rest

LEMMA GammaKept ==
    ASSUME NEW seq \in Bits, NEW len \in Nat, NEW value \in SUBSET LowMask(len),
           NEW pos \in Nat, NEW n \in Nat, Fits(n), GammaAt(seq, pos, n)
    PROVE  GammaAt(seq \o Sequence(value, len), pos, n)
<1> DEFINE t == seq \o Sequence(value, len)
           l == TopBit(n)
<1>1. l \in Nat
  BY LengthFits
<1>2. /\ IsOne(seq, pos + l) /\ OnesIn(seq, pos, l) = {}
      /\ pos + l + 1 + l <= Len(seq) /\ OnesIn(seq, pos + l + 1, l) = RestBits(n)
  BY DEF GammaAt, RestAt
<1> HIDE DEF l
<1>3. Len(seq) \in Nat /\ pos + l <= Len(seq) /\ pos + l + 1 \in Nat /\ pos + l \in Nat
  BY <1>1, <1>2, LenBits
<1>4. OnesIn(t, pos, l) = {}
  BY <1>1, <1>2, <1>3, BitsBefore
<1>5. OnesIn(t, pos + l + 1, l) = RestBits(n)
  BY <1>1, <1>2, <1>3, BitsBefore
<1>6. IsOne(t, pos + l)
  BY <1>2, <1>3, AppendedIs
<1>7. Len(t) = Len(seq) + len
  BY AppendedIs
<1> HIDE DEF t
<1>8. pos + l + 1 + l <= Len(t)
  BY <1>1, <1>2, <1>3, <1>7
<1> QED  BY <1>4, <1>5, <1>6, <1>8 DEF GammaAt, RestAt, l, t

LEMMA GammaWritten ==
    ASSUME NEW x, NEW seq \in Bits, Holds(x, seq), NEW n \in Nat, Fits(n)
    PROVE  \E next \in Bits : /\ Holds(WriteGamma(x, n), next)
                              /\ Len(next) = AfterGamma(Len(seq), n)
                              /\ GammaAt(next, Len(seq), n)
<1> DEFINE l == TopBit(n)
           y == AppendBits(x, {l}, l + 1)
           unary == seq \o Sequence({l}, l + 1)
           rest == Sequence(RestBits(n), l)
           next == unary \o rest
<1>1. l \in 0 .. WordBits - 1 /\ l \in Nat /\ l + 1 \in Nat /\ l + 1 \in 0 .. WordBits
      /\ RestBits(n) \in SUBSET LowMask(l)
  <2>1. l \in 0 .. WordBits - 1 /\ RestBits(n) \in SUBSET LowMask(l)
    BY BitsOfNumber DEF Word
  <2> HIDE DEF l
  <2> QED  BY <2>1, Width
<1>2. WriteGamma(x, n) = AppendBits(y, RestBits(n), l)
  BY DEF WriteGamma, TopBit, RestBits
<1> HIDE DEF l
<1>3. {l} \in SUBSET LowMask(l + 1) /\ Len(seq) \in Nat
  BY <1>1, LenBits DEF LowMask
<1>4. Holds(y, unary)
  BY <1>1, <1>3, AppendHolds
<1>5. unary \in Bits /\ Len(unary) = Len(seq) + (l + 1)
  BY <1>1, <1>3, AppendedIs
<1>6. OnesIn(unary, Len(seq), l + 1) = {l}
  BY <1>1, <1>3, BitsBehind
<1> HIDE DEF unary, y
<1>7. IsOne(unary, Len(seq) + l) /\ OnesIn(unary, Len(seq), l) = {}
  <2>1. \A b \in 0 .. (l + 1) - 1 : IsOne(unary, Len(seq) + b) <=> b = l
    BY <1>6 DEF OnesIn
  <2>2. l \in 0 .. (l + 1) - 1 /\ 0 .. l - 1 \subseteq 0 .. (l + 1) - 1 /\ l \notin 0 .. l - 1
    BY <1>1
  <2> QED  BY <2>1, <2>2 DEF OnesIn
<1>8. /\ next \in Bits /\ Len(next) = Len(unary) + l
      /\ Holds(AppendBits(y, RestBits(n), l), next)
      /\ RestAt(next, Len(unary), n)
  BY <1>4, <1>5, RestWritten DEF l
<1>9. IsOne(next, Len(seq) + l)
  <2>1. Len(seq) + l \in Nat
    BY <1>1, <1>3
  <2> QED  BY <1>1, <1>5, <1>7, <2>1, AppendedIs
<1>10. OnesIn(next, Len(seq), l) = {}
  <2>1. Len(seq) + l <= Len(unary)
    BY <1>1, <1>3, <1>5
  <2> QED  BY <1>1, <1>3, <1>5, <1>7, <2>1, BitsBefore
<1> HIDE DEF next, rest
<1>11. Len(unary) = Len(seq) + l + 1 /\ Len(next) = Len(seq) + l + 1 + l
  BY <1>1, <1>3, <1>5, <1>8
<1>12. GammaAt(next, Len(seq), n) /\ Len(next) = AfterGamma(Len(seq), n)
  BY <1>8, <1>9, <1>10, <1>11 DEF GammaAt, AfterGamma, l
<1> QED  BY <1>2, <1>8, <1>12

LEMMA DeltaWritten ==
    ASSUME NEW x, NEW seq \in Bits, Holds(x, seq), NEW n \in Nat, Fits(n)
    PROVE  \E next \in Bits : /\ Holds(WriteDelta(x, n), next)
                              /\ Len(next) = AfterDelta(Len(seq), n)
                              /\ DeltaAt(next, Len(seq), n)
<1> DEFINE l == TopBit(n)
           y == WriteGamma(x, l)
<1>1. l \in Nat /\ Fits(l) /\ RestBits(n) \in SUBSET LowMask(l)
  BY LengthFits, BitsOfNumber
<1>2. WriteDelta(x, n) = AppendBits(y, RestBits(n), l)
  BY DEF WriteDelta, TopBit, RestBits
<1>3. PICK length \in Bits : /\ Holds(y, length) /\ Len(length) = AfterGamma(Len(seq), l)
                             /\ GammaAt(length, Len(seq), l)
  <2> HIDE DEF l
  <2> QED  BY <1>1, GammaWritten
<1> DEFINE next == length \o Sequence(RestBits(n), l)
<1>4. /\ next \in Bits /\ Len(next) = Len(length) + l
      /\ Holds(AppendBits(y, RestBits(n), l), next)
      /\ RestAt(next, Len(length), n)
  <2> HIDE DEF y
  <2> QED  BY <1>3, RestWritten DEF l
<1>5. GammaAt(next, Len(seq), l)
  <2> HIDE DEF l
  <2>1. Len(seq) \in Nat
    BY LenBits
  <2> QED  BY <1>1, <1>3, <2>1, GammaKept
<1> HIDE DEF next, y
<1>6. DeltaAt(next, Len(seq), n) /\ Len(next) = AfterDelta(Len(seq), n)
  BY <1>3, <1>4, <1>5 DEF DeltaAt, AfterDelta, l
<1> QED  BY <1>2, <1>4, <1>6

\* A reader at a code returns the number, and is behind the code.
LEMMA RestRead ==
    ASSUME NEW y, NEW seq \in Bits, Reads(y, seq), NEW it, Buffered(it, seq),
           NEW n \in Nat, Fits(n), RestAt(seq, it.pos, n)
    PROVE  LET rest == ReadBits(y, it, TopBit(n))
           IN  /\ Number(rest.value \cup {TopBit(n)}) - 1 = n
               /\ rest.it.pos = it.pos + TopBit(n)
               /\ Buffered(rest.it, seq)
<1> DEFINE l == TopBit(n)
           rest == ReadBits(y, it, l)
<1>1. l \in 0 .. WordBits - 1 /\ Number(RestBits(n) \cup {l}) - 1 = n
  BY BitsOfNumber DEF Word
<1>2. it.pos + l <= Len(seq) /\ OnesIn(seq, it.pos, l) = RestBits(n)
  BY DEF RestAt
<1> HIDE DEF l
<1>3. rest.value = OnesIn(seq, it.pos, l) /\ rest.it.pos = it.pos + l /\ Buffered(rest.it, seq)
  BY <1>1, <1>2, ReadBitsIs
<1> HIDE DEF rest
<1> QED  BY <1>1, <1>2, <1>3 DEF rest, l

LEMMA GammaRead ==
    ASSUME NEW y, NEW seq \in Bits, Reads(y, seq), NEW it, Buffered(it, seq),
           NEW n \in Nat, Fits(n), GammaAt(seq, it.pos, n)
    PROVE  /\ ReadGamma(y, it).value = n
           /\ ReadGamma(y, it).it.pos = AfterGamma(it.pos, n)
           /\ Buffered(ReadGamma(y, it).it, seq)
<1> DEFINE l == TopBit(n)
           unary == SkipZeros(y, it)
           z == unary.zeros
           rest == ReadBits(y, unary.it, z)
           p == it.pos
<1>1. l \in Nat
  BY LengthFits
<1>2. IsOne(seq, p + l) /\ OnesIn(seq, p, l) = {} /\ RestAt(seq, p + l + 1, n)
  BY DEF GammaAt
<1>3. p \in Nat
  BY LenBits DEF Buffered
<1> HIDE DEF l
<1>4. \E one \in Nat : one >= it.pos /\ IsOne(seq, one)
  <2>1. p + l \in Nat /\ p + l >= p
    BY <1>1, <1>3
  <2> QED  BY <1>2, <2>1
<1>5. /\ z \in Nat /\ unary.it.pos = p + z + 1 /\ OnesIn(seq, p, z + 1) = {z}
      /\ Buffered(unary.it, seq)
  BY <1>4, SkipZerosIs
<1>6. ReadGamma(y, it) = [value |-> Number(rest.value \cup {z}) - 1, it |-> rest.it]
  BY DEF ReadGamma
<1> HIDE DEF unary, p, z
<1>7. z = l
  <2>1. \A b \in 0 .. z : IsOne(seq, p + b) <=> b = z
    <3>1. 0 .. (z + 1) - 1 = 0 .. z
      BY <1>5
    <3> QED  BY <1>5, <3>1 DEF OnesIn
  <2>2. \A b \in 0 .. l - 1 : ~IsOne(seq, p + b)
    BY <1>2 DEF OnesIn
  <2>3. CASE z < l
    <3>1. z \in 0 .. z /\ z \in 0 .. l - 1
      BY <1>1, <1>5, <2>3
    <3> QED  BY <2>1, <2>2, <3>1
  <2>4. CASE l < z
    <3>1. l \in 0 .. z /\ l # z
      BY <1>1, <1>5, <2>4
    <3> QED  BY <1>2, <2>1, <3>1
  <2> QED  BY <1>1, <1>5, <2>3, <2>4
<1>8. RestAt(seq, unary.it.pos, n)
  BY <1>2, <1>5, <1>7
<1>9. /\ Number(rest.value \cup {l}) - 1 = n
      /\ rest.it.pos = unary.it.pos + l
      /\ Buffered(rest.it, seq)
  <2> DEFINE next == unary.it
  <2>1. Buffered(next, seq) /\ RestAt(seq, next.pos, n) /\ rest = ReadBits(y, next, l)
    BY <1>5, <1>7, <1>8
  <2> HIDE DEF next, rest
  <2> DEFINE read == ReadBits(y, next, TopBit(n))
  <2>2. /\ Number(read.value \cup {TopBit(n)}) - 1 = n
        /\ read.it.pos = next.pos + TopBit(n)
        /\ Buffered(read.it, seq)
    BY <2>1, RestRead
  <2>3. rest = read
    BY <2>1 DEF l
  <2> HIDE DEF read
  <2> QED  BY <2>2, <2>3 DEF next, l
<1> HIDE DEF rest
<1>10. ReadGamma(y, it).value = n /\ ReadGamma(y, it).it = rest.it
  BY <1>6, <1>7, <1>9
<1>11. rest.it.pos = p + l + 1 + l
  BY <1>1, <1>3, <1>5, <1>7, <1>9
<1> QED  BY <1>9, <1>10, <1>11 DEF AfterGamma, p, l

LEMMA DeltaRead ==
    ASSUME NEW y, NEW seq \in Bits, Reads(y, seq), NEW it, Buffered(it, seq),
           NEW n \in Nat, Fits(n), DeltaAt(seq, it.pos, n)
    PROVE  /\ ReadDelta(y, it).value = n
           /\ ReadDelta(y, it).it.pos = AfterDelta(it.pos, n)
<1> DEFINE l == TopBit(n)
           length == ReadGamma(y, it)
           next == length.it
           rest == ReadBits(y, next, length.value)
<1>1. l \in Nat /\ Fits(l) /\ GammaAt(seq, it.pos, l) /\ RestAt(seq, AfterGamma(it.pos, l), n)
  BY LengthFits DEF DeltaAt
<1> HIDE DEF l
<1>2. length.value = l /\ next.pos = AfterGamma(it.pos, l) /\ Buffered(next, seq)
  BY <1>1, GammaRead
<1>3. ReadDelta(y, it) = [value |-> Number(rest.value \cup {length.value}) - 1, it |-> rest.it]
  BY DEF ReadDelta
<1> HIDE DEF length, next
<1>4. RestAt(seq, next.pos, n) /\ rest = ReadBits(y, next, l)
  BY <1>1, <1>2
<1> HIDE DEF rest
<1>5. Number(rest.value \cup {l}) - 1 = n /\ rest.it.pos = next.pos + l
  BY <1>2, <1>4, RestRead DEF l
<1> QED  BY <1>2, <1>3, <1>5 DEF AfterDelta, l

(***************************************************************************)
(* A number in either code at the end of any vector is read back.          *)
(***************************************************************************)
LEMMA CodesInPlace == BuilderInv => CodesReadBack
<1> SUFFICES ASSUME BuilderInv, NEW n \in 0 .. MaxNumber
             PROVE  LET gamma == WriteGamma(builder, n)
                        delta == WriteDelta(builder, n)
                        readGamma == ReadGamma(gamma, BitsAt(builder.size))
                        readDelta == ReadDelta(delta, BitsAt(builder.size))
                    IN  /\ readGamma.value = n /\ readGamma.it.pos = gamma.size
                        /\ readDelta.value = n /\ readDelta.it.pos = delta.size
  BY DEF CodesReadBack
<1> DEFINE it == BitsAt(builder.size)
           gamma == WriteGamma(builder, n)
           delta == WriteDelta(builder, n)
<1>1. bits \in Bits /\ Holds(builder, bits) /\ builder.size = Len(bits) /\ Len(bits) \in Nat
  BY LenBits, HoldsFacts DEF BuilderInv
<1>2. n \in Nat /\ Fits(n)
  <2>1. MaxNumber \in Nat /\ PowerOf2[WordBits] \in Nat
    BY BoundsAssumption, PowersAre, Width
  <2> QED  BY <2>1, NumberAssumption DEF Fits
<1>3. it.pos = Len(bits)
  BY <1>1 DEF BitsAt
<1>4. ReadGamma(gamma, it).value = n /\ ReadGamma(gamma, it).it.pos = gamma.size
  <2>1. PICK seq \in Bits : /\ Holds(gamma, seq) /\ Len(seq) = AfterGamma(Len(bits), n)
                            /\ GammaAt(seq, Len(bits), n)
    BY <1>1, <1>2, GammaWritten
  <2> HIDE DEF gamma
  <2>2. Reads(gamma, seq) /\ gamma.size = Len(seq) /\ Len(seq) \in Nat
    BY <2>1, BuilderReads, LenBits, HoldsFacts
  <2>3. Buffered(it, seq)
    <3>1. Len(bits) <= Len(seq)
      <4>1. TopBit(n) \in Nat
        BY <1>2, LengthFits
      <4> QED  BY <1>1, <2>1, <4>1 DEF AfterGamma
    <3>2. Len(bits) \in 0 .. Len(seq)
      BY <1>1, <2>2, <3>1
    <3> QED  BY <1>1, <3>2, BufferedAt
  <2> HIDE DEF it
  <2> QED  BY <1>2, <1>3, <2>1, <2>2, <2>3, GammaRead
<1>5. ReadDelta(delta, it).value = n /\ ReadDelta(delta, it).it.pos = delta.size
  <2>1. PICK seq \in Bits : /\ Holds(delta, seq) /\ Len(seq) = AfterDelta(Len(bits), n)
                            /\ DeltaAt(seq, Len(bits), n)
    BY <1>1, <1>2, DeltaWritten
  <2> HIDE DEF delta
  <2>2. Reads(delta, seq) /\ delta.size = Len(seq) /\ Len(seq) \in Nat
    BY <2>1, BuilderReads, LenBits, HoldsFacts
  <2>3. Buffered(it, seq)
    <3>1. Len(bits) <= Len(seq)
      <4>1. TopBit(n) \in Nat /\ TopBit(TopBit(n)) \in Nat
        BY <1>2, LengthFits
      <4> QED  BY <1>1, <2>1, <4>1 DEF AfterDelta, AfterGamma
    <3>2. Len(bits) \in 0 .. Len(seq)
      BY <1>1, <2>2, <3>1
    <3> QED  BY <1>1, <3>2, BufferedAt
  <2> HIDE DEF it
  <2> QED  BY <1>2, <1>3, <2>1, <2>2, <2>3, DeltaRead
<1> QED  BY <1>4, <1>5

\* Bits, words and the predecessor of any place of the vector are read as it
\* was filled, whatever is in the memory behind its last word; and so is a
\* number in gamma or delta code.
THEOREM ReadInPlace == StreamSpec => []ReadsInPlace
<1>1. BuilderInv => ReadsInPlace
  BY BuilderInPlace, CodesInPlace DEF ReadsInPlace
<1> QED  BY <1>1, BuilderInductive, PTL

-----------------------------------------------------------------------------
(***************************************************************************)
(* A bits_iterator.  Its buffer is right as long as there is a reader.     *)
(***************************************************************************)
ReaderInv ==
    /\ BuilderInv
    /\ phase = "bits" => Buffered(reader, bits)

LEMMA ReaderReads ==
    ASSUME BuilderInv
    PROVE  bits \in Bits /\ Len(bits) \in Nat /\ Reads(Vector, bits)
BY LenBits, BuilderReads DEF BuilderInv, Vector

LEMMA TakeReads ==
    ASSUME ReaderInv, Take
    PROVE  /\ Buffered(reader', bits')
           /\ taken' = OneBits(reader.pos, reader'.pos - reader.pos)
<1>1. bits \in Bits /\ Len(bits) \in Nat /\ Reads(Vector, bits) /\ Buffered(reader, bits)
  BY ReaderReads DEF ReaderInv, Take
<1>2. PICK len \in 0 .. WordBits - 1 :
         /\ reader.pos + len <= Len(bits)
         /\ reader' = ReadBits(Vector, reader, len).it
         /\ taken' = ReadBits(Vector, reader, len).value
  BY DEF Take
<1>3. /\ taken' = OnesIn(bits, reader.pos, len)
      /\ reader'.pos = reader.pos + len
      /\ Buffered(reader', bits)
  BY <1>1, <1>2, ReadBitsIs
<1> DEFINE pos == reader.pos
           next == reader'.pos
<1>4. pos \in Nat /\ len \in Nat /\ next = pos + len
  BY <1>1, <1>3, Width DEF Buffered
<1>5. next - pos = len /\ len \in Int
  <2> HIDE DEF pos, next
  <2> QED  BY <1>4
<1>6. taken' = OneBits(pos, next - pos)
  BY <1>1, <1>3, <1>4, <1>5, OneBitsAre
<1> QED  BY <1>3, <1>6 DEF Take

LEMMA SkipReads ==
    ASSUME ReaderInv, SkipToOne
    PROVE  /\ Buffered(reader', bits')
           /\ taken' = OneBits(reader.pos, reader'.pos - reader.pos)
<1> DEFINE skip == SkipZeros(Vector, reader)
           pos == reader.pos
           next == reader'.pos
           zeros == skip.zeros
<1>1. bits \in Bits /\ Len(bits) \in Nat /\ Reads(Vector, bits) /\ Buffered(reader, bits)
  BY ReaderReads DEF ReaderInv, SkipToOne
<1>2. reader' = skip.it /\ taken' = {zeros} /\ bits' = bits
  BY DEF SkipToOne
<1>3. PICK one \in OnesOf(bits) : one >= pos
  BY DEF SkipToOne
<1>4. one \in Nat /\ IsOne(bits, one)
  BY <1>1, OnesAreNumbers, OnesOfIs
<1>5. /\ zeros \in Nat
      /\ skip.it.pos = pos + zeros + 1
      /\ OnesIn(bits, pos, zeros + 1) = {zeros}
      /\ Buffered(skip.it, bits)
  BY <1>1, <1>3, <1>4, SkipZerosIs
<1>6. pos \in Nat /\ next = pos + zeros + 1
  BY <1>1, <1>2, <1>5 DEF Buffered
<1>7. next - pos = zeros + 1 /\ zeros + 1 \in Int
  <2> HIDE DEF pos, next, zeros
  <2> QED  BY <1>5, <1>6
<1>8. OneBits(pos, next - pos) = OnesIn(bits, pos, zeros + 1)
  BY <1>1, <1>6, <1>7, OneBitsAre
<1> QED  BY <1>2, <1>5, <1>8

LEMMA ReaderStepKeeps == ReaderInv /\ [StreamNext]_streamVars => ReaderInv'
<1> SUFFICES ASSUME ReaderInv, [StreamNext]_streamVars
             PROVE  ReaderInv'
  OBVIOUS
<1>1. BuilderInv'
  BY BuilderStepKeeps DEF ReaderInv
<1>2. CASE OpenBits
  <2>1. PICK pos \in 0 .. Len(bits) - 1 : reader' = BitsAt(pos)
    BY <1>2 DEF OpenBits
  <2>2. bits \in Bits /\ pos \in 0 .. Len(bits)
    BY LenBits DEF ReaderInv, BuilderInv
  <2>3. Buffered(reader', bits)
    BY <2>1, <2>2, BufferedAt
  <2> QED  BY <1>1, <1>2, <2>3 DEF OpenBits, ReaderInv
<1>3. CASE Take
  BY <1>1, <1>3, TakeReads DEF ReaderInv
<1>4. CASE SkipToOne
  BY <1>1, <1>4, SkipReads DEF ReaderInv
<1>5. CASE phase' # "bits"
  BY <1>1, <1>5 DEF ReaderInv
<1>6. CASE \/ Push \/ Extend \/ Set \/ Overwrite \/ AppendWord \/ AppendOther \/ Turn \/ Pad
  <2>1. phase = "build" /\ phase' = phase
    BY <1>6 DEF Push, Extend, Set, Overwrite, AppendWord, AppendOther, Turn, Pad, Changes
  <2> QED  BY <1>5, <2>1
<1>7. CASE Build \/ DropReader \/ OpenOnes \/ NextOneOf \/ SkipOnes \/ SkipZerosOf
  <2>1. phase' # "bits"
    BY <1>7 DEF Build, DropReader, OpenOnes, NextOneOf, SkipOnes, SkipZerosOf, MoveOnes
  <2> QED  BY <1>5, <2>1
<1>8. CASE UNCHANGED streamVars
  BY <1>1, <1>8 DEF ReaderInv, streamVars
<1> QED  BY <1>2, <1>3, <1>4, <1>6, <1>7, <1>8 DEF StreamNext

LEMMA ReaderInductive == StreamSpec => []ReaderInv
<1>1. StreamInit => ReaderInv
  BY BuilderInitHolds DEF StreamInit, ReaderInv
<1>2. ReaderInv /\ [StreamNext]_streamVars => ReaderInv'
  BY ReaderStepKeeps
<1> QED  BY <1>1, <1>2, PTL DEF StreamSpec

LEMMA ReaderStepReads ==
    ASSUME ReaderInv, [StreamNext]_streamVars
    PROVE  [phase = "bits" /\ phase' = "bits" /\ reader'.pos > reader.pos =>
               taken' = OneBits(reader.pos, reader'.pos - reader.pos)]_streamVars
<1> SUFFICES ASSUME phase = "bits", phase' = "bits", reader'.pos > reader.pos
             PROVE  taken' = OneBits(reader.pos, reader'.pos - reader.pos)
  OBVIOUS
<1>1. CASE Take
  BY <1>1, TakeReads
<1>2. CASE SkipToOne
  BY <1>2, SkipReads
<1>3. ~ UNCHANGED streamVars
  <2> DEFINE pos == reader.pos
  <2>1. pos \in Nat
    BY LenBits DEF ReaderInv, BuilderInv, Buffered
  <2>2. ~ (pos > pos)
    <3> HIDE DEF pos
    <3> QED  BY <2>1
  <2> QED  BY <2>2 DEF streamVars
<1>4. ~ (\/ Push \/ Extend \/ Set \/ Overwrite \/ AppendWord \/ AppendOther \/ Turn \/ Pad
         \/ Build \/ DropReader \/ OpenBits \/ OpenOnes \/ NextOneOf \/ SkipOnes \/ SkipZerosOf)
  BY DEF Push, Extend, Set, Overwrite, AppendWord, AppendOther, Turn, Pad, Changes, Build,
         DropReader, OpenBits, OpenOnes, NextOneOf, SkipOnes, SkipZerosOf, MoveOnes
<1> QED  BY <1>1, <1>2, <1>3, <1>4 DEF StreamNext

\* What a bits_iterator returns is what it passes over, wherever in its words
\* it fills its buffer.
THEOREM ReaderReadsWhatItPasses == StreamSpec => ReadsWhatItPasses
<1>1. ReaderInv /\ [StreamNext]_streamVars =>
        [phase = "bits" /\ phase' = "bits" /\ reader'.pos > reader.pos =>
            taken' = OneBits(reader.pos, reader'.pos - reader.pos)]_streamVars
  BY ReaderStepReads
<1> QED  BY <1>1, ReaderInductive, PTL DEF StreamSpec, ReadsWhatItPasses

-----------------------------------------------------------------------------
(***************************************************************************)
(* Counting.  Of a set of numbers, those below a number are finitely many, *)
(* and one member has i of them below it, if any has.                      *)
(***************************************************************************)
Below(P, z) == {y \in P : y < z}

LEMMA BelowFinite ==
    ASSUME NEW P \in SUBSET Nat, NEW z \in Nat
    PROVE  /\ IsFiniteSet(Below(P, z))
           /\ Cardinality(Below(P, z)) \in Nat
<1>1. IsFiniteSet(0 .. z)
  BY FS_Interval
<1>2. Below(P, z) \in SUBSET (0 .. z)
  <2>1. \A y \in Below(P, z) : y \in 0 .. z
    BY DEF Below
  <2> QED  BY <2>1
<1>3. IsFiniteSet(Below(P, z))
  BY <1>1, <1>2, FS_Subset
<1> QED  BY <1>3, FS_CardinalityType

LEMMA BelowAscends ==
    ASSUME NEW P \in SUBSET Nat, NEW x \in Nat, NEW z \in Nat, x <= z
    PROVE  /\ Cardinality(Below(P, x)) <= Cardinality(Below(P, z))
           /\ \A y \in P : x <= y /\ y < z =>
                Cardinality(Below(P, x)) < Cardinality(Below(P, z))
<1> DEFINE A == Below(P, x)
           B == Below(P, z)
<1>1. IsFiniteSet(A) /\ IsFiniteSet(B) /\ Cardinality(A) \in Nat /\ Cardinality(B) \in Nat
  BY BelowFinite
<1>2. A \in SUBSET B
  <2>1. \A y \in P : y < x => y < z
    OBVIOUS
  <2> QED  BY <2>1 DEF Below
<1>3. ASSUME NEW y \in P, x <= y, y < z
      PROVE  y \in B /\ y \notin A
  BY <1>3 DEF Below
<1> HIDE DEF A, B
<1>4. Cardinality(A) <= Cardinality(B) /\ (Cardinality(A) = Cardinality(B) => A = B)
  BY <1>1, <1>2, FS_Subset
<1>5. ASSUME NEW y \in P, x <= y, y < z
      PROVE  Cardinality(A) < Cardinality(B)
  <2>1. A # B
    BY <1>3, <1>5
  <2> QED  BY <1>1, <1>4, <2>1
<1> QED  BY <1>4, <1>5 DEF A, B

LEMMA NthChosen ==
    ASSUME NEW S, NEW x \in S, NEW i,
           Cardinality({y \in S : y < x}) = i
    PROVE  Nth(S, i) \in S /\ Cardinality({y \in S : y < Nth(S, i)}) = i
BY DEF Nth

LEMMA NthIs ==
    ASSUME NEW P \in SUBSET Nat, NEW x \in P, NEW n,
           Cardinality(Below(P, x)) = n
    PROVE  Nth(P, n) = x
<1> DEFINE z == Nth(P, n)
<1>1. z \in P /\ Cardinality(Below(P, z)) = n
  <2>1. Cardinality({y \in P : y < x}) = n
    BY DEF Below
  <2>2. z \in P /\ Cardinality({y \in P : y < z}) = n
    BY <2>1, NthChosen
  <2> HIDE DEF z
  <2> QED  BY <2>2 DEF Below
<1> HIDE DEF z
<1>2. x \in Nat /\ z \in Nat /\ Cardinality(Below(P, x)) \in Nat /\ Cardinality(Below(P, z)) \in Nat
  BY <1>1, BelowFinite
<1>3. ~ (x < z)
  <2> SUFFICES ASSUME x < z PROVE FALSE
    OBVIOUS
  <2>1. Cardinality(Below(P, x)) < Cardinality(Below(P, z))
    BY <1>2, BelowAscends
  <2> QED  BY <1>1, <1>2, <2>1
<1>4. ~ (z < x)
  <2> SUFFICES ASSUME z < x PROVE FALSE
    OBVIOUS
  <2>1. Cardinality(Below(P, z)) < Cardinality(Below(P, x))
    BY <1>1, <1>2, BelowAscends
  <2> QED  BY <1>1, <1>2, <2>1
<1> QED  BY <1>2, <1>3, <1>4 DEF z

\* The lowest member that has, with itself, more than n is the n-th.
LEMMA NthExists ==
    ASSUME NEW m \in Nat, NEW S \in SUBSET (0 .. m), NEW n \in Nat, n < Cardinality(S)
    PROVE  \E x \in S : Cardinality(Below(S, x)) = n
<1>0. S \in SUBSET Nat /\ \A y \in S : y <= m
  OBVIOUS
<1> DEFINE more == {x \in S : Cardinality(Below(S, x + 1)) > n}
           x == Lowest(more)
<1>1. more # {}
  <2>1. S # {}
    BY FS_EmptySet
  <2>2. Highest(S) \in S /\ \A c \in S : c <= Highest(S)
    BY <2>1, HighestIs
  <2> DEFINE h == Highest(S)
  <2>3. Below(S, h + 1) = S
    <3>1. \A y \in S : y < h + 1
      <4> TAKE y \in S
      <4>1. y \in Nat /\ h \in Nat /\ y <= h
        BY <1>0, <2>2
      <4> HIDE DEF h
      <4> QED  BY <4>1
    <3> QED  BY <3>1 DEF Below
  <2> QED  BY <2>2, <2>3
<1>2. x \in more /\ \A c \in more : x <= c
  <2>1. more \in SUBSET Nat
    BY <1>0
  <2> HIDE DEF more
  <2> QED  BY <1>1, <2>1, LowestIs
<1> HIDE DEF x
<1>3. x \in S /\ x \in Nat /\ Cardinality(Below(S, x + 1)) > n
  BY <1>0, <1>2
<1> DEFINE A == Below(S, x)
           B == Below(S, x + 1)
<1>4. IsFiniteSet(A) /\ Cardinality(A) \in Nat /\ Cardinality(B) \in Nat
  BY <1>0, <1>3, BelowFinite
<1>5. B = A \cup {x} /\ x \notin A
  <2>1. \A y \in S : y < x + 1 <=> y < x \/ y = x
    BY <1>0, <1>3
  <2>2. ~ (x < x)
    BY <1>3
  <2>3. \A y : y \in B <=> y \in A \/ y = x
    BY <1>3, <2>1 DEF Below
  <2> QED  BY <2>2, <2>3 DEF Below
<1>6. Cardinality(B) = Cardinality(A) + 1
  <2> HIDE DEF A, B
  <2> QED  BY <1>4, <1>5, FS_AddElement
<1>7. Cardinality(A) <= n
  <2>1. CASE A = {}
    BY <2>1, FS_EmptySet
  <2>2. CASE A # {}
    <3> DEFINE h == Highest(A)
    <3>1. A \in SUBSET (0 .. m)
      BY DEF Below
    <3>2. h \in A /\ \A c \in A : c <= h
      <4> HIDE DEF A
      <4> QED  BY <2>2, <3>1, HighestIs
    <3> HIDE DEF h
    <3>3. h \in S /\ h \in Nat /\ h < x
      BY <1>0, <3>2 DEF Below
    <3>4. Below(S, h + 1) = A
      <4>1. \A y \in S : y < h + 1 <=> y < x
        <5> TAKE y \in S
        <5>1. y \in Nat /\ (y < x => y <= h)
          BY <1>0, <3>2 DEF Below
        <5> QED  BY <1>3, <3>3, <5>1
      <4> QED  BY <4>1 DEF Below
    <3>5. h \notin more
      <4> HIDE DEF more
      <4> QED  BY <1>2, <1>3, <3>3
    <3>6. ~ (Cardinality(A) > n)
      BY <3>3, <3>4, <3>5
    <3> QED  BY <1>4, <3>6
  <2> QED  BY <2>1, <2>2
<1>8. Cardinality(A) = n
  <2> HIDE DEF A, B
  <2> QED  BY <1>3, <1>4, <1>6, <1>7 DEF B
<1> QED  BY <1>3, <1>8

\* What is below two bounds that hide nothing from each other.
LEMMA SameBelow ==
    ASSUME NEW P, NEW S, NEW x, \A y : y \in P /\ y < x <=> y \in S /\ y < x
    PROVE  Below(P, x) = Below(S, x)
BY DEF Below

-----------------------------------------------------------------------------
(***************************************************************************)
(* The words over which unary_iterator goes, from the one it is in to the  *)
(* last, and the places they stand for.                                    *)
(***************************************************************************)
Places(w, first, last, P) ==
    /\ P \in SUBSET Nat
    /\ \A y \in P : WordOf(y) \in first .. last
    /\ \A i \in first .. last :
        /\ w[i] \in SUBSET Word
        /\ \A b \in Word : b \in w[i] <=> Start(i) + b \in P

LEMMA PlacesFacts ==
    ASSUME NEW w, NEW first \in Nat, NEW last, NEW P, Places(w, first, last, P)
    PROVE  /\ P \in SUBSET Nat
           /\ \A y \in P : /\ y \in Nat /\ WordOf(y) \in Nat /\ InWord(y) \in Word
                           /\ y = Start(WordOf(y)) + InWord(y)
                           /\ WordOf(y) \in first .. last /\ InWord(y) \in w[WordOf(y)]
           /\ \A i \in first .. last :
                /\ i \in Nat
                /\ w[i] \in SUBSET Word /\ w[i] \in SUBSET Nat
                /\ \A b \in Word : b \in w[i] <=> Start(i) + b \in P
<1>1. P \in SUBSET Nat
  BY DEF Places
<1>2. ASSUME NEW y \in P
      PROVE  /\ y \in Nat /\ WordOf(y) \in Nat /\ InWord(y) \in Word
             /\ y = Start(WordOf(y)) + InWord(y)
             /\ WordOf(y) \in first .. last /\ InWord(y) \in w[WordOf(y)]
  <2>1. y \in Nat
    BY <1>1
  <2>2. WordOf(y) \in Nat /\ InWord(y) \in Word /\ y = Start(WordOf(y)) + InWord(y)
    BY <2>1, Position
  <2>3. WordOf(y) \in first .. last
    BY DEF Places
  <2> DEFINE i == WordOf(y)
             b == InWord(y)
  <2> HIDE DEF i, b
  <2>4. i \in first .. last /\ b \in Word /\ Start(i) + b \in P
    BY <2>2, <2>3 DEF i, b
  <2>5. b \in w[i]
    BY <2>4 DEF Places
  <2> QED  BY <2>1, <2>2, <2>3, <2>5 DEF i, b
<1>3. ASSUME NEW i \in first .. last
      PROVE  /\ i \in Nat
             /\ w[i] \in SUBSET Word /\ w[i] \in SUBSET Nat
             /\ \A b \in Word : b \in w[i] <=> Start(i) + b \in P
  <2>1. w[i] \in SUBSET Word /\ \A b \in Word : b \in w[i] <=> Start(i) + b \in P
    BY DEF Places
  <2>2. i \in Nat
    OBVIOUS
  <2> QED  BY <2>1, <2>2, WordIsSet
<1> QED  BY <1>1, <1>2, <1>3

\* The pairs in front of a word are the places below its first.
LEMMA PairsAre ==
    ASSUME NEW first \in Nat, NEW last \in Nat, NEW w, DOMAIN w = first .. last,
           NEW P, Places(w, first, last, P), NEW i \in first .. last
    PROVE  Cardinality({one \in (DOMAIN w) \X Word : one[1] < i /\ one[2] \in w[one[1]]})
               = Cardinality(Below(P, Start(i)))
<1> DEFINE A == {one \in (DOMAIN w) \X Word : one[1] < i /\ one[2] \in w[one[1]]}
           B == Below(P, Start(i))
           g == [y \in B |-> <<WordOf(y), InWord(y)>>]
<1>1. i \in Nat /\ Start(i) \in Nat
  BY StartIs
<1>2. IsFiniteSet(B)
  BY <1>1, PlacesFacts, BelowFinite
<1>3. ASSUME NEW y \in B
      PROVE  g[y] \in A
  <2>1. y \in P /\ y < Start(i)
    BY DEF Below
  <2> DEFINE j == WordOf(y)
             b == InWord(y)
  <2>2. y \in Nat /\ j \in Nat /\ b \in Word /\ y = Start(j) + b /\ j \in first .. last /\ b \in w[j]
    BY <2>1, PlacesFacts
  <2> HIDE DEF j, b
  <2>3. j < i
    <3>1. ~ (i <= j)
      <4> SUFFICES ASSUME i <= j PROVE FALSE
        OBVIOUS
      <4>1. Start(i) <= Start(j) /\ Start(j) \in Nat /\ b \in Nat
        BY <1>1, <2>2, StartMonotone, StartIs, WordIsSet
      <4> DEFINE s == Start(i)
                 u == Start(j)
      <4>2. s <= u /\ u \in Nat /\ s \in Nat /\ b \in Nat /\ y = u + b /\ y < s
        BY <1>1, <2>1, <2>2, <4>1
      <4> HIDE DEF s, u
      <4> QED  BY <4>2
    <3> QED  BY <1>1, <2>2, <3>1
  <2>4. <<j, b>> \in A
    BY <2>2, <2>3
  <2> QED  BY <2>4 DEF j, b
<1>4. ASSUME NEW y \in B, NEW z \in B, g[y] = g[z]
      PROVE  y = z
  <2>1. y = Start(WordOf(y)) + InWord(y) /\ z = Start(WordOf(z)) + InWord(z)
    BY PlacesFacts DEF Below
  <2>2. WordOf(y) = WordOf(z) /\ InWord(y) = InWord(z)
    BY <1>4
  <2> QED  BY <2>1, <2>2
<1>5. ASSUME NEW one \in A
      PROVE  \E y \in B : g[y] = one
  <2> DEFINE j == one[1]
             b == one[2]
             y == Start(j) + b
  <2>1. j \in first .. last /\ b \in Word /\ j < i /\ b \in w[j] /\ one = <<j, b>> /\ j \in Nat
    OBVIOUS
  <2> HIDE DEF j, b
  <2>2. y \in P /\ y \in Nat /\ WordOf(y) = j /\ InWord(y) = b
    BY <2>1, PlacesFacts, PositionOf
  <2>3. y < Start(i)
    <3>1. Start(j) + WordBits <= Start(i) /\ Start(j) \in Nat
      BY <1>1, <2>1, StartAscends, StartIs
    <3>2. b \in Nat /\ b < WordBits /\ WordBits \in Nat
      BY <2>1, Width DEF Word
    <3> DEFINE s == Start(i)
               u == Start(j)
    <3>3. u + WordBits <= s /\ u \in Nat /\ s \in Nat /\ y = u + b
      BY <1>1, <3>1
    <3> HIDE DEF s, u, y
    <3>4. y < s
      BY <3>2, <3>3
    <3> QED  BY <3>4 DEF s
  <2> HIDE DEF y
  <2>4. y \in B
    BY <2>2, <2>3 DEF Below
  <2>5. g[y] = one
    BY <2>1, <2>2, <2>4
  <2> QED  BY <2>4, <2>5
<1>6. g \in Bijection(B, A)
  <2>1. g \in [B -> A]
    BY <1>3
  <2> HIDE DEF g, A, B
  <2> QED  BY <1>4, <1>5, <2>1 DEF Bijection, Injection, Surjection, IsInjective
<1>7. ExistsBijection(B, A)
  <2> HIDE DEF g, A, B
  <2> QED  BY <1>6 DEF ExistsBijection
<1> HIDE DEF A, B
<1>8. Cardinality(A) = Cardinality(B)
  BY <1>2, <1>7, FS_Bijection
<1> QED  BY <1>8 DEF A, B

\* The ones of a word below a bit are the places between its first and that.
LEMMA PlacesInWord ==
    ASSUME NEW first \in Nat, NEW last \in Nat, NEW w,
           NEW P, Places(w, first, last, P), NEW i \in first .. last, NEW n \in 0 .. WordBits
    PROVE  /\ Cardinality(Below(P, Start(i) + n))
                = Cardinality(Below(P, Start(i))) + Cardinality(Below(w[i], n))
           /\ IsFiniteSet(Below(w[i], n)) /\ Cardinality(Below(w[i], n)) \in Nat
<1> DEFINE s == Start(i)
           A == Below(P, s)
           B == Below(P, s + n)
           C == Below(w[i], n)
           D == {y \in P : s <= y /\ y < s + n}
           g == [b \in C |-> s + b]
<1>1. i \in Nat /\ s \in Nat /\ n \in Nat /\ n <= WordBits /\ s + n \in Nat
  BY Width, StartIs
<1>2. P \in SUBSET Nat /\ w[i] \in SUBSET Nat /\ w[i] \in SUBSET Word
  BY PlacesFacts
<1>3. IsFiniteSet(A) /\ IsFiniteSet(B) /\ IsFiniteSet(C)
      /\ Cardinality(A) \in Nat /\ Cardinality(B) \in Nat /\ Cardinality(C) \in Nat
  <2> HIDE DEF s
  <2> QED  BY <1>1, <1>2, BelowFinite
<1>4. B = A \cup D /\ A \cap D = {}
  <2> HIDE DEF s
  <2>1. \A y \in P : /\ y < s + n <=> y < s \/ (s <= y /\ y < s + n)
                     /\ ~ (y < s /\ s <= y)
    <3> TAKE y \in P
    <3>1. y \in Nat
      BY <1>2
    <3> QED  BY <1>1, <3>1
  <2> QED  BY <2>1 DEF Below
<1>5. ASSUME NEW b \in C
      PROVE  g[b] \in D
  <2>1. b \in w[i] /\ b < n /\ b \in Word /\ b \in Nat
    BY <1>2 DEF Below
  <2>2. s + b \in P
    BY <2>1, PlacesFacts
  <2>3. s <= s + b /\ s + b < s + n
    <3> HIDE DEF s
    <3> QED  BY <1>1, <2>1
  <2> QED  BY <2>2, <2>3
<1>6. ASSUME NEW b \in C, NEW c \in C, g[b] = g[c]
      PROVE  b = c
  <2>1. b \in Nat /\ c \in Nat
    BY <1>2 DEF Below
  <2>2. s + b = s + c
    BY <1>6
  <2> HIDE DEF s
  <2> QED  BY <1>1, <2>1, <2>2
<1>7. ASSUME NEW y \in D
      PROVE  \E b \in C : g[b] = y
  <2>1. y \in P /\ y \in Nat /\ s <= y /\ y < s + n
    BY <1>2
  <2> DEFINE b == y - s
  <2>2. b \in Nat /\ b < n /\ y = s + b /\ b \in 0 .. WordBits - 1
    <3> HIDE DEF s
    <3> QED  BY <1>1, <2>1, Width
  <2> HIDE DEF b
  <2>3. b \in w[i]
    BY <2>1, <2>2, PlacesFacts DEF Word
  <2>4. b \in C
    BY <2>2, <2>3 DEF Below
  <2> QED  BY <2>2, <2>4
<1>8. g \in Bijection(C, D)
  <2>1. g \in [C -> D]
    BY <1>5
  <2> HIDE DEF g, C, D
  <2> QED  BY <1>6, <1>7, <2>1 DEF Bijection, Injection, Surjection, IsInjective
<1>9. IsFiniteSet(D) /\ Cardinality(D) = Cardinality(C)
  <2> HIDE DEF g, C, D
  <2>1. ExistsBijection(C, D)
    BY <1>8 DEF ExistsBijection
  <2> QED  BY <1>3, <2>1, FS_Bijection
<1> HIDE DEF A, B, C, D
<1>10. Cardinality(B) = Cardinality(A) + Cardinality(D) - Cardinality(A \cap D)
  BY <1>3, <1>4, <1>9, FS_Union
<1>11. Cardinality(A \cap D) = 0
  BY <1>4, FS_EmptySet
<1>12. Cardinality(B) = Cardinality(A) + Cardinality(C)
  BY <1>3, <1>9, <1>10, <1>11
<1> QED  BY <1>3, <1>12 DEF A, B, C

\* The n-th place is found in its word, as the one that has as many below it
\* there as are left of n.
LEMMA InWhichWordIs ==
    ASSUME NEW first \in Nat, NEW last \in Nat, NEW w, DOMAIN w = first .. last,
           NEW P, Places(w, first, last, P),
           NEW x \in P, NEW n \in Nat, Cardinality(Below(P, x)) = n
    PROVE  LET found == InWhichWord(w, n)
           IN  /\ found.word = WordOf(x)
               /\ SelectInWord(w[found.word], found.nth) = InWord(x)
<1> DEFINE before(i) == Cardinality({one \in (DOMAIN w) \X Word : one[1] < i /\ one[2] \in w[one[1]]})
           enough == {i \in DOMAIN w : before(i) + PopCount(w[i]) > n}
           found == Lowest(enough)
           q == WordOf(x)
           b == InWord(x)
           upTo(i) == Cardinality(Below(P, Start(i)))
<1>1. InWhichWord(w, n) = [word |-> found, nth |-> n - before(found)]
  BY DEF InWhichWord
<1>2. /\ x \in Nat /\ q \in Nat /\ b \in Word /\ x = Start(q) + b
      /\ q \in first .. last /\ b \in w[q] /\ P \in SUBSET Nat
  BY PlacesFacts
<1>3. ASSUME NEW i \in first .. last
      PROVE  /\ i \in Nat /\ Start(i) \in Nat /\ upTo(i) \in Nat
             /\ before(i) = upTo(i)
             /\ before(i) + PopCount(w[i]) = upTo(i + 1)
  <2>1. i \in Nat /\ Start(i) \in Nat /\ Start(i + 1) = Start(i) + WordBits /\ w[i] \in SUBSET Word
    BY StartIs, StartNext, PlacesFacts
  <2>2. before(i) = upTo(i)
    BY PairsAre
  <2>3. upTo(i) \in Nat
    BY <1>2, <2>1, BelowFinite
  <2>4. Below(w[i], WordBits) = w[i]
    <3>1. \A c \in w[i] : c < WordBits
      BY <2>1, Width DEF Word
    <3> QED  BY <3>1 DEF Below
  <2>5. WordBits \in 0 .. WordBits
    BY Width
  <2>6. Cardinality(Below(P, Start(i) + WordBits)) = Cardinality(Below(P, Start(i))) + Cardinality(w[i])
    BY <2>4, <2>5, PlacesInWord
  <2> QED  BY <2>1, <2>2, <2>3, <2>6 DEF PopCount
<1> HIDE DEF before, upTo
<1>4. q \in enough
  <2> DEFINE s == Start(q)
             u == Start(q + 1)
  <2>0. b \in Nat /\ b < WordBits /\ WordBits \in Nat
    <3> HIDE DEF b
    <3> QED  BY <1>2, Width DEF Word
  <2>1. s \in Nat /\ u = s + WordBits /\ x = s + b
    <3> HIDE DEF q, b
    <3> QED  BY <1>2, StartIs, StartNext
  <2> HIDE DEF s, u, q, b
  <2>2. x \in Nat /\ u \in Nat /\ x < u /\ x <= x /\ x <= u
    BY <2>0, <2>1
  <2>3. n < Cardinality(Below(P, u))
    BY <1>2, <2>2, BelowAscends
  <2>4. upTo(q + 1) > n
    <3>1. Cardinality(Below(P, u)) \in Nat
      BY <1>2, <2>2, BelowFinite
    <3> QED  BY <2>3, <3>1 DEF upTo, u
  <2> QED  BY <1>2, <1>3, <2>4
<1>5. ASSUME NEW i \in enough
      PROVE  q <= i
  <2>1. i \in first .. last /\ upTo(i + 1) > n
    BY <1>3
  <2> SUFFICES ASSUME ~ (q <= i)
               PROVE  FALSE
    OBVIOUS
  <2>2. i \in Nat /\ i + 1 \in Nat /\ i + 1 <= q
    BY <1>2, <1>3, <2>1
  <2>3. Start(i + 1) <= Start(q) /\ Start(i + 1) \in Nat /\ Start(q) \in Nat /\ b \in Nat
    BY <1>2, <2>2, StartMonotone, StartIs, WordIsSet
  <2> DEFINE s == Start(q)
             u == Start(i + 1)
  <2>4. u <= x
    <3>1. u <= s /\ u \in Nat /\ s \in Nat /\ x = s + b
      BY <1>2, <2>3
    <3> HIDE DEF s, u, q, b
    <3> QED  BY <2>3, <3>1
  <2>5. Cardinality(Below(P, u)) <= n /\ Cardinality(Below(P, u)) \in Nat
    BY <1>2, <2>3, <2>4, BelowAscends, BelowFinite
  <2> QED  BY <2>1, <2>5 DEF upTo
<1>6. found \in enough /\ \A i \in enough : found <= i
  <2>1. enough \in SUBSET Nat
    BY <1>3
  <2>2. enough # {}
    BY <1>4
  <2> HIDE DEF enough
  <2> QED  BY <2>1, <2>2, LowestIs
<1> HIDE DEF found
<1>7. found = q
  <2>1. found \in Nat /\ q <= found /\ found <= q
    BY <1>3, <1>4, <1>5, <1>6
  <2> QED  BY <1>2, <2>1
<1>8. SelectInWord(w[q], n - before(q)) = b
  <2>1. b \in Nat /\ b \in 0 .. WordBits /\ w[q] \in SUBSET Nat
    BY <1>2, Width, WordIsSet, PlacesFacts DEF Word
  <2> DEFINE c == Cardinality(Below(w[q], b))
             all == Cardinality(Below(P, Start(q) + b))
  <2>2. all = upTo(q) + c /\ c \in Nat
    <3> HIDE DEF q, b
    <3>1. /\ Cardinality(Below(P, Start(q) + b))
                = Cardinality(Below(P, Start(q))) + Cardinality(Below(w[q], b))
          /\ Cardinality(Below(w[q], b)) \in Nat
      BY <1>2, <2>1, PlacesInWord
    <3> QED  BY <3>1 DEF upTo
  <2>3. all = n
    BY <1>2
  <2>4. before(q) = upTo(q) /\ upTo(q) \in Nat
    BY <1>2, <1>3
  <2> HIDE DEF c, all
  <2>5. n - before(q) = c
    BY <2>2, <2>3, <2>4
  <2>6. Nth(w[q], c) = b
    <3> HIDE DEF q, b
    <3> QED  BY <1>2, <2>1, NthIs DEF c
  <2> QED  BY <2>5, <2>6 DEF SelectInWord
<1> HIDE DEF q, b
<1> QED  BY <1>1, <1>7, <1>8 DEF q, b

-----------------------------------------------------------------------------
(***************************************************************************)
(* A unary_iterator.  Its buffer is the word it is in without what is      *)
(* consumed, and no more is consumed than that word.                       *)
(***************************************************************************)
StandsAt(e, en, seq) ==
    /\ en = [at |-> en.at, unread |-> en.unread]
    /\ en.at \in Nat /\ en.unread \in Nat
    /\ en.at < Len(seq)
    /\ en.at <= en.unread
    /\ en.unread <= Start(WordOf(en.at) + 1)
    /\ e.at = en.at
    /\ e.buf \in SUBSET Word
    /\ \A b \in Word :
        b \in e.buf <=> /\ Start(WordOf(en.at)) + b >= en.unread
                        /\ IsOne(seq, Start(WordOf(en.at)) + b)

\* What is in the word after a position.
LEMMA BehindMask ==
    ASSUME NEW pos \in Nat, NEW b \in Word
    PROVE  b \notin LowMask(InWord(pos)) <=> Start(WordOf(pos)) + b >= pos
<1> DEFINE s == Start(WordOf(pos))
           r == InWord(pos)
<1>1. r \in Word /\ pos = s + r /\ s \in Nat
  BY Position, StartIs
<1> HIDE DEF s, r
<1>2. r \in Nat /\ b \in Nat
  BY <1>1, WordIsSet
<1>3. b \in LowMask(r) <=> b < r
  BY <1>2 DEF LowMask
<1>4. s + b >= pos <=> ~ (b < r)
  BY <1>1, <1>2
<1> QED  BY <1>3, <1>4 DEF s, r

\* A place is before the end of its word.
LEMMA BeforeNextWord ==
    ASSUME NEW pos \in Nat
    PROVE  /\ Start(WordOf(pos)) \in Nat /\ Start(WordOf(pos) + 1) \in Nat
           /\ Start(WordOf(pos)) <= pos /\ pos < Start(WordOf(pos) + 1)
           /\ WordOf(pos) \in Nat
<1> DEFINE q == WordOf(pos)
           s == Start(q)
           u == Start(q + 1)
           r == InWord(pos)
<1>1. q \in Nat /\ r \in Word /\ pos = s + r
  BY Position
<1>2. s \in Nat /\ u = s + WordBits /\ r \in Nat /\ r < WordBits /\ WordBits \in Nat
  <2> HIDE DEF q, r
  <2> QED  BY <1>1, StartIs, StartNext, Width DEF Word
<1> HIDE DEF q, s, u, r
<1>3. u \in Nat /\ s <= pos /\ pos < u
  BY <1>1, <1>2
<1> QED  BY <1>1, <1>2, <1>3 DEF q, s, u

\* Where it stands after it has moved to a place of some word of the vector,
\* of which that word is the buffer from the place on.
LEMMA MovedStands ==
    ASSUME NEW x, NEW seq \in Bits, Reads(x, seq), NEW pos \in Nat, pos < Len(seq),
           NEW buf, buf \in SUBSET Word,
           \A b \in Word : b \in buf <=> /\ b \in WordAt(x, WordOf(pos))
                                         /\ b \notin LowMask(InWord(pos))
    PROVE  StandsAt([at |-> pos, buf |-> buf], EnumeratorAt(pos), seq)
<1> DEFINE q == WordOf(pos)
<1>1. q \in Nat /\ q \in 0 .. Len(x.words) - 1 /\ pos <= Start(q + 1)
  <2>1. Len(x.words) = WordsFor(Len(seq)) /\ Len(seq) \in Nat
    BY ReadsFacts
  <2>2. q \in 0 .. Len(x.words) - 1
    BY <2>1, InsideWords
  <2>3. Start(q + 1) \in Nat /\ pos < Start(q + 1) /\ q \in Nat
    BY BeforeNextWord
  <2> HIDE DEF q
  <2> QED  BY <2>2, <2>3
<1>2. ASSUME NEW b \in Word
      PROVE  b \in buf <=> Start(q) + b >= pos /\ IsOne(seq, Start(q) + b)
  <2>1. b \in WordAt(x, q) <=> IsOne(seq, Start(q) + b)
    <3> HIDE DEF q
    <3>1. q < Len(x.words)
      BY <1>1, ReadsFacts
    <3> QED  BY <1>1, <3>1, EveryBit
  <2>2. b \notin LowMask(InWord(pos)) <=> Start(q) + b >= pos
    BY BehindMask
  <2> QED  BY <2>1, <2>2
<1>3. EnumeratorAt(pos).at = pos /\ EnumeratorAt(pos).unread = pos
      /\ EnumeratorAt(pos) = [at |-> pos, unread |-> pos]
  BY DEF EnumeratorAt
<1> QED  BY <1>1, <1>2, <1>3 DEF StandsAt

LEMMA UnaryAtIs ==
    ASSUME NEW x, NEW seq \in Bits, Reads(x, seq), NEW pos \in Nat, pos < Len(seq)
    PROVE  StandsAt(UnaryAt(x, pos), EnumeratorAt(pos), seq)
<1> DEFINE buf == WordAt(x, WordOf(pos)) \ LowMask(InWord(pos))
<1>1. UnaryAt(x, pos) = [at |-> pos, buf |-> buf]
  BY DEF UnaryAt
<1>2. WordAt(x, WordOf(pos)) \in SUBSET Word
  <2>1. WordOf(pos) \in 0 .. Len(x.words) - 1
    BY InsideWords, ReadsFacts
  <2> QED  BY <2>1, ReadsFacts
<1>3. buf \in SUBSET Word
  BY <1>2
<1> QED  BY <1>1, <1>3, MovedStands

\* The buffer and the words behind it are the ones that are not consumed.
Buffers(x, e) ==
    [i \in WordOf(e.at) .. Len(x.words) - 1 |->
        IF i = WordOf(e.at) THEN e.buf ELSE WordAt(x, i)]

OnesAhead(en, seq) == {y \in Nat : y >= en.unread /\ IsOne(seq, y)}

LEMMA StandsFacts ==
    ASSUME NEW x, NEW seq \in Bits, Reads(x, seq), NEW e, NEW en, StandsAt(e, en, seq)
    PROVE  /\ e.at = en.at /\ en.at \in Nat /\ en.unread \in Nat /\ en.at <= en.unread
           /\ en.at < Len(seq) /\ Len(seq) \in Nat
           /\ WordOf(en.at) \in Nat /\ WordOf(en.at) \in 0 .. Len(x.words) - 1
           /\ Len(x.words) \in Nat /\ Len(x.words) - 1 \in Nat
           /\ Start(WordOf(en.at)) \in Nat /\ Start(WordOf(en.at)) <= en.at
           /\ Len(seq) <= Start(Len(x.words)) /\ Start(Len(x.words)) \in Nat
<1>1. /\ e.at = en.at /\ en.at \in Nat /\ en.unread \in Nat /\ en.at <= en.unread
      /\ en.at < Len(seq)
  BY DEF StandsAt
<1>2. Len(x.words) = WordsFor(Len(seq)) /\ Len(x.words) \in Nat /\ Len(seq) \in Nat
  BY ReadsFacts
<1>3. WordOf(en.at) \in 0 .. Len(x.words) - 1
  BY <1>1, <1>2, InsideWords
<1>4. Start(WordOf(en.at)) \in Nat /\ Start(WordOf(en.at)) <= en.at /\ WordOf(en.at) \in Nat
  BY <1>1, BeforeNextWord
<1>5. Len(seq) <= Start(Len(x.words)) /\ Start(Len(x.words)) \in Nat
  BY <1>2, WordsForBounds, StartIs
<1>6. Len(x.words) - 1 \in Nat
  BY <1>2, <1>3
<1> QED  BY <1>1, <1>2, <1>3, <1>4, <1>5, <1>6

\* A word behind the one it is in has nothing that is consumed.
LEMMA BehindBuffer ==
    ASSUME NEW x, NEW seq \in Bits, Reads(x, seq), NEW e, NEW en, StandsAt(e, en, seq),
           NEW i \in WordOf(en.at) .. Len(x.words) - 1, i # WordOf(en.at), NEW b \in Word
    PROVE  /\ i \in Nat /\ WordAt(x, i) \in SUBSET Word
           /\ Start(i) + b \in Nat /\ Start(i) + b >= en.unread /\ Start(i) + b >= en.at
           /\ b \in WordAt(x, i) <=> IsOne(seq, Start(i) + b)
<1> DEFINE first == WordOf(en.at)
           s == Start(i)
           u == Start(first + 1)
<1>1. first \in Nat /\ Len(x.words) \in Nat /\ en.at \in Nat /\ en.unread \in Nat
      /\ en.at <= en.unread /\ en.unread <= u
  BY StandsFacts DEF StandsAt
<1>2. i \in Nat /\ first + 1 \in Nat /\ first + 1 <= i /\ i < Len(x.words) /\ i \in 0 .. Len(x.words) - 1
  <2> HIDE DEF first, u
  <2> QED  BY <1>1 DEF first
<1>3. u <= s /\ u \in Nat /\ s \in Nat /\ b \in Nat
  <2> HIDE DEF first
  <2> QED  BY <1>2, StartMonotone, StartIs, WordIsSet
<1> HIDE DEF s, u, first
<1>4. s + b \in Nat /\ s + b >= en.unread /\ s + b >= en.at
  BY <1>1, <1>3
<1>5. b \in WordAt(x, i) <=> IsOne(seq, Start(i) + b)
  BY <1>2, EveryBit
<1>6. WordAt(x, i) \in SUBSET Word
  BY <1>2, ReadsFacts
<1> QED  BY <1>2, <1>4, <1>5, <1>6 DEF s

LEMMA BuffersAre ==
    ASSUME NEW x, NEW seq \in Bits, Reads(x, seq), NEW e, NEW en, StandsAt(e, en, seq)
    PROVE  Places(Buffers(x, e), WordOf(en.at), Len(x.words) - 1, OnesAhead(en, seq))
<1> DEFINE first == WordOf(en.at)
           last == Len(x.words) - 1
           w == Buffers(x, e)
           P == OnesAhead(en, seq)
<1>1. /\ e.at = en.at /\ en.at \in Nat /\ en.unread \in Nat /\ en.at <= en.unread
      /\ first \in Nat /\ last \in Nat /\ first \in 0 .. last
      /\ Start(first) \in Nat /\ Start(first) <= en.at
      /\ Len(x.words) = WordsFor(Len(seq)) /\ Len(seq) \in Nat
  BY StandsFacts, ReadsFacts
<1>2. P \in SUBSET Nat
  BY DEF OnesAhead
<1>3. ASSUME NEW y \in P
      PROVE  WordOf(y) \in first .. last
  <2>1. y \in Nat /\ y >= en.unread /\ y < Len(seq)
    BY DEF OnesAhead, IsOne
  <2>2. WordOf(y) \in 0 .. last
    BY <1>1, <2>1, InsideWords
  <2>3. y < Start(WordOf(y) + 1) /\ Start(WordOf(y) + 1) \in Nat /\ WordOf(y) \in Nat
    BY <2>1, BeforeNextWord
  <2> DEFINE q == WordOf(y)
  <2>4. ~ (q < first)
    <3> SUFFICES ASSUME q < first PROVE FALSE
      OBVIOUS
    <3> DEFINE s == Start(first)
               u == Start(q + 1)
    <3>1. u <= s
      <4> HIDE DEF q, first
      <4>1. q + 1 \in Nat /\ q + 1 <= first
        BY <1>1, <2>3 DEF q
      <4> QED  BY <1>1, <4>1, StartMonotone
    <3>2. s \in Nat /\ s <= en.at /\ y < u /\ u \in Nat
      BY <1>1, <2>3
    <3> HIDE DEF s, u
    <3> QED  BY <1>1, <2>1, <3>1, <3>2
  <2> HIDE DEF q, first
  <2>5. q \in first .. last
    BY <1>1, <2>2, <2>3, <2>4 DEF q
  <2> QED  BY <2>5 DEF q
<1>4. ASSUME NEW i \in first .. last
      PROVE  /\ w[i] \in SUBSET Word
             /\ \A b \in Word : b \in w[i] <=> Start(i) + b \in P
  <2>1. w[i] = IF i = first THEN e.buf ELSE WordAt(x, i)
    BY <1>1 DEF Buffers
  <2>2. CASE i = first
    <3>1. e.buf \in SUBSET Word
          /\ \A b \in Word : b \in e.buf <=> /\ Start(first) + b >= en.unread
                                             /\ IsOne(seq, Start(first) + b)
      BY DEF StandsAt
    <3>2. \A b \in Word : Start(first) + b \in Nat
      BY <1>1, WordIsSet
    <3> HIDE DEF w, first
    <3> QED  BY <2>1, <2>2, <3>1, <3>2 DEF OnesAhead
  <2>3. CASE i # first
    <3>1. \A b \in Word : /\ WordAt(x, i) \in SUBSET Word
                          /\ Start(i) + b \in Nat /\ Start(i) + b >= en.unread
                          /\ b \in WordAt(x, i) <=> IsOne(seq, Start(i) + b)
      BY <2>3, BehindBuffer
    <3>2. WordAt(x, i) \in SUBSET Word
      <4>1. 0 \in Word
        BY Width DEF Word
      <4> QED  BY <3>1, <4>1
    <3> HIDE DEF w, first
    <3> QED  BY <2>1, <2>3, <3>1, <3>2 DEF OnesAhead
  <2> QED  BY <2>2, <2>3
<1> QED  BY <1>2, <1>3, <1>4 DEF Places

LEMMA UnaryNextIs ==
    ASSUME NEW x, NEW seq \in Bits, Reads(x, seq), NEW e, NEW en, StandsAt(e, en, seq),
           NEW one \in OnesAhead(en, seq), \A y \in OnesAhead(en, seq) : one <= y
    PROVE  StandsAt(UnaryNext(x, e), [at |-> one, unread |-> one + 1], seq)
<1> DEFINE first == WordOf(en.at)
           last == Len(x.words) - 1
           w == Buffers(x, e)
           P == OnesAhead(en, seq)
           buf(i) == IF i = WordOf(e.at) THEN e.buf ELSE WordAt(x, i)
           some == {i \in WordOf(e.at) .. last : buf(i) # {}}
           found == Lowest(some)
           bit == Lowest(buf(found))
           q == WordOf(one)
           b0 == InWord(one)
           next == UnaryNext(x, e)
<1>1. /\ e.at = en.at /\ en.at \in Nat /\ first \in Nat /\ last \in Nat
      /\ Places(w, first, last, P) /\ Len(seq) \in Nat /\ en.unread \in Nat
  BY StandsFacts, BuffersAre
<1>2. next = [at |-> found * WordBits + bit, buf |-> buf(found) \ {bit}]
  BY DEF UnaryNext
<1>3. \A i \in first .. last : buf(i) = w[i]
  BY <1>1 DEF Buffers
<1>4. /\ one \in Nat /\ q \in Nat /\ b0 \in Word /\ one = Start(q) + b0
      /\ q \in first .. last /\ b0 \in w[q] /\ w[q] \in SUBSET Word /\ w[q] \in SUBSET Nat
      /\ one >= en.unread /\ IsOne(seq, one)
  <2>1. one \in P
    OBVIOUS
  <2>2. one >= en.unread /\ IsOne(seq, one)
    BY DEF OnesAhead
  <2> HIDE DEF w, P, first, last
  <2>3. /\ one \in Nat /\ q \in Nat /\ b0 \in Word /\ one = Start(q) + b0
        /\ q \in first .. last /\ b0 \in w[q]
    BY <1>1, <2>1, PlacesFacts
  <2> HIDE DEF q, b0
  <2>4. w[q] \in SUBSET Word /\ w[q] \in SUBSET Nat
    BY <1>1, <2>3, PlacesFacts
  <2> QED  BY <2>2, <2>3, <2>4
<1>5. \A i \in first .. last : \A b \in w[i] :
          /\ i \in Nat /\ b \in Word /\ Start(i) + b \in P
          /\ one <= Start(i) + b
  <2> TAKE i \in first .. last
  <2> TAKE b \in w[i]
  <2>1. i \in Nat /\ b \in Word /\ Start(i) + b \in P
    <3> HIDE DEF w, P, first, last
    <3> QED  BY <1>1, PlacesFacts
  <2> QED  BY <2>1
<1> HIDE DEF next, w, P, buf
<1>6. found = q
  <2>1. some \in SUBSET Nat /\ q \in some
    BY <1>1, <1>3, <1>4
  <2>2. found \in some /\ found <= q
    <3> HIDE DEF some
    <3> QED  BY <2>1, LowestIs
  <2> HIDE DEF found
  <2>3. found \in first .. last /\ found \in Nat /\ w[found] # {}
    BY <1>1, <1>3, <2>2
  <2>4. PICK b \in w[found] : TRUE
    BY <2>3
  <2>5. b \in Word /\ one <= Start(found) + b
    BY <1>5, <2>3, <2>4
  <2>6. ~ (found < q)
    <3> SUFFICES ASSUME found < q PROVE FALSE
      OBVIOUS
    <3> DEFINE s == Start(found)
               u == Start(q)
    <3>1. s + WordBits <= u /\ s \in Nat /\ u \in Nat /\ one = u + b0 /\ one <= s + b
      <4> HIDE DEF q, b0
      <4> QED  BY <1>4, <2>3, <2>5, StartAscends, StartIs
    <3>2. b \in Nat /\ b < WordBits /\ b0 \in Nat /\ WordBits \in Nat
      <4> HIDE DEF b0
      <4> QED  BY <1>4, <2>5, Width DEF Word
    <3> HIDE DEF s, u, b0
    <3> QED  BY <3>1, <3>2
  <2> QED  BY <1>4, <2>2, <2>3, <2>6
<1>7. buf(found) = w[q]
  BY <1>3, <1>4, <1>6
<1> HIDE DEF found
<1>8. bit = b0
  <2>1. bit \in w[q] /\ bit <= b0
    <3> HIDE DEF q, b0
    <3> QED  BY <1>4, <1>7, LowestIs
  <2> HIDE DEF bit
  <2>2. bit \in Word /\ one <= Start(q) + bit
    BY <1>4, <1>5, <2>1
  <2> DEFINE u == Start(q)
  <2>3. u \in Nat /\ one = u + b0 /\ one <= u + bit /\ bit \in Nat /\ b0 \in Nat
    <3> HIDE DEF q, b0
    <3> QED  BY <1>4, <2>2, StartIs, WordIsSet
  <2> HIDE DEF u, b0
  <2> QED  BY <2>1, <2>3
<1> HIDE DEF bit
<1>9. next.at = one /\ next.buf = w[q] \ {b0}
  <2>1. found * WordBits + bit = one
    BY <1>4, <1>6, <1>8 DEF Start
  <2> QED  BY <1>2, <1>7, <1>8, <2>1
<1>10. one < Len(seq) /\ one < Start(q + 1) /\ Start(q + 1) \in Nat
  BY <1>4, BeforeNextWord DEF IsOne
<1>11. ASSUME NEW b \in Word
       PROVE  b \in next.buf <=> Start(q) + b >= one + 1 /\ IsOne(seq, Start(q) + b)
  <2> DEFINE u == Start(q)
  <2>1. b \in w[q] <=> u + b \in P
    <3> HIDE DEF q, first, last
    <3> QED  BY <1>1, <1>4, PlacesFacts
  <2>2. b \in w[q] => one <= u + b
    BY <1>4, <1>5
  <2>3. u + b \in P <=> u + b >= en.unread /\ IsOne(seq, u + b)
    <3>1. u + b \in Nat
      <4>1. u \in Nat /\ b \in Nat
        BY <1>4, StartIs, WordIsSet
      <4> HIDE DEF u
      <4> QED  BY <4>1
    <3> QED  BY <3>1 DEF P, OnesAhead
  <2>4. u \in Nat /\ b \in Nat /\ b0 \in Nat /\ one = u + b0
    <3> HIDE DEF q, b0
    <3> QED  BY <1>4, StartIs, WordIsSet
  <2> HIDE DEF u, q, b0
  <2>5. u + b >= one + 1 <=> u + b >= one /\ b # b0
    BY <2>4
  <2>6. u + b >= one => u + b >= en.unread
    BY <1>1, <1>4, <2>4
  <2> QED  BY <1>9, <2>1, <2>2, <2>3, <2>5, <2>6 DEF u
<1>12. next.buf \in SUBSET Word
  BY <1>4, <1>9
<1> DEFINE en2 == [at |-> one, unread |-> one + 1]
<1>13. en2.at = one /\ en2.unread = one + 1 /\ en2 = [at |-> en2.at, unread |-> en2.unread]
  OBVIOUS
<1> HIDE DEF en2
<1>14. one + 1 \in Nat /\ one <= one + 1 /\ one + 1 <= Start(q + 1)
  BY <1>4, <1>10
<1>15. StandsAt(next, en2, seq)
  BY <1>4, <1>9, <1>10, <1>11, <1>12, <1>13, <1>14 DEF StandsAt
<1> QED  BY <1>15 DEF next, en2

LEMMA UnarySkipIs ==
    ASSUME NEW x, NEW seq \in Bits, Reads(x, seq), NEW e, NEW en, StandsAt(e, en, seq),
           NEW one \in OnesAhead(en, seq), NEW n \in Nat,
           Cardinality(Below(OnesAhead(en, seq), one)) = n
    PROVE  StandsAt(UnarySkip(x, e, n), EnumeratorAt(one), seq)
<1> DEFINE first == WordOf(en.at)
           last == Len(x.words) - 1
           w == Buffers(x, e)
           P == OnesAhead(en, seq)
           found == InWhichWord(w, n)
           pos == SelectInWord(w[found.word], found.nth)
           q == WordOf(one)
           b0 == InWord(one)
           buf == w[q] \ LowMask(b0)
<1>1. /\ e.at = en.at /\ en.at \in Nat /\ first \in Nat /\ last \in Nat
      /\ Places(w, first, last, P) /\ Len(seq) \in Nat /\ en.unread \in Nat
  BY StandsFacts, BuffersAre
<1>2. UnarySkip(x, e, n) = [at |-> found.word * WordBits + pos, buf |-> w[found.word] \ LowMask(pos)]
  BY DEF UnarySkip, Buffers
<1>3. DOMAIN w = first .. last
  BY <1>1 DEF Buffers
<1>4. /\ one \in Nat /\ one >= en.unread /\ IsOne(seq, one) /\ one < Len(seq)
  BY DEF OnesAhead, IsOne
<1>5. found.word = q /\ SelectInWord(w[found.word], found.nth) = b0
  <2>1. one \in P /\ Cardinality(Below(P, one)) = n
    OBVIOUS
  <2> HIDE DEF w, P, first, last
  <2> QED  BY <1>1, <1>3, <2>1, InWhichWordIs
<1>6. /\ q \in Nat /\ one = Start(q) + b0 /\ q \in first .. last /\ b0 \in Word
  <2>1. one \in P
    OBVIOUS
  <2> HIDE DEF w, P, first, last
  <2> QED  BY <1>1, <2>1, PlacesFacts
<1>7. w[q] \in SUBSET Word /\ \A b \in Word : b \in w[q] <=> Start(q) + b \in P
  <2> HIDE DEF w, P, first, last, q, b0
  <2> QED  BY <1>1, <1>6, PlacesFacts
<1>8. UnarySkip(x, e, n) = [at |-> one, buf |-> buf]
  <2>1. found.word * WordBits + pos = one
    BY <1>5, <1>6 DEF Start
  <2> HIDE DEF w, found
  <2> QED  BY <1>2, <1>5, <2>1
<1> HIDE DEF w, P, found, buf
<1>9. ASSUME NEW b \in Word
      PROVE  b \in buf <=> b \in WordAt(x, q) /\ b \notin LowMask(b0)
  <2> DEFINE u == Start(q)
  <2>1. b \in WordAt(x, q) <=> IsOne(seq, u + b)
    <3>1. q < Len(x.words)
      BY <1>1, <1>6, ReadsFacts
    <3> HIDE DEF q
    <3> QED  BY <1>6, <3>1, EveryBit
  <2>2. b \notin LowMask(b0) <=> u + b >= one
    BY <1>4, BehindMask
  <2>3. u \in Nat /\ b \in Nat
    BY <1>6, StartIs, WordIsSet
  <2>4. b \in w[q] <=> u + b \in P
    BY <1>7
  <2> HIDE DEF u, q, b0
  <2>5. u + b \in Nat
    BY <2>3
  <2>6. u + b >= one => u + b >= en.unread
    BY <1>1, <1>4, <2>5
  <2>7. u + b \in P <=> u + b >= en.unread /\ IsOne(seq, u + b)
    BY <2>5 DEF P, OnesAhead
  <2> QED  BY <2>1, <2>2, <2>4, <2>6, <2>7 DEF buf
<1>10. buf \in SUBSET Word
  BY <1>7 DEF buf
<1> QED  BY <1>4, <1>8, <1>9, <1>10, MovedStands

\* The complement of the buffer and of the words behind it are the zeros, and
\* the ones that are consumed.
Complements(x, e) ==
    [i \in WordOf(e.at) .. Len(x.words) - 1 |->
        IF i = WordOf(e.at) THEN Complement(e.buf) \ LowMask(InWord(e.at))
        ELSE Complement(WordAt(x, i))]

ZerosOnward(en, seq, n) ==
    {y \in Nat : y >= en.at /\ y < Start(n) /\ (y < en.unread \/ ~ IsOne(seq, y))}

LEMMA ComplementsAre ==
    ASSUME NEW x, NEW seq \in Bits, Reads(x, seq), NEW e, NEW en, StandsAt(e, en, seq)
    PROVE  Places(Complements(x, e), WordOf(en.at), Len(x.words) - 1,
                  ZerosOnward(en, seq, Len(x.words)))
<1> DEFINE first == WordOf(en.at)
           n == Len(x.words)
           w == Complements(x, e)
           P == ZerosOnward(en, seq, n)
<1>1. /\ e.at = en.at /\ en.at \in Nat /\ en.unread \in Nat /\ en.at <= en.unread
      /\ first \in Nat /\ n \in Nat /\ n - 1 \in Nat /\ first \in 0 .. n - 1
      /\ Start(first) \in Nat /\ Start(first) <= en.at
      /\ Start(n) \in Nat
  BY StandsFacts
<1>2. P \in SUBSET Nat
  BY DEF ZerosOnward
<1>3. ASSUME NEW y \in P
      PROVE  WordOf(y) \in first .. n - 1
  <2>1. y \in Nat /\ y >= en.at /\ y < Start(n)
    BY DEF ZerosOnward
  <2> DEFINE q == WordOf(y)
  <2>2. /\ q \in Nat /\ Start(q) <= y /\ Start(q) \in Nat
        /\ y < Start(q + 1) /\ Start(q + 1) \in Nat
    BY <2>1, BeforeNextWord
  <2> HIDE DEF q, first, n
  <2>3. ~ (q < first)
    <3> SUFFICES ASSUME q < first PROVE FALSE
      OBVIOUS
    <3> DEFINE s == Start(first)
               u == Start(q + 1)
    <3>1. u <= s
      <4>1. q + 1 \in Nat /\ q + 1 <= first
        BY <1>1, <2>2
      <4> QED  BY <1>1, <4>1, StartMonotone
    <3>2. s \in Nat /\ s <= en.at /\ y < u /\ u \in Nat
      BY <1>1, <2>2
    <3> HIDE DEF s, u
    <3> QED  BY <1>1, <2>1, <3>1, <3>2
  <2>4. ~ (n <= q)
    <3> SUFFICES ASSUME n <= q PROVE FALSE
      OBVIOUS
    <3>1. Start(n) <= Start(q)
      BY <1>1, <2>2, StartMonotone
    <3> DEFINE s == Start(n)
               u == Start(q)
    <3>2. s <= u /\ u <= y /\ y < s /\ s \in Nat /\ u \in Nat
      BY <1>1, <2>1, <2>2, <3>1
    <3> HIDE DEF s, u
    <3> QED  BY <2>1, <3>2
  <2>5. q \in first .. n - 1
    BY <1>1, <2>2, <2>3, <2>4
  <2> QED  BY <2>5 DEF q
<1>4. ASSUME NEW i \in first .. n - 1
      PROVE  /\ w[i] \in SUBSET Word
             /\ \A b \in Word : b \in w[i] <=> Start(i) + b \in P
  <2>1. w[i] = IF i = first THEN Complement(e.buf) \ LowMask(InWord(en.at))
               ELSE Complement(WordAt(x, i))
    BY <1>1 DEF Complements
  <2>2. w[i] \in SUBSET Word
    BY <2>1 DEF Complement
  <2>3. ASSUME NEW b \in Word
        PROVE  Start(i) + b \in Nat /\ Start(i) + b < Start(n)
    <3> DEFINE s == Start(i)
               u == Start(n)
    <3>1. i \in Nat /\ i < n
      <4> HIDE DEF first, n
      <4> QED  BY <1>1
    <3>2. s + WordBits <= u /\ s \in Nat /\ u \in Nat
      BY <1>1, <3>1, StartAscends, StartIs
    <3>3. b \in Nat /\ b < WordBits /\ WordBits \in Nat
      BY Width DEF Word
    <3> HIDE DEF s, u
    <3>4. s + b \in Nat /\ s + b < u
      BY <3>2, <3>3
    <3> QED  BY <3>4 DEF s, u
  <2>4. CASE i = first
    <3>1. ASSUME NEW b \in Word
          PROVE  b \in w[i] <=> Start(i) + b \in P
      <4> DEFINE y == Start(first) + b
      <4>1. b \in e.buf <=> y >= en.unread /\ IsOne(seq, y)
        BY DEF StandsAt
      <4>2. b \notin LowMask(InWord(en.at)) <=> y >= en.at
        BY <1>1, BehindMask
      <4>3. y \in Nat /\ y < Start(n)
        BY <2>3, <2>4
      <4>4. b \in w[i] <=> b \notin e.buf /\ b \notin LowMask(InWord(en.at))
        BY <2>1, <2>4 DEF Complement
      <4> HIDE DEF y, w, first, n
      <4>5. y \in P <=> y >= en.at /\ (y < en.unread \/ ~ IsOne(seq, y))
        BY <4>3 DEF ZerosOnward
      <4>6. y < en.unread <=> ~ (y >= en.unread)
        BY <1>1, <4>3
      <4>7. b \in w[i] <=> y \in P
        <5> HIDE DEF P
        <5> QED  BY <4>1, <4>2, <4>4, <4>5, <4>6
      <4> QED  BY <2>4, <4>7 DEF y
    <3> QED  BY <2>2, <3>1
  <2>5. CASE i # first
    <3>1. ASSUME NEW b \in Word
          PROVE  b \in w[i] <=> Start(i) + b \in P
      <4> DEFINE y == Start(i) + b
      <4>1. y >= en.unread /\ y >= en.at /\ (b \in WordAt(x, i) <=> IsOne(seq, y))
        BY <2>5, BehindBuffer
      <4>2. y \in Nat /\ y < Start(n)
        BY <2>3
      <4>3. b \in w[i] <=> b \notin WordAt(x, i)
        BY <2>1, <2>5 DEF Complement
      <4> HIDE DEF y, w, first, n
      <4>4. ~ (y < en.unread)
        BY <1>1, <4>1, <4>2
      <4>5. y \in P <=> ~ IsOne(seq, y)
        BY <4>1, <4>2, <4>4 DEF ZerosOnward
      <4>6. b \in w[i] <=> y \in P
        <5> HIDE DEF P
        <5> QED  BY <4>1, <4>3, <4>5
      <4> QED  BY <4>6 DEF y
    <3> QED  BY <2>2, <3>1
  <2> QED  BY <2>4, <2>5
<1> QED  BY <1>2, <1>3, <1>4 DEF Places

LEMMA UnarySkip0Is ==
    ASSUME NEW x, NEW seq \in Bits, Reads(x, seq), NEW e, NEW en, StandsAt(e, en, seq),
           NEW zero \in ZerosOnward(en, seq, Len(x.words)), zero < Len(seq), NEW n \in Nat,
           Cardinality(Below(ZerosOnward(en, seq, Len(x.words)), zero)) = n
    PROVE  StandsAt(UnarySkip0(x, e, n),
                    [at |-> zero, unread |-> IF zero < en.unread THEN en.unread ELSE zero], seq)
<1> DEFINE first == WordOf(en.at)
           last == Len(x.words) - 1
           w == Complements(x, e)
           P == ZerosOnward(en, seq, Len(x.words))
           found == InWhichWord(w, n)
           pos == SelectInWord(w[found.word], found.nth)
           q == WordOf(zero)
           b0 == InWord(zero)
           buf == Complement(w[q]) \ LowMask(b0)
           unread == IF zero < en.unread THEN en.unread ELSE zero
           next == UnarySkip0(x, e, n)
           en2 == [at |-> zero, unread |-> unread]
<1>1. /\ e.at = en.at /\ en.at \in Nat /\ first \in Nat /\ last \in Nat
      /\ Places(w, first, last, P) /\ Len(seq) \in Nat /\ en.unread \in Nat
      /\ en.unread <= Start(first + 1) /\ Start(first + 1) \in Nat
  <2>1. en.unread <= Start(first + 1) /\ en.at \in Nat
    BY DEF StandsAt
  <2>2. Start(first + 1) \in Nat
    BY <2>1, BeforeNextWord
  <2> QED  BY <2>1, <2>2, StandsFacts, ComplementsAre
<1>2. next = [at |-> found.word * WordBits + pos, buf |-> Complement(w[found.word]) \ LowMask(pos)]
  BY DEF UnarySkip0, Complements
<1>3. DOMAIN w = first .. last
  BY <1>1 DEF Complements
<1>4. /\ zero \in Nat /\ zero >= en.at /\ zero < Start(Len(x.words))
  BY DEF ZerosOnward
<1>5. found.word = q /\ SelectInWord(w[found.word], found.nth) = b0
  <2>1. zero \in P /\ Cardinality(Below(P, zero)) = n
    OBVIOUS
  <2> HIDE DEF w, P, first, last
  <2> QED  BY <1>1, <1>3, <2>1, InWhichWordIs
<1>6. /\ q \in Nat /\ zero = Start(q) + b0 /\ q \in first .. last /\ b0 \in Word
  <2>1. zero \in P
    OBVIOUS
  <2> HIDE DEF w, P, first, last
  <2> QED  BY <1>1, <2>1, PlacesFacts
<1>7. w[q] \in SUBSET Word /\ \A b \in Word : b \in w[q] <=> Start(q) + b \in P
  <2> HIDE DEF w, P, first, last, q, b0
  <2> QED  BY <1>1, <1>6, PlacesFacts
<1>8. next.at = zero /\ next.buf = buf
  <2>1. found.word * WordBits + pos = zero
    BY <1>5, <1>6 DEF Start
  <2> HIDE DEF w, found, next
  <2> QED  BY <1>2, <1>5, <2>1
<1> HIDE DEF w, found, buf, next
<1>9. unread \in Nat /\ zero <= unread /\ unread <= Start(q + 1) /\ en.unread <= unread
  <2> DEFINE u == Start(q + 1)
             s == Start(first + 1)
  <2>1. zero < u /\ u \in Nat
    BY <1>4, BeforeNextWord
  <2>2. s <= u
    <3> HIDE DEF first, q
    <3>1. first + 1 <= q + 1 /\ first + 1 \in Nat /\ q + 1 \in Nat
      BY <1>1, <1>6
    <3> QED  BY <3>1, StartMonotone
  <2>3. en.unread <= s /\ s \in Nat
    BY <1>1
  <2> HIDE DEF u, s
  <2>4. unread \in Nat /\ zero <= unread /\ unread <= u /\ en.unread <= unread
    BY <1>1, <1>4, <2>1, <2>2, <2>3
  <2> QED  BY <2>4 DEF u
<1>10. ASSUME NEW b \in Word
       PROVE  b \in buf <=> Start(q) + b >= unread /\ IsOne(seq, Start(q) + b)
  <2> DEFINE y == Start(q) + b
  <2>1. b \notin LowMask(b0) <=> y >= zero
    BY <1>4, BehindMask
  <2>2. y \in Nat
    <3>1. Start(q) \in Nat /\ b \in Nat
      BY <1>6, StartIs, WordIsSet
    <3> QED  BY <3>1
  <2>3. y < Start(Len(x.words))
    <3> DEFINE s == Start(q)
               u == Start(Len(x.words))
    <3>1. q < Len(x.words) /\ Len(x.words) \in Nat
      <4> HIDE DEF q, first
      <4> QED  BY <1>1, <1>6, ReadsFacts
    <3>2. s + WordBits <= u /\ s \in Nat /\ u \in Nat
      <4> HIDE DEF q
      <4> QED  BY <1>6, <3>1, StartAscends, StartIs
    <3>3. b \in Nat /\ b < WordBits /\ WordBits \in Nat
      BY Width DEF Word
    <3> HIDE DEF s, u
    <3>4. s + b < u
      BY <3>2, <3>3
    <3> QED  BY <3>4 DEF s, u
  <2>4. b \in w[q] <=> y \in P
    BY <1>7
  <2>5. b \in buf <=> b \notin w[q] /\ b \notin LowMask(b0)
    BY DEF buf, Complement
  <2> HIDE DEF y, b0, q
  <2>6. y >= zero => (y \in P <=> y < en.unread \/ ~ IsOne(seq, y))
    <3>1. y >= zero => y >= en.at
      BY <1>1, <1>4, <2>2
    <3> QED  BY <2>2, <2>3, <3>1 DEF P, ZerosOnward
  <2>7. y >= unread <=> y >= zero /\ ~ (y < en.unread)
    BY <1>1, <1>4, <2>2
  <2> HIDE DEF P, unread
  <2>8. b \in buf <=> y >= unread /\ IsOne(seq, y)
    BY <2>1, <2>4, <2>5, <2>6, <2>7
  <2> QED  BY <2>8 DEF y
<1>11. buf \in SUBSET Word
  BY DEF buf, Complement
<1> HIDE DEF unread
<1>12. en2.at = zero /\ en2.unread = unread /\ en2 = [at |-> en2.at, unread |-> en2.unread]
  OBVIOUS
<1> HIDE DEF en2
<1>13. StandsAt(next, en2, seq)
  BY <1>4, <1>8, <1>9, <1>10, <1>11, <1>12 DEF StandsAt
<1> QED  BY <1>13 DEF next, en2, unread

-----------------------------------------------------------------------------
(***************************************************************************)
(* Every move of a unary_iterator keeps it where the enumerator is.        *)
(***************************************************************************)
UnaryInv ==
    /\ BuilderInv
    /\ phase = "ones" => StandsAt(ones, shown, bits)

LEMMA UnreadAre ==
    ASSUME bits \in Bits, shown.unread \in Nat
    PROVE  /\ UnreadOnes = OnesAhead(shown, bits)
           /\ {b \in View.ones : b >= shown.unread} = OnesAhead(shown, bits)
           /\ UnreadOnes \in SUBSET (0 .. Len(bits))
<1>1. View.ones = OnesOf(bits)
  BY DEF View
<1>2. OnesOf(bits) \in SUBSET Nat
  BY OnesAreNumbers
<1>3. \A y \in Nat : y \in OnesOf(bits) <=> IsOne(bits, y)
  BY OnesOfIs
<1>4. UnreadOnes = OnesAhead(shown, bits)
  BY <1>2, <1>3 DEF UnreadOnes, OnesAhead
<1>5. {b \in View.ones : b >= shown.unread} = UnreadOnes
  BY <1>1 DEF UnreadOnes
<1>6. ASSUME NEW y \in OnesAhead(shown, bits)
      PROVE  y \in 0 .. Len(bits)
  BY LenBits DEF OnesAhead, IsOne
<1> QED  BY <1>4, <1>5, <1>6

LEMMA NextOneStands ==
    ASSUME UnaryInv, NextOneOf
    PROVE  StandsAt(ones', shown', bits')
<1> DEFINE S == OnesAhead(shown, bits)
<1>1. /\ phase = "ones" /\ UnreadOnes # {} /\ bits' = bits
      /\ ones' = UnaryNext(Vector, ones)
      /\ shown' = [at |-> NextOne(View, shown, 0), unread |-> NextOne(View, shown, 0) + 1]
  BY DEF NextOneOf, MoveOnes
<1>2. bits \in Bits /\ Len(bits) \in Nat /\ Reads(Vector, bits) /\ StandsAt(ones, shown, bits)
  BY <1>1, ReaderReads DEF UnaryInv
<1>3. UnreadOnes = S /\ NextOne(View, shown, 0) = Nth(S, 0) /\ S \in SUBSET (0 .. Len(bits))
  <2>1. shown.unread \in Nat
    BY <1>2 DEF StandsAt
  <2> QED  BY <1>2, <2>1, UnreadAre DEF NextOne
<1>4. S \in SUBSET Nat /\ S # {}
  BY <1>1, <1>3 DEF OnesAhead
<1> HIDE DEF S
<1>5. 0 \in Nat /\ 0 < Cardinality(S)
  <2>1. IsFiniteSet(0 .. Len(bits))
    BY <1>2, FS_Interval
  <2>2. IsFiniteSet(S)
    BY <1>3, <2>1, FS_Subset
  <2>3. Cardinality(S) # 0 /\ Cardinality(S) \in Nat
    BY <1>4, <2>2, FS_EmptySet, FS_CardinalityType
  <2> QED  BY <2>3
<1>6. PICK one \in S : Cardinality(Below(S, one)) = 0
  BY <1>2, <1>3, <1>5, NthExists
<1>7. Nth(S, 0) = one
  BY <1>4, <1>6, NthIs
<1>8. \A y \in S : one <= y
  <2>1. IsFiniteSet(Below(S, one)) /\ one \in Nat
    BY <1>4, <1>6, BelowFinite
  <2>2. Below(S, one) = {}
    BY <1>6, <2>1, FS_EmptySet
  <2>3. \A y \in S : ~ (y < one)
    BY <2>2 DEF Below
  <2> QED  BY <1>4, <2>1, <2>3
<1>9. StandsAt(UnaryNext(Vector, ones), [at |-> one, unread |-> one + 1], bits)
  BY <1>2, <1>6, <1>8, UnaryNextIs DEF S
<1> QED  BY <1>1, <1>3, <1>7, <1>9

LEMMA SkipOnesStands ==
    ASSUME UnaryInv, SkipOnes
    PROVE  StandsAt(ones', shown', bits')
<1> DEFINE S == OnesAhead(shown, bits)
<1>1. PICK n \in 0 .. Cardinality(UnreadOnes) - 1 :
         MoveOnes(UnarySkip(Vector, ones, n), Skipped(View, shown, n))
  BY DEF SkipOnes
<1>2. /\ phase = "ones" /\ bits' = bits
      /\ ones' = UnarySkip(Vector, ones, n) /\ shown' = Skipped(View, shown, n)
  BY <1>1 DEF MoveOnes
<1>3. bits \in Bits /\ Len(bits) \in Nat /\ Reads(Vector, bits) /\ StandsAt(ones, shown, bits)
  BY <1>2, ReaderReads DEF UnaryInv
<1>4. UnreadOnes = S /\ NextOne(View, shown, n) = Nth(S, n) /\ S \in SUBSET (0 .. Len(bits))
  <2>1. shown.unread \in Nat
    BY <1>3 DEF StandsAt
  <2> QED  BY <1>3, <2>1, UnreadAre DEF NextOne
<1>5. S \in SUBSET Nat
  BY DEF OnesAhead
<1> HIDE DEF S
<1>6. n \in Nat /\ n < Cardinality(S)
  <2>1. IsFiniteSet(0 .. Len(bits))
    BY <1>3, FS_Interval
  <2>2. IsFiniteSet(S)
    BY <1>4, <2>1, FS_Subset
  <2>3. Cardinality(S) \in Nat
    BY <2>2, FS_CardinalityType
  <2> QED  BY <1>4, <2>3
<1>7. PICK one \in S : Cardinality(Below(S, one)) = n
  BY <1>3, <1>4, <1>6, NthExists
<1>8. Nth(S, n) = one
  BY <1>5, <1>7, NthIs
<1>9. StandsAt(UnarySkip(Vector, ones, n), EnumeratorAt(one), bits)
  BY <1>3, <1>6, <1>7, UnarySkipIs DEF S
<1> QED  BY <1>2, <1>4, <1>8, <1>9 DEF Skipped

LEMMA SkipZerosStands ==
    ASSUME UnaryInv, SkipZerosOf
    PROVE  StandsAt(ones', shown', bits')
<1> DEFINE S == ZerosAhead
           x == Vector
           P == ZerosOnward(shown, bits, Len(x.words))
<1>1. PICK n \in 0 .. Cardinality(ZerosAhead) - 1 :
         MoveOnes(UnarySkip0(Vector, ones, n), SkippedZeros(View, shown, n))
  BY DEF SkipZerosOf
<1>2. /\ phase = "ones" /\ bits' = bits
      /\ ones' = UnarySkip0(Vector, ones, n) /\ shown' = SkippedZeros(View, shown, n)
  BY <1>1 DEF MoveOnes
<1>3. bits \in Bits /\ Len(bits) \in Nat /\ Reads(Vector, bits) /\ StandsAt(ones, shown, bits)
  BY <1>2, ReaderReads DEF UnaryInv
<1>4. /\ shown.at \in Nat /\ shown.unread \in Nat
      /\ Len(bits) <= Start(Len(x.words)) /\ Start(Len(x.words)) \in Nat
  BY <1>3, StandsFacts
<1> DEFINE Z == {b \in shown.at .. shown.at + n + View.size :
                    b < shown.unread \/ b \notin View.ones}
<1>5. S \in SUBSET (0 .. Len(bits)) /\ S \in SUBSET Nat
  <2>1. \A b \in S : b \in 0 .. Len(bits) /\ b \in Nat
    BY <1>3, <1>4 DEF ZerosAhead
  <2> QED  BY <2>1
<1>6. n \in Nat /\ n < Cardinality(S)
  <2>1. IsFiniteSet(0 .. Len(bits))
    BY <1>3, FS_Interval
  <2> HIDE DEF S
  <2>2. IsFiniteSet(S)
    BY <1>5, <2>1, FS_Subset
  <2>3. Cardinality(S) \in Nat
    BY <2>2, FS_CardinalityType
  <2> QED  BY <2>3 DEF S
<1>7. PICK zero \in S : Cardinality(Below(S, zero)) = n
  <2> HIDE DEF S
  <2> QED  BY <1>3, <1>5, <1>6, NthExists
<1>8. View.size = Len(bits) /\ View.ones = OnesOf(bits)
  BY DEF View
<1>9. zero \in Nat /\ zero < Len(bits) /\ zero \in shown.at .. Len(bits) - 1
  BY <1>3, <1>4, <1>7 DEF ZerosAhead
<1>10. ASSUME NEW y \in Nat, y < Len(bits)
       PROVE  (y \in S <=> y \in Z) /\ (y \in S <=> y \in P)
  <2>1. y \in S <=> y >= shown.at /\ (y < shown.unread \/ y \notin OnesOf(bits))
    BY <1>3, <1>4, <1>10 DEF ZerosAhead
  <2>2. y \in Z <=> y >= shown.at /\ (y < shown.unread \/ y \notin OnesOf(bits))
    <3>1. y \in shown.at .. shown.at + n + Len(bits) <=> y >= shown.at
      BY <1>3, <1>4, <1>6, <1>10
    <3> QED  BY <1>8, <3>1
  <2>3. y \in OnesOf(bits) <=> IsOne(bits, y)
    BY <1>3, OnesOfIs
  <2>4. y \in P <=> y >= shown.at /\ (y < shown.unread \/ ~ IsOne(bits, y))
    <3>1. y < Start(Len(x.words))
      <4> DEFINE u == Start(Len(x.words))
      <4>1. u \in Nat /\ Len(bits) <= u
        BY <1>4
      <4> HIDE DEF u
      <4>2. y < u
        BY <1>3, <1>10, <4>1
      <4> QED  BY <4>2 DEF u
    <3> QED  BY <3>1 DEF ZerosOnward
  <2> HIDE DEF S, Z, P
  <2> QED  BY <2>1, <2>2, <2>3, <2>4
<1>11. Z \in SUBSET Nat /\ P \in SUBSET Nat
  <2>1. \A y \in Z : y \in Nat
    BY <1>4, <1>6
  <2> QED  BY <2>1 DEF ZerosOnward
<1> HIDE DEF S, Z, P, x
<1>12. zero \in Z /\ zero \in P /\ Below(Z, zero) = Below(S, zero) /\ Below(P, zero) = Below(S, zero)
  <2>1. \A y \in Nat : y < zero => y < Len(bits)
    BY <1>3, <1>9
  <2>2. \A y \in Nat : y < zero => (y \in S <=> y \in Z) /\ (y \in S <=> y \in P)
    BY <1>10, <2>1
  <2>3. \A y : y \in Z /\ y < zero <=> y \in S /\ y < zero
    BY <1>5, <1>11, <2>2
  <2>4. \A y : y \in P /\ y < zero <=> y \in S /\ y < zero
    BY <1>5, <1>11, <2>2
  <2>5. Below(Z, zero) = Below(S, zero)
    BY <2>3, SameBelow
  <2>6. Below(P, zero) = Below(S, zero)
    BY <2>4, SameBelow
  <2> QED  BY <1>7, <1>9, <1>10, <2>5, <2>6
<1>13. Nth(Z, n) = zero
  BY <1>7, <1>11, <1>12, NthIs
<1> DEFINE unread == IF zero < shown.unread THEN shown.unread ELSE zero
<1>14. shown' = [at |-> zero, unread |-> unread]
  <2>1. SkippedZeros(View, shown, n) =
            [at |-> Nth(Z, n),
             unread |-> IF Nth(Z, n) < shown.unread THEN shown.unread ELSE Nth(Z, n)]
    BY DEF SkippedZeros, Z
  <2> QED  BY <1>2, <1>13, <2>1
<1>15. Cardinality(Below(P, zero)) = n
  BY <1>7, <1>12
<1>16. StandsAt(UnarySkip0(x, ones, n), [at |-> zero, unread |-> unread], bits)
  <2>1. Reads(x, bits) /\ zero \in ZerosOnward(shown, bits, Len(x.words))
        /\ Cardinality(Below(ZerosOnward(shown, bits, Len(x.words)), zero)) = n
    BY <1>3, <1>12, <1>15 DEF x, P
  <2> QED  BY <1>3, <1>6, <1>9, <2>1, UnarySkip0Is
<1> QED  BY <1>2, <1>14, <1>16 DEF x

LEMMA UnaryStepKeeps == UnaryInv /\ [StreamNext]_streamVars => UnaryInv'
<1> SUFFICES ASSUME UnaryInv, [StreamNext]_streamVars
             PROVE  UnaryInv'
  OBVIOUS
<1>1. BuilderInv'
  BY BuilderStepKeeps DEF UnaryInv
<1>2. CASE OpenOnes
  <2>1. PICK pos \in 0 .. Len(bits) - 1 : ones' = UnaryAt(Vector, pos) /\ shown' = EnumeratorAt(pos)
    BY <1>2 DEF OpenOnes
  <2>2. bits \in Bits /\ Len(bits) \in Nat /\ Reads(Vector, bits)
    BY ReaderReads DEF UnaryInv
  <2>3. pos \in Nat /\ pos < Len(bits)
    BY <2>2
  <2>4. StandsAt(ones', shown', bits)
    BY <2>1, <2>2, <2>3, UnaryAtIs
  <2> QED  BY <1>1, <1>2, <2>4 DEF OpenOnes, UnaryInv
<1>3. CASE NextOneOf
  BY <1>1, <1>3, NextOneStands DEF UnaryInv
<1>4. CASE SkipOnes
  BY <1>1, <1>4, SkipOnesStands DEF UnaryInv
<1>5. CASE SkipZerosOf
  BY <1>1, <1>5, SkipZerosStands DEF UnaryInv
<1>6. CASE phase' # "ones"
  BY <1>1, <1>6 DEF UnaryInv
<1>7. CASE \/ Push \/ Extend \/ Set \/ Overwrite \/ AppendWord \/ AppendOther \/ Turn \/ Pad
  <2>1. phase = "build" /\ phase' = phase
    BY <1>7 DEF Push, Extend, Set, Overwrite, AppendWord, AppendOther, Turn, Pad, Changes
  <2> QED  BY <1>6, <2>1
<1>8. CASE Build \/ DropReader \/ OpenBits \/ Take \/ SkipToOne
  <2>1. phase' # "ones"
    BY <1>8 DEF Build, DropReader, OpenBits, Take, SkipToOne
  <2> QED  BY <1>6, <2>1
<1>9. CASE UNCHANGED streamVars
  BY <1>1, <1>9 DEF UnaryInv, streamVars
<1> QED  BY <1>2, <1>3, <1>4, <1>5, <1>7, <1>8, <1>9 DEF StreamNext

LEMMA UnaryInductive == StreamSpec => []UnaryInv
<1>1. StreamInit => UnaryInv
  BY BuilderInitHolds DEF StreamInit, UnaryInv
<1>2. UnaryInv /\ [StreamNext]_streamVars => UnaryInv'
  BY UnaryStepKeeps
<1> QED  BY <1>1, <1>2, PTL DEF StreamSpec

\* The ones of the buffer, at their places, are those of the word that are
\* not consumed.
LEMMA StandsInStep == UnaryInv => UnaryInStep
<1> SUFFICES ASSUME UnaryInv, phase = "ones"
             PROVE  /\ ones.at = shown.at
                    /\ {WordOf(ones.at) * WordBits + b : b \in ones.buf}
                           = {one \in UnreadOnes : WordOf(one) = WordOf(ones.at)}
  BY DEF UnaryInStep
<1> DEFINE q == WordOf(shown.at)
           A == {WordOf(ones.at) * WordBits + b : b \in ones.buf}
           B == {one \in UnreadOnes : WordOf(one) = WordOf(ones.at)}
<1>1. bits \in Bits /\ Len(bits) \in Nat /\ Reads(Vector, bits) /\ StandsAt(ones, shown, bits)
  BY ReaderReads DEF UnaryInv
<1>2. ones.at = shown.at /\ shown.unread \in Nat /\ q \in Nat /\ ones.buf \in SUBSET Word
  BY <1>1, StandsFacts DEF StandsAt
<1>3. \A b \in Word : b \in ones.buf <=> Start(q) + b >= shown.unread /\ IsOne(bits, Start(q) + b)
  BY <1>1 DEF StandsAt
<1>4. UnreadOnes = OnesAhead(shown, bits)
  BY <1>1, <1>2, UnreadAre
<1>5. A = {Start(q) + b : b \in ones.buf}
  BY <1>2 DEF Start
<1> HIDE DEF A, q
<1>6. ASSUME NEW y \in A
      PROVE  y \in B
  <2>1. PICK b \in ones.buf : y = Start(q) + b
    BY <1>5
  <2>2. b \in Word
    BY <1>2
  <2>3. y \in Nat /\ WordOf(y) = q
    BY <1>2, <2>1, <2>2, PositionOf
  <2>4. y \in OnesAhead(shown, bits)
    BY <1>3, <2>1, <2>2, <2>3 DEF OnesAhead
  <2> QED  BY <1>2, <1>4, <2>3, <2>4 DEF q
<1>7. ASSUME NEW y \in B
      PROVE  y \in A
  <2>1. y \in Nat /\ y >= shown.unread /\ IsOne(bits, y) /\ WordOf(y) = q
    BY <1>2, <1>4 DEF OnesAhead, q
  <2>2. InWord(y) \in Word /\ y = Start(q) + InWord(y)
    BY <2>1, Position
  <2>3. InWord(y) \in ones.buf
    BY <1>3, <2>1, <2>2
  <2> QED  BY <1>5, <2>2, <2>3
<1>8. A = B
  BY <1>6, <1>7
<1> QED  BY <1>2, <1>8 DEF A

\* A unary_iterator is where the enumerator of the encodings is, and has in
\* its buffer what that has not consumed of the word, whatever mixture of
\* next, skip and skip0 moved it.
THEOREM UnaryFollows == StreamSpec => []UnaryInStep
BY StandsInStep, UnaryInductive, PTL

=============================================================================

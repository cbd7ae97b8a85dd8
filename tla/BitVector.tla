----------------------------- MODULE BitVector -----------------------------
(***************************************************************************)
(* bit_vector_builder, bit_vector and the readers over its words, with the *)
(* operations of util.hpp on machine words.                                *)
(*                                                                         *)
(* A word is the set of the positions of its ones: & is \cap, | is \cup,   *)
(* and a shift moves the positions and drops those that leave the word.  A *)
(* vector is a record of its words and its size in bits; a builder also    *)
(* keeps in cur the index of the word m_cur_word points to.  Words are     *)
(* counted from 1, bits and positions from 0.                              *)
(***************************************************************************)
EXTENDS Enumerator, Integers, Sequences

CONSTANTS
    WordBits,  \* 64
    ByteBits,  \* 8
    Beyond     \* the ones in the memory behind the last word of a vector

ASSUME WordAssumption ==
    /\ {WordBits, ByteBits} \subseteq Nat \ {0}
    /\ WordBits % ByteBits = 0
ASSUME BeyondAssumption == Beyond \subseteq Nat

Word == 0 .. WordBits - 1

\* ceil_div(), essentials::words_for()
CeilDiv(x, y) == (x + y - 1) \div y
WordsFor(bits) == CeilDiv(bits, WordBits)

ShiftLeft(x, n) == {b + n : b \in x} \cap Word
ShiftRight(x, n) == {b - n : b \in {c \in x : c >= n}}

\* The word with ones in its first n bits, and what is not in a word.
LowMask(n) == 0 .. n - 1
Complement(x) == Word \ x

\* lsb(), msb()
Lowest(x) == CHOOSE b \in x : \A c \in x : b <= c
Highest(x) == CHOOSE b \in x : \A c \in x : b >= c

\* popcount(), select_in_word()
PopCount(x) == Cardinality(x)
SelectInWord(x, n) == Nth(x, n)

ReverseBits(x) == {WordBits - 1 - b : b \in x}

\* 1 << b
PowerOf2[b \in 0 .. WordBits] == IF b = 0 THEN 1 ELSE 2 * PowerOf2[b - 1]

\* An unsigned integer as a word, and back.
Binary(n) == {b \in Word : (n \div PowerOf2[b]) % 2 = 1}
Number(x) ==
    LET below[b \in 0 .. WordBits] ==
            IF b = 0 THEN 0
            ELSE below[b - 1] + (IF b - 1 \in x THEN PowerOf2[b - 1] ELSE 0)
    IN  below[WordBits]

\* ceil_log2(): the bits that the integers below n need.
CeilLog2(n) == IF n > 1 THEN Highest(Binary(n - 1)) + 1 ELSE 0

-----------------------------------------------------------------------------

WordOf(pos) == pos \div WordBits
InWord(pos) == pos % WordBits

WordAt(x, i) == x.words[i + 1]

\* bit_vector_builder(size, init)
NewBuilder(size, init) ==
    LET n == WordsFor(size)
        full(i) == IF i = n /\ InWord(size) # 0 THEN LowMask(InWord(size)) ELSE Word
    IN  [words |-> [i \in 1 .. n |-> IF init THEN full(i) ELSE {}],
         size |-> size,
         cur |-> n]

EmptyBuilder == NewBuilder(0, FALSE)

PushBack(x, bit) ==
    LET fresh == InWord(x.size) = 0
        words == IF fresh THEN Append(x.words, {}) ELSE x.words
        cur == IF fresh THEN Len(words) ELSE x.cur
        one == ShiftLeft({b \in {0} : bit = 1}, InWord(x.size))
    IN  [words |-> [words EXCEPT ![cur] = @ \cup one], size |-> x.size + 1, cur |-> cur]

\* Regression the checks must catch (never used by a specification): the
\* word that is written next is not moved to the last one.
ZeroExtendKeepsWord(x, n) ==
    LET needed == WordsFor(x.size + n) - Len(x.words)
    IN  [x EXCEPT !.words = @ \o [i \in 1 .. needed |-> {}], !.size = @ + n]

ZeroExtend(x, n) ==
    LET needed == WordsFor(x.size + n) - Len(x.words)
        words == x.words \o [i \in 1 .. needed |-> {}]
    IN  [words |-> words,
         size |-> x.size + n,
         cur |-> IF needed > 0 THEN Len(words) ELSE x.cur]

SetBit(x, pos, bit) ==
    LET one == ShiftLeft({0}, InWord(pos))
    IN  [x EXCEPT !.words[WordOf(pos) + 1] =
            (@ \ one) \cup (IF bit = 1 THEN one ELSE {})]

\* set_bits(): a value of len bits over what is there, in one word or two.
SetBits(x, pos, value, len) ==
    LET at == InWord(pos)
        stored == WordBits - at
        i == WordOf(pos) + 1
        first == [x EXCEPT !.words[i] =
                     (@ \ ShiftLeft(LowMask(len), at)) \cup ShiftLeft(value, at)]
    IN  IF len = 0 THEN x
        ELSE IF stored >= len THEN first
        ELSE [first EXCEPT !.words[i + 1] =
                 (@ \ ShiftRight(LowMask(len), stored)) \cup ShiftRight(value, stored)]

AppendBits(x, value, len) ==
    LET at == InWord(x.size)
        grown == IF at = 0 THEN Append(x.words, value)
                 ELSE [x.words EXCEPT ![x.cur] = @ \cup ShiftLeft(value, at)]
        words == IF at # 0 /\ len > WordBits - at
                 THEN Append(grown, ShiftRight(value, WordBits - at))
                 ELSE grown
    IN  IF len = 0 THEN x
        ELSE [words |-> words, size |-> x.size + len, cur |-> Len(words)]

\* append(): the words of another builder, shifted when the end of this one
\* is inside a word; what the last one leaves over may need no word.
AppendVector(x, y) ==
    LET n == Len(x.words)
        shift == InWord(x.size)
        size == x.size + y.size
        words == IF shift = 0 THEN x.words \o y.words
                 ELSE [i \in 1 .. WordsFor(size) |->
                         (IF i > n THEN ShiftRight(y.words[i - n], WordBits - shift)
                                   ELSE x.words[i])
                         \cup
                         (IF i < n \/ i - n + 1 > Len(y.words) THEN {}
                          ELSE ShiftLeft(y.words[i - n + 1], shift))]
    IN  IF y.size = 0 THEN x
        ELSE [words |-> words, size |-> size, cur |-> Len(words)]

\* reverse(): the bits move up to the end of the last word, then the bits of
\* every word and the words are reversed.
Reversed(x) ==
    LET shift == WordBits - InWord(x.size)
        remainder(i) == IF i = 1 THEN {} ELSE ShiftRight(x.words[i - 1], WordBits - shift)
        shifted(i) == IF shift = WordBits THEN x.words[i]
                      ELSE remainder(i) \cup ShiftLeft(x.words[i], shift)
    IN  [x EXCEPT !.words = [i \in DOMAIN @ |-> ReverseBits(shifted(Len(@) + 1 - i))]]

\* build(): the vector has the words of the builder.
Built(x) == [words |-> x.words, size |-> x.size]

-----------------------------------------------------------------------------

\* Regression, as above: the second word is not looked at.
GetBitsFromWord(x, pos, len) ==
    ShiftRight(WordAt(x, WordOf(pos)), InWord(pos)) \cap LowMask(len)

\* get_bits(), and operator[] for one bit
GetBits(x, pos, len) ==
    LET block == WordOf(pos)
        shift == InWord(pos)
        high == ShiftRight(WordAt(x, block), shift)
    IN  IF len = 0 THEN {}
        ELSE IF shift + len <= WordBits THEN high \cap LowMask(len)
        ELSE high \cup (ShiftLeft(WordAt(x, block + 1), WordBits - shift) \cap LowMask(len))

\* get_word64(): zeros where the words end.
GetWord(x, pos) ==
    LET block == WordOf(pos)
        shift == InWord(pos)
    IN  ShiftRight(WordAt(x, block), shift) \cup
        (IF shift # 0 /\ block + 1 < Len(x.words)
         THEN ShiftLeft(WordAt(x, block + 1), WordBits - shift) ELSE {})

\* The ones in the words of a vector, and in the memory it is in.
WordOnes(x) ==
    UNION {{i * WordBits + b : b \in WordAt(x, i)} : i \in 0 .. Len(x.words) - 1}
Memory(x) == WordOnes(x) \cup {b \in Beyond : b >= Len(x.words) * WordBits}

\* get_word56(): the load of a word that begins at any byte, and may end
\* behind the vector.
GetWordAtByte(x, pos) ==
    LET base == (pos \div ByteBits) * ByteBits
        loaded == {b \in Word : base + b \in Memory(x)}
    IN  ShiftRight(loaded, pos % ByteBits)

\* predecessor1()
Predecessor1(x, pos) ==
    LET block == WordOf(pos)
        shift == WordBits - InWord(pos) - 1
        word(i) == IF i = block THEN ShiftRight(ShiftLeft(WordAt(x, i), shift), shift)
                   ELSE WordAt(x, i)
        found == Highest({i \in 0 .. block : word(i) # {}})
    IN  found * WordBits + Highest(word(found))

-----------------------------------------------------------------------------

\* unary_iterator(bv, pos)
UnaryAt(x, pos) ==
    [at |-> pos, buf |-> WordAt(x, WordOf(pos)) \ LowMask(InWord(pos))]

\* Regression, as above: next() leaves the one it found in the buffer.
UnaryNextUncleared(x, e) ==
    LET first == WordOf(e.at)
        buf(i) == IF i = first THEN e.buf ELSE WordAt(x, i)
        found == Lowest({i \in first .. Len(x.words) - 1 : buf(i) # {}})
    IN  [at |-> found * WordBits + Lowest(buf(found)), buf |-> buf(found)]

\* next(): the word of the next one, which is then cleared in the buffer.
UnaryNext(x, e) ==
    LET first == WordOf(e.at)
        buf(i) == IF i = first THEN e.buf ELSE WordAt(x, i)
        found == Lowest({i \in first .. Len(x.words) - 1 : buf(i) # {}})
        one == Lowest(buf(found))
    IN  [at |-> found * WordBits + one, buf |-> buf(found) \ {one}]

\* The word in which the n-th one comes, and its number there, when these are
\* the words by their index.
InWhichWord(words, n) ==
    LET before(i) == Cardinality({one \in (DOMAIN words) \X Word :
                                     one[1] < i /\ one[2] \in words[one[1]]})
        found == Lowest({i \in DOMAIN words : before(i) + PopCount(words[i]) > n})
    IN  [word |-> found, nth |-> n - before(found)]

\* skip()
UnarySkip(x, e, n) ==
    LET first == WordOf(e.at)
        buf == [i \in first .. Len(x.words) - 1 |->
                  IF i = first THEN e.buf ELSE WordAt(x, i)]
        found == InWhichWord(buf, n)
        pos == SelectInWord(buf[found.word], found.nth)
    IN  [at |-> found.word * WordBits + pos, buf |-> buf[found.word] \ LowMask(pos)]

\* skip0(): the zeros are the complement of the buffer.
UnarySkip0(x, e, n) ==
    LET first == WordOf(e.at)
        zeros == [i \in first .. Len(x.words) - 1 |->
                    IF i = first THEN Complement(e.buf) \ LowMask(InWord(e.at))
                    ELSE Complement(WordAt(x, i))]
        found == InWhichWord(zeros, n)
        pos == SelectInWord(zeros[found.word], found.nth)
    IN  [at |-> found.word * WordBits + pos,
         buf |-> Complement(zeros[found.word]) \ LowMask(pos)]

-----------------------------------------------------------------------------

\* bits_iterator(data, pos)
BitsAt(pos) == [pos |-> pos, buf |-> {}, avail |-> 0]

\* fill_buf()
Filled(x, it) == [it EXCEPT !.buf = GetWord(x, it.pos), !.avail = WordBits]

\* Regression, as above: the buffer is filled only when it is empty.
ReadBitsFromRest(x, it, len) ==
    LET f == IF it.avail = 0 /\ len > 0 THEN Filled(x, it) ELSE it
    IN  [value |-> f.buf \cap LowMask(len),
         it |-> [pos |-> f.pos + len, buf |-> ShiftRight(f.buf, len),
                 avail |-> IF f.avail < len THEN 0 ELSE f.avail - len]]

\* get_bits(): the buffer keeps what it had when a whole word is taken.
ReadBits(x, it, len) ==
    LET f == IF it.avail < len THEN Filled(x, it) ELSE it
        whole == len = WordBits
    IN  [value |-> IF whole THEN f.buf ELSE f.buf \cap LowMask(len),
         it |-> [pos |-> f.pos + len,
                 buf |-> IF whole THEN f.buf ELSE ShiftRight(f.buf, len),
                 avail |-> f.avail - len]]

\* skip_zeros(): whole buffers are passed until one has a one.
SkipZeros(x, it) ==
    LET start(i) == it.pos + it.avail + (i - 1) * WordBits
        fills == IF it.buf # {} THEN 0
                 ELSE Lowest({i \in 1 .. Len(x.words) + 1 :
                             start(i) < x.size /\ GetWord(x, start(i)) # {}})
        f == IF fills = 0 THEN it ELSE Filled(x, BitsAt(start(fills)))
        l == Lowest(f.buf)
    IN  [zeros |-> (f.pos - it.pos) + l,
         it |-> [pos |-> f.pos + l + 1, buf |-> ShiftRight(f.buf, l + 1),
                 avail |-> f.avail - (l + 1)]]

\* push_pad(), eat_pad()
PadOf(pos) == (ByteBits - (pos % ByteBits)) % ByteBits
PushPad(x) == AppendBits(x, {}, PadOf(x.size))
EatPad(x, it) == IF PadOf(it.pos) = 0 THEN it ELSE ReadBits(x, it, PadOf(it.pos)).it

\* write_gamma(): the length of n + 1 in unary, then its bits but the highest.
WriteGamma(x, n) ==
    LET l == Highest(Binary(n + 1))
    IN  AppendBits(AppendBits(x, {l}, l + 1), Binary(n + 1) \ {l}, l)

WriteGammaNonzero(x, n) == WriteGamma(x, n - 1)

ReadGamma(x, it) ==
    LET unary == SkipZeros(x, it)
        rest == ReadBits(x, unary.it, unary.zeros)
    IN  [value |-> Number(rest.value \cup {unary.zeros}) - 1, it |-> rest.it]

ReadGammaNonzero(x, it) ==
    LET read == ReadGamma(x, it) IN [read EXCEPT !.value = @ + 1]

\* write_delta(): as above, with the length in gamma code.
WriteDelta(x, n) ==
    LET l == Highest(Binary(n + 1))
    IN  AppendBits(WriteGamma(x, l), Binary(n + 1) \ {l}, l)

ReadDelta(x, it) ==
    LET length == ReadGamma(x, it)
        rest == ReadBits(x, length.it, length.value)
    IN  [value |-> Number(rest.value \cup {length.value}) - 1, it |-> rest.it]

=============================================================================

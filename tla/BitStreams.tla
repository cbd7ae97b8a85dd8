----------------------------- MODULE BitStreams -----------------------------
(***************************************************************************)
(* The life of a bit vector: a builder is filled by any of its operations  *)
(* in any order, the vector takes its words, and readers with buffers of   *)
(* their own go over it: bits_iterator, which takes some bits or skips     *)
(* zeros, and unary_iterator, which goes from one to one.                  *)
(***************************************************************************)
EXTENDS BitVector

CONSTANTS
    MaxBits,   \* bound: the size of a vector
    MaxOther,  \* bound: the size of a builder that is appended
    MaxNumber  \* bound: the numbers that are written in a code

ASSUME BoundsAssumption == {MaxBits, MaxOther, MaxNumber} \subseteq Nat

\* The codes are of n + 1, which fits in a word.
ASSUME NumberAssumption == MaxNumber + 1 < PowerOf2[WordBits]

VARIABLES
    builder, \* bit_vector_builder, whose words the vector takes
    bits,    \* history: the bits it was given, a sequence of zeros and ones
    phase,   \* "build"; "built": no reader; "bits", "ones": with that reader
    reader,  \* the bits_iterator
    taken,   \* what it returned last: the ones in it
    ones,    \* the unary_iterator
    shown    \* history: where the enumerator that it stands for is

streamVars == <<builder, bits, phase, reader, taken, ones, shown>>

NoOnes == [at |-> 0, buf |-> {}]

StreamInit ==
    /\ builder = EmptyBuilder
    /\ bits = <<>>
    /\ phase = "build"
    /\ reader = BitsAt(0)
    /\ taken = {}
    /\ ones = NoOnes
    /\ shown = EnumeratorAt(0)

\* The first bits of a word, as a sequence; and the ones of a sequence.
Sequence(word, len) == [i \in 1 .. len |-> IF i - 1 \in word THEN 1 ELSE 0]
OnesOf(seq) == {i - 1 : i \in {j \in DOMAIN seq : seq[j] = 1}}

Changes(x, seq) ==
    /\ phase = "build"
    /\ Len(seq) <= MaxBits
    /\ builder' = x
    /\ bits' = seq
    /\ UNCHANGED <<phase, reader, taken, ones, shown>>

Push == \E bit \in {0, 1} : Changes(PushBack(builder, bit), Append(bits, bit))

Extend ==
    \E n \in 0 .. MaxBits - Len(bits) :
        Changes(ZeroExtend(builder, n), bits \o [i \in 1 .. n |-> 0])

Set ==
    \E pos \in 0 .. Len(bits) - 1 : \E bit \in {0, 1} :
        Changes(SetBit(builder, pos, bit), [bits EXCEPT ![pos + 1] = bit])

Overwrite ==
    \E len \in 0 .. WordBits : \E pos \in 0 .. Len(bits) - len : \E word \in SUBSET LowMask(len) :
        Changes(SetBits(builder, pos, word, len),
                [i \in DOMAIN bits |-> IF i \in pos + 1 .. pos + len
                                       THEN Sequence(word, len)[i - pos] ELSE bits[i]])

AppendWord ==
    \E len \in 0 .. WordBits : \E word \in SUBSET LowMask(len) :
        Changes(AppendBits(builder, word, len), bits \o Sequence(word, len))

\* The other builder was filled in the same way, so it holds its bits as
\* WordsHoldBits says of this one.
Holding(seq) ==
    LET word(i) == {b \in Word : i * WordBits + b \in OnesOf(seq)}
        words == [i \in 1 .. WordsFor(Len(seq)) |-> word(i - 1)]
    IN  [words |-> words, size |-> Len(seq), cur |-> Len(words)]

AppendOther ==
    \E n \in 0 .. MaxOther : \E other \in [1 .. n -> {0, 1}] :
        Changes(AppendVector(builder, Holding(other)), bits \o other)

Turn ==
    Changes(Reversed(builder), [i \in DOMAIN bits |-> bits[Len(bits) + 1 - i]])

Pad == Changes(PushPad(builder), bits \o [i \in 1 .. PadOf(Len(bits)) |-> 0])

\* build(); a vector without bits gets no reader.
Build ==
    /\ phase = "build"
    /\ bits # <<>>
    /\ phase' = "built"
    /\ UNCHANGED <<builder, bits, reader, taken, ones, shown>>

Vector == Built(builder)

OpenBits ==
    /\ phase = "built"
    /\ phase' = "bits"
    /\ \E pos \in 0 .. Len(bits) - 1 : reader' = BitsAt(pos)
    /\ UNCHANGED <<builder, bits, taken, ones, shown>>

\* The reader is destroyed; the vector may get another.
DropReader ==
    /\ phase \in {"bits", "ones"}
    /\ phase' = "built"
    /\ reader' = BitsAt(0)
    /\ taken' = {}
    /\ ones' = NoOnes
    /\ shown' = EnumeratorAt(0)
    /\ UNCHANGED <<builder, bits>>

\* No caller takes a whole word, which would leave it in the buffer.
Take ==
    /\ phase = "bits"
    /\ \E len \in 0 .. WordBits - 1 :
        LET read == ReadBits(Vector, reader, len)
        IN  /\ reader.pos + len <= Len(bits)
            /\ reader' = read.it
            /\ taken' = read.value
    /\ UNCHANGED <<builder, bits, phase, ones, shown>>

\* The caller knows that there is a one.
SkipToOne ==
    /\ phase = "bits"
    /\ \E one \in OnesOf(bits) : one >= reader.pos
    /\ LET skip == SkipZeros(Vector, reader)
       IN  reader' = skip.it /\ taken' = {skip.zeros}
    /\ UNCHANGED <<builder, bits, phase, ones, shown>>

-----------------------------------------------------------------------------

\* The vector as the encodings see it.
View == [ones |-> OnesOf(bits), size |-> Len(bits)]

OpenOnes ==
    /\ phase = "built"
    /\ phase' = "ones"
    /\ \E pos \in 0 .. Len(bits) - 1 :
        ones' = UnaryAt(Vector, pos) /\ shown' = EnumeratorAt(pos)
    /\ UNCHANGED <<builder, bits, reader, taken>>

UnreadOnes == {one \in OnesOf(bits) : one >= shown.unread}

MoveOnes(e, en) ==
    /\ phase = "ones"
    /\ ones' = e
    /\ shown' = en
    /\ UNCHANGED <<builder, bits, phase, reader, taken>>

NextOneOf ==
    /\ UnreadOnes # {}
    /\ LET one == NextOne(View, shown, 0)
       IN  MoveOnes(UnaryNext(Vector, ones), [at |-> one, unread |-> one + 1])

SkipOnes ==
    \E n \in 0 .. Cardinality(UnreadOnes) - 1 :
        MoveOnes(UnarySkip(Vector, ones, n), Skipped(View, shown, n))

\* The zeros from the current bit on, consumed ones included.
ZerosAhead == {b \in shown.at .. Len(bits) - 1 : b < shown.unread \/ b \notin OnesOf(bits)}

SkipZerosOf ==
    \E n \in 0 .. Cardinality(ZerosAhead) - 1 :
        MoveOnes(UnarySkip0(Vector, ones, n), SkippedZeros(View, shown, n))

StreamNext ==
    \/ Push \/ Extend \/ Set \/ Overwrite \/ AppendWord \/ AppendOther \/ Turn \/ Pad
    \/ Build \/ DropReader
    \/ OpenBits \/ Take \/ SkipToOne
    \/ OpenOnes \/ NextOneOf \/ SkipOnes \/ SkipZerosOf

StreamSpec == StreamInit /\ [][StreamNext]_streamVars

-----------------------------------------------------------------------------

\* Whatever the order of the calls, the words hold the bits that were given
\* and nothing else, the padding of the last word is zero, there is no word
\* too many, and the next bits go to the last word.
WordsHoldBits ==
    /\ builder.size = Len(bits)
    /\ Len(builder.words) = WordsFor(Len(bits))
    /\ builder.cur = Len(builder.words)
    /\ WordOnes(builder) = OnesOf(bits)

OneBits(pos, len) == {b \in 0 .. len - 1 : pos + b \in OnesOf(bits)}

\* Any bits of the vector can be read at any place, in words that begin at a
\* bit or at a byte, whatever follows in memory; and the one before any place
\* is found.
BitsInPlace ==
    phase = "build" =>
        \A pos \in 0 .. Len(bits) - 1 :
            /\ \A len \in 0 .. WordBits :
                pos + len <= Len(bits) =>
                    /\ GetBits(builder, pos, len) = OneBits(pos, len)
                    /\ GetWord(builder, pos) \cap LowMask(len) = OneBits(pos, len)
                    /\ len <= WordBits - ByteBits + 1 =>
                        GetWordAtByte(builder, pos) \cap LowMask(len) = OneBits(pos, len)
            /\ OneBits(0, pos + 1) # {} =>
                /\ Predecessor1(builder, pos) \in OneBits(0, pos + 1)
                /\ \A one \in OneBits(0, pos + 1) : one <= Predecessor1(builder, pos)

\* A number in gamma or delta code, put at the end, is read back up to its
\* last bit.
CodesReadBack ==
    phase = "build" =>
        \A n \in 0 .. MaxNumber :
            LET gamma == WriteGamma(builder, n)
                delta == WriteDelta(builder, n)
                readGamma == ReadGamma(gamma, BitsAt(builder.size))
                readDelta == ReadDelta(delta, BitsAt(builder.size))
            IN  /\ readGamma.value = n /\ readGamma.it.pos = gamma.size
                /\ readDelta.value = n /\ readDelta.it.pos = delta.size

\* The two together: all that is read without moving a reader.
ReadsInPlace == BitsInPlace /\ CodesReadBack

\* What a bits_iterator returns is what it passes over, although it fills its
\* buffer in the middle of words and drops what is left in it when that is
\* too short.
ReadsWhatItPasses ==
    [][phase = "bits" /\ phase' = "bits" /\ reader'.pos > reader.pos =>
        taken' = OneBits(reader.pos, reader'.pos - reader.pos)]_streamVars

\* A unary_iterator, whose buffer is a word with its consumed ones cleared,
\* is where the enumerator of the encodings is.
UnaryInStep ==
    phase = "ones" =>
        /\ ones.at = shown.at
        /\ {WordOf(ones.at) * WordBits + b : b \in ones.buf}
               = {one \in UnreadOnes : WordOf(one) = WordOf(ones.at)}

=============================================================================

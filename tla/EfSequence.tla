----------------------------- MODULE EfSequence -----------------------------
(***************************************************************************)
(* ef_sequence: an ascending sequence of integers, their low bits one      *)
(* after another and their high bits in a vector with a one for each; and  *)
(* darray1, an index over that vector that tells where the i-th one is.    *)
(***************************************************************************)
EXTENDS BitVector

LOCAL INSTANCE FiniteSetsExt
LOCAL INSTANCE SequencesExt

CONSTANTS
    BlockSize,     \* darray::block_size
    SubblockSize,  \* darray::subblock_size
    MaxInBlockDistance  \* 2^16, of darray

ASSUME DArrayAssumption ==
    /\ {BlockSize, SubblockSize, MaxInBlockDistance} \subseteq Nat \ {0}
    /\ BlockSize % SubblockSize = 0

\* The positions of the ones, from 0.
OnePositions(x) ==
    LET all == {pos \in WordOnes(x) : pos < x.size}
    IN  [i \in 0 .. Cardinality(all) - 1 |-> Nth(all, i)]

\* The distances from the first one of a block fit its subblock entries, which
\* hold 16 bits and are cut to them.
Dense(first, last) == last - first < MaxInBlockDistance
Entry(distance) == distance % MaxInBlockDistance

\* darray(): flush_cur_block for every block of ones. A sparse block has its
\* positions in overflow, from the one that -1 - its entry tells.
DArray(x) ==
    LET pos == OnePositions(x)
        ones == Cardinality(DOMAIN pos)
        blocks == CeilDiv(ones, BlockSize)
        flush[b \in 0 .. blocks] ==
            IF b = 0 THEN [blocks |-> <<>>, subblocks |-> <<>>, overflow |-> <<>>]
            ELSE LET first == (b - 1) * BlockSize
                     size == Min({BlockSize, ones - first})
                     entries == CeilDiv(size, SubblockSize)
                     dense == Dense(pos[first], pos[first + size - 1])
                     was == flush[b - 1]
                 IN  [blocks |-> Append(was.blocks, IF dense THEN pos[first]
                                                    ELSE -1 - Len(was.overflow)),
                      subblocks |-> was.subblocks \o
                          [i \in 1 .. entries |->
                              IF dense THEN Entry(pos[first + (i - 1) * SubblockSize] - pos[first])
                              ELSE MaxInBlockDistance - 1],
                      overflow |-> was.overflow \o
                          (IF dense THEN <<>> ELSE [i \in 1 .. size |-> pos[first + i - 1]])]
    IN  [positions |-> ones] @@ flush[blocks]

\* select()
DSelect(d, x, i) ==
    LET block == d.blocks[(i \div BlockSize) + 1]
        start == block + d.subblocks[(i \div SubblockSize) + 1]
        rest == i % SubblockSize
        words == [j \in WordOf(start) .. Len(x.words) - 1 |->
                    IF j = WordOf(start) THEN WordAt(x, j) \ LowMask(InWord(start))
                    ELSE WordAt(x, j)]
        found == InWhichWord(words, rest)
    IN  IF block < 0 THEN d.overflow[-block - 1 + (i % BlockSize) + 1]
        ELSE IF rest = 0 THEN start
        ELSE found.word * WordBits + SelectInWord(words[found.word], found.nth)

\* compress(): the sequence is not empty and its last value is the greatest.
EfOf(seq) ==
    LET n == Len(seq)
        u == Last(seq)
        l == IF u \div n > 0 THEN Highest(Binary(u \div n)) ELSE 0
        step[i \in 0 .. n] ==
            IF i = 0 THEN [high |-> NewBuilder(n + (u \div 2 ^ l) + 1, FALSE), low |-> EmptyBuilder]
            ELSE [high |-> SetBit(step[i - 1].high, (seq[i] \div 2 ^ l) + i - 1, 1),
                  low |-> AppendBits(step[i - 1].low, Binary(seq[i] % 2 ^ l), l)]
        high == Built(step[n].high)
    IN  [l |-> l, size |-> n, high |-> high, low |-> Built(step[n].low), ones |-> DArray(high)]

\* access()
EfAccess(s, i) ==
    (DSelect(s.ones, s.high, i) - i) * 2 ^ s.l + Number(GetBits(s.low, i * s.l, s.l))

-----------------------------------------------------------------------------

\* The low parts that fit a word are buffered; the one of the current value
\* is at its low end, and avail more are in the buffer.
Chunks(s) == IF s.l > 0 THEN WordBits \div s.l ELSE 0

\* Regression the checks must catch (never used by a specification): the
\* first value is not counted as read.
EfIteratorUncounted(s, pos) ==
    LET enum == UnaryNext(s.high, UnaryAt(s.high, DSelect(s.ones, s.high, pos)))
    IN  [pos |-> pos,
         enum |-> enum,
         low |-> IF s.l > 0 THEN GetWord(s.low, pos * s.l) ELSE {},
         avail |-> IF s.l > 0 THEN Chunks(s) ELSE s.ones.positions]

\* at(): the high bits are read from the one of the position on.
EfIterator(s, pos) ==
    LET enum == UnaryNext(s.high, UnaryAt(s.high, DSelect(s.ones, s.high, pos)))
    IN  [pos |-> pos,
         enum |-> enum,
         low |-> IF s.l > 0 THEN GetWord(s.low, pos * s.l) ELSE {},
         avail |-> IF s.l > 0 THEN Chunks(s) - 1 ELSE s.ones.positions]

\* operator*
EfRead(s, it) == (it.enum.at - it.pos) * 2 ^ s.l + Number(it.low \cap LowMask(s.l))

\* operator++; behind the last value nothing but the position moves.
EfNext(s, it) ==
    LET pos == it.pos + 1
        fill == it.avail = 0
    IN  IF pos = s.size THEN [it EXCEPT !.pos = pos]
        ELSE [pos |-> pos,
              enum |-> UnaryNext(s.high, it.enum),
              low |-> IF fill THEN GetWord(s.low, pos * s.l) ELSE ShiftRight(it.low, s.l),
              avail |-> IF fill THEN Chunks(s) - 1 ELSE it.avail - 1]

=============================================================================

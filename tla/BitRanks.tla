------------------------------ MODULE BitRanks ------------------------------
(***************************************************************************)
(* rs_bit_vector: a bit vector with the number of zeros before each of its *)
(* blocks, and for every so many zeros a hint in which block they are.     *)
(* Bits and blocks are counted from 0, as in the code.  How a block is     *)
(* searched (packed counts of its words) is left out.                      *)
(***************************************************************************)
EXTENDS Integers, Sequences, FiniteSetsExt

CONSTANTS
    RankBlock,    \* the bits of a block, 64 * block_size
    ZerosPerHint  \* select_zeros_per_hint

\* "must be > block_size * 64"
ASSUME HintAssumption ==
    RankBlock \in Nat \ {0} /\ ZerosPerHint \in Nat /\ ZerosPerHint > RankBlock

CeilDiv(x, y) == (x + y - 1) \div y

\* A loop: what n rounds of it make of its variables.  `step` is a function of
\* their values, and leaves them alone when the loop has ended.
Rounds(n, step, start) ==
    LET R[i \in 0 .. n] == IF i = 0 THEN start ELSE step[R[i - 1]]
    IN  R[n]

\* How many of the first bits are zeros.
ZerosOf(bits) ==
    LET Z[p \in 0 .. Len(bits)] == IF p = 0 THEN 0 ELSE Z[p - 1] + (1 - bits[p])
    IN  [p \in 0 .. Len(bits) |-> Z[p]]

\* block_rank0(): the last block is padded with zeros.
BlockZeros(zeros, size, block) ==
    LET before == Min({block * RankBlock, size})
    IN  zeros[before] + (block * RankBlock - before)

\* The loop of build_indices over the blocks.
HintsOf(zeros, size) ==
    LET blocks == CeilDiv(size, RankBlock)
        look == [s \in [block : Nat, threshold : Nat, hints : Seq(Nat)] |->
                    IF BlockZeros(zeros, size, s.block + 1) > s.threshold
                    THEN [block |-> s.block + 1,
                          threshold |-> s.threshold + ZerosPerHint,
                          hints |-> Append(s.hints, s.block)]
                    ELSE [s EXCEPT !.block = @ + 1]]
        start == [block |-> 0, threshold |-> ZerosPerHint, hints |-> <<>>]
    IN  Append(Rounds(blocks, look, start).hints, blocks)

\* rank0() and excess(): how many more ones than zeros are before a position.
Rank0(v, pos) == v.zeros[pos]
Excess(v, pos) == pos - 2 * Rank0(v, pos)

\* The blocks between which select0() searches, by its hints.
HintedFrom(v, n) ==
    LET chunk == n \div ZerosPerHint IN IF chunk = 0 THEN 0 ELSE v.hints[chunk]
HintedTo(v, n) == v.hints[(n \div ZerosPerHint) + 1] + 1

\* The loop of select0(): the last block with at most n zeros before it.
BlockOfZero(v, n) ==
    LET search == [s \in [from : Nat, to : Nat] |->
                      LET mid == s.from + ((s.to - s.from) \div 2)
                      IN  IF s.to - s.from <= 1 THEN s
                          ELSE IF BlockZeros(v.zeros, v.size, mid) <= n
                          THEN [s EXCEPT !.from = mid]
                          ELSE [s EXCEPT !.to = mid]]
    IN  Rounds(CeilDiv(v.size, RankBlock), search,
               [from |-> HintedFrom(v, n), to |-> HintedTo(v, n)]).from

\* select0(): the position of the zero that has n zeros before it.
Select0(v, n) ==
    LET first == BlockOfZero(v, n) * RankBlock
    IN  Min({p \in first .. first + RankBlock - 1 : p < v.size /\ v.zeros[p + 1] = n + 1})

=============================================================================

--------------------------- MODULE BalancedParens ---------------------------
(***************************************************************************)
(* bp_vector: a sequence of parentheses (1 opens, 0 closes) that finds the *)
(* leftmost position of the least excess in a range.  It looks through the *)
(* words at the ends of the range, the minima of whole blocks, and a tree  *)
(* of the minima of superblocks, which is stored like a heap: the children *)
(* of a node are 2 * node and 2 * node + 1, the leaves come after          *)
(* `internal` nodes.  The bytes of a word are searched with tables, which  *)
(* is left out, and find_open and find_close, which nothing here calls.    *)
(***************************************************************************)
EXTENDS BitRanks

CONSTANTS
    WordBits,       \* 64
    BlockWords,     \* bp_block_size
    SuperblockSize  \* superblock_size, in blocks

ASSUME BlockAssumption == {WordBits, BlockWords, SuperblockSize} \subseteq Nat \ {0}

BlockBits == WordBits * BlockWords
SuperblockBits == BlockBits * SuperblockSize

\* The least excess in a block, both of its ends included.
BlockMin(v, block) ==
    Min({Excess(v, p) : p \in block * BlockBits .. Min({(block + 1) * BlockBits, v.size})})

\* The least excess in the blocks of a superblock.
SuperblockMin(v, superblock) ==
    Min({BlockMin(v, block) :
            block \in superblock * SuperblockSize ..
                      Min({(superblock + 1) * SuperblockSize, CeilDiv(v.size, BlockBits)}) - 1})

\* The least power of two that is not less than the number of superblocks.
Internal(size) ==
    LET superblocks == CeilDiv(size, SuperblockBits)
        grow == [n \in Nat |-> IF n < superblocks THEN 2 * n ELSE n]
    IN  Rounds(superblocks, grow, 1)

\* build_min_tree(): the leaves, and from the bottom up every node updates its
\* parent; those with nothing below keep the size.
MinTree(v) ==
    LET internal == Internal(v.size)
        last == internal + CeilDiv(v.size, SuperblockBits) - 1
        leaves == [node \in 0 .. last |->
                      IF node >= internal THEN SuperblockMin(v, node - internal) ELSE v.size]
        update == [s \in [node : Nat, tree : [0 .. last -> Int]] |->
                      IF s.node <= 1 THEN s
                      ELSE [node |-> s.node - 1,
                            tree |-> [s.tree EXCEPT ![s.node \div 2] = Min({@, s.tree[s.node]})]]]
    IN  Rounds(last, update, [node |-> last, tree |-> leaves]).tree

\* The structure built of a sequence of bits.
Parens(bits) ==
    LET zeros == ZerosOf(bits)
        v == [size |-> Len(bits), zeros |-> zeros, hints |-> HintsOf(zeros, Len(bits))]
    IN  [size |-> v.size, zeros |-> v.zeros, hints |-> v.hints,
         internal |-> Internal(v.size), tree |-> MinTree(v),
         blockMin |-> [b \in 0 .. CeilDiv(v.size, BlockBits) - 1 |-> BlockMin(v, b)]]

-----------------------------------------------------------------------------

\* excess_rmq_in_word, excess_rmq_in_block: best, or the leftmost position of
\* the least excess if that is less.
InWords(v, positions, best) ==
    LET least == Min({Excess(v, p) : p \in positions})
    IN  IF positions = {} \/ least >= Excess(v, best) THEN best
        ELSE Min({p \in positions : Excess(v, p) = least})

\* excess_rmq_in_superblock: the same with blocks.  best is a block and its
\* minimum.
InBlocks(v, blocks, best) ==
    LET least == Min({v.blockMin[b] : b \in blocks})
    IN  IF blocks = {} \/ least >= best.exc THEN best
        ELSE [exc |-> least, block |-> Min({b \in blocks : v.blockMin[b] = least})]

Lesser(v, node, best) == IF v.tree[node] < v.tree[best] THEN node ELSE best

\* The variables of find_min_superblock(): the node, the last leaf below it
\* (rightmost_span), how many leaves are below it (1 << h), and the candidate;
\* met tells that the way up has ended.
Climbs == [node : Nat, span : Nat, width : Nat, best : Nat, met : BOOLEAN]
Climb(node, span, width, best, met) ==
    [node |-> node, span |-> span, width |-> width, best |-> best, met |-> met]

\* Going up from a leaf: every right sibling whose leaves all come before the
\* end is a candidate, until the one that reaches the end.
GoUp(v, start, end) ==
    LET leaf == v.internal + start
        up == [s \in Climbs |->
                  LET sibling == s.node + 1
                      span == s.span + s.width
                      best == IF span < end THEN Lesser(v, sibling, s.best) ELSE s.best
                  IN  IF s.met THEN s
                      ELSE IF s.node % 2 = 1
                      THEN Climb(s.node \div 2, s.span, 2 * s.width, s.best, FALSE)
                      ELSE IF span >= end - 1
                      THEN Climb(sibling, span, s.width, best, TRUE)
                      ELSE Climb(s.node \div 2, span, 2 * s.width, best, FALSE)]
    IN  Rounds(v.internal, up, Climb(leaf, start, 1, leaf, FALSE))

\* Regression the checks must catch (never used by a specification): the left
\* children are forgotten on the way down.
GoStraightDown(v, end, from) == Lesser(v, v.internal + end - 1, from.best)

\* Going down to the end: the left child is a candidate when the right one is
\* entered.
GoDown(v, end, from) ==
    LET down == [s \in Climbs |->
                    LET left == 2 * s.node
                        width == s.width \div 2
                    IN  IF s.span <= end - 1 THEN s
                        ELSE IF s.span - width >= end - 1
                        THEN Climb(left, s.span - width, width, s.best, s.met)
                        ELSE Climb(left + 1, s.span, width, Lesser(v, left, s.best), s.met)]
        last == Rounds(v.internal, down, from)
    IN  IF last.span < end THEN Lesser(v, last.node, last.best) ELSE last.best

\* The leftmost leaf with the minimum of a node.
LeafOf(v, node) ==
    LET down == [n \in Nat |-> IF n >= v.internal THEN n
                               ELSE IF v.tree[2 * n + 1] < v.tree[2 * n] THEN 2 * n + 1
                               ELSE 2 * n]
    IN  Rounds(v.internal, down, node)

\* find_min_superblock(): the leftmost of the superblocks start .. end - 1
\* that has the least minimum, as a node.
MinSuperblock(v, start, end) ==
    IF end - start = 1 THEN v.internal + start
    ELSE LeafOf(v, GoDown(v, end, GoUp(v, start, end)))

\* The blocks first .. last - 1, by superblocks where they hold whole ones.
\* exc is what a minimum has to be less than.
MinBlock(v, first, last, exc) ==
    LET none == [exc |-> exc, block |-> -1]
        start == first \div SuperblockSize
        end == last \div SuperblockSize
        head == InBlocks(v, first .. (start + 1) * SuperblockSize - 1, none)
        node == MinSuperblock(v, start + 1, end)
        inner == (node - v.internal) * SuperblockSize
        middle == IF start + 1 = end \/ v.tree[node] >= exc THEN head
                  ELSE InBlocks(v, inner .. inner + SuperblockSize - 1, head)
    IN  IF start = end THEN InBlocks(v, first .. last - 1, none)
        ELSE InBlocks(v, end * SuperblockSize .. last - 1, middle)

\* excess_rmq(): the leftmost of the positions a .. b with the least excess.
ExcessRmq(v, a, b) ==
    LET wordA == a \div WordBits
        wordB == (b - 1) \div WordBits
        blockA == wordA \div BlockWords
        blockB == wordB \div BlockWords
        inA == InWords(v, a + 1 .. Min({b, (wordA + 1) * WordBits}), a)
        inBlockA == InWords(v, (wordA + 1) * WordBits + 1 .. (blockA + 1) * BlockBits, inA)
        min == MinBlock(v, blockA + 1, blockB, Excess(v, inBlockA))
        inBlocks == IF min.exc >= Excess(v, inBlockA) THEN inBlockA
                    ELSE InWords(v, min.block * BlockBits + 1 .. (min.block + 1) * BlockBits, inBlockA)
        beforeB == IF blockA = blockB
                   THEN InWords(v, (wordA + 1) * WordBits + 1 .. wordB * WordBits, inA)
                   ELSE InWords(v, blockB * BlockBits + 1 .. wordB * WordBits, inBlocks)
    IN  IF a = b THEN a
        ELSE IF wordA = wordB THEN inA
        ELSE InWords(v, wordB * WordBits + 1 .. b, beforeB)

=============================================================================

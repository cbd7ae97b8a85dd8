--------------------------- MODULE CompactVector ---------------------------
(***************************************************************************)
(* compact_vector: integers of one width, one after another in words; its  *)
(* builder, and its enumerator.  Integers are counted from 0.              *)
(***************************************************************************)
EXTENDS BitVector

\* builder(n, w), or resize(n, w)
NewCompact(n, width) ==
    [words |-> [i \in 1 .. WordsFor(n * width) |-> {}],
     size |-> n, width |-> width, block |-> 0, shift |-> 0]

\* The place after one of that width.
Past(block, shift, width) ==
    [block |-> block + ((shift + width) \div WordBits),
     shift |-> (shift + width) % WordBits]

\* Regression the checks must catch (never used by a specification): what is
\* in the place already is kept.
PushedOver(c, word) ==
    LET next == Past(c.block, c.shift, c.width)
        kept == GetBits(c, c.block * WordBits + c.shift, c.width)
    IN  [c EXCEPT !.words = SetBits(c, c.block * WordBits + c.shift, kept \cup word, c.width).words,
                  !.block = next.block, !.shift = next.shift]

\* push_back(): what is in the place is cleared first, and the bits of a word
\* that is too wide run over into the places behind it.
Pushed(c, word) ==
    LET next == Past(c.block, c.shift, c.width)
    IN  [c EXCEPT !.words = SetBits(c, c.block * WordBits + c.shift, word, c.width).words,
                  !.block = next.block, !.shift = next.shift]

\* fill(), and build() from a sequence of words
CompactOf(seq, width) ==
    LET filled[n \in 0 .. Len(seq)] ==
            IF n = 0 THEN NewCompact(Len(seq), width) ELSE Pushed(filled[n - 1], seq[n])
        c == filled[Len(seq)]
    IN  [words |-> c.words, size |-> c.size, width |-> c.width]

\* operator[], and access(), which loads a word at any byte
CompactAt(c, i) == GetBits(c, i * c.width, c.width)
CompactAccess(c, i) == GetWordAtByte(c, i * c.width) \cap LowMask(c.width)

-----------------------------------------------------------------------------

\* at(): an enumerator is at an integer; its place is where it reads next.
CompactIterator(c, i) ==
    [i |-> i, block |-> WordOf(i * c.width), shift |-> InWord(i * c.width)]

\* operator*: the integer in its place, and the place moves on.
CompactRead(c, e) ==
    LET next == Past(e.block, e.shift, c.width)
    IN  [value |-> GetBits(c, e.block * WordBits + e.shift, c.width),
         it |-> [e EXCEPT !.block = next.block, !.shift = next.shift]]

\* operator++: the place does not move.
CompactNext(e) == [e EXCEPT !.i = @ + 1]

=============================================================================

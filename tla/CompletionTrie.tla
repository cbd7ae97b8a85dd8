--------------------------- MODULE CompletionTrie ---------------------------
(***************************************************************************)
(* completion_trie: the completions of index type 1, one level per         *)
(* position.  A completion ends with the terminator, a node of its own.    *)
(* Levels, nodes and completions count from 0, as in the code.             *)
(***************************************************************************)
EXTENDS Strings

CONSTANT SearchThreshold  \* global::linear_scan_threshold

ASSUME SearchThresholdAssumption == SearchThreshold \in Nat \ {0}

Terminator == 0

NotFound == -1

\* num_levels of the statistics: the terms of the longest completion and the
\* terminator.
Levels(completions) == Max({Len(completions[i]) : i \in DOMAIN completions}) + 1

\* The builder before it has read a completion; prev is the last one read.
Empty(levels) ==
    [prev |-> <<Terminator>>, read |-> 0,
     nodes |-> [i \in 0 .. levels - 1 |-> <<>>],
     lefts |-> [i \in 0 .. levels - 1 |-> <<>>],
     ends |-> [i \in 0 .. levels - 1 |-> <<>>],
     pointers |-> [i \in 0 .. levels - 2 |-> <<0>>],
     offsets |-> [i \in 0 .. levels - 2 |-> 0]]

\* Regression the checks must catch (never used by a specification): new nodes
\* are never counted as children of the node they branch off from.
NoBranch(l) == 0

\* A completion that shares a node with the one before branches off from it:
\* its first new node is one more child of that node, one level up.
One(l) == IF l > 0 THEN 1 ELSE 0

\* The loop of the builder: a completion closes the nodes of the one before it
\* that it does not share, and opens its own.
Read(b, completion) ==
    LET curr == Append(completion, Terminator)
        currS == Len(curr) - 1
        prevS == Len(b.prev) - 1
        l == Lcp(completion, SubSeq(b.prev, 1, prevS))
        closes(i) == prevS > 0 /\ i \in l .. prevS
        opens(i) == i \in l .. currS
        added(i) == IF i \in l - One(l) .. currS - 1 THEN 1 ELSE 0
    IN  [prev |-> curr, read |-> b.read + 1,
         nodes |-> [i \in DOMAIN b.nodes |->
             IF opens(i) THEN Append(b.nodes[i], curr[i + 1]) ELSE b.nodes[i]],
         lefts |-> [i \in DOMAIN b.lefts |->
             IF opens(i) THEN Append(b.lefts[i], b.read) ELSE b.lefts[i]],
         ends |-> [i \in DOMAIN b.ends |->
             IF closes(i) THEN Append(b.ends[i], b.read - 1) ELSE b.ends[i]],
         pointers |-> [i \in DOMAIN b.pointers |->
             IF closes(i) THEN Append(b.pointers[i], b.pointers[i][Len(b.pointers[i])] + b.offsets[i])
             ELSE b.pointers[i]],
         offsets |-> [i \in DOMAIN b.offsets |->
             (IF closes(i) THEN 0 ELSE b.offsets[i]) + added(i)]]

\* The nodes of a level as its ef_sequence holds them: to every node the last
\* value of the ranges of children before its own is added.
Summed(nodes, pointers) ==
    LET before(p) == Max({0} \cup {q \in Range(pointers) : q < p})
        V[p \in 0 .. Len(nodes)] == IF p = 0 THEN 0 ELSE nodes[p] + V[before(p)]
    IN  [p \in DOMAIN nodes |-> V[p]]

\* m_sizes: the sums of the numbers of completions below the nodes, less one.
Sizes(lefts, ends) ==
    LET S[p \in 0 .. Len(ends)] == IF p = 0 THEN 0 ELSE S[p - 1] + ends[p] - lefts[p]
    IN  [p \in DOMAIN ends |-> S[p]]

\* The trie the builder ends with.  (The left ends are kept as differences to
\* their positions, which locate_prefix adds again.)
Trie(completions) ==
    LET levels == Levels(completions)
        B[n \in 0 .. Len(completions)] ==
            IF n = 0 THEN Empty(levels) ELSE Read(B[n - 1], completions[n])
        b == B[Len(completions)]
        ends(i) == IF i < Len(b.prev) THEN Append(b.ends[i], b.read - 1) ELSE b.ends[i]
        pointers == [i \in DOMAIN b.pointers |-> Append(b.pointers[i], Len(b.nodes[i + 1]))]
    IN  [pointers |-> pointers,
         nodes |-> [i \in DOMAIN b.nodes |->
             IF i = 0 THEN b.nodes[i] ELSE Summed(b.nodes[i], pointers[i - 1])],
         lefts |-> b.lefts,
         sizes |-> [i \in DOMAIN b.ends |-> Sizes(b.lefts[i], ends(i))]]

-----------------------------------------------------------------------------

\* A node of a level, and the last value before a range of children.
Node(trie, i, p) == trie.nodes[i][p + 1]
PreviousUpper(trie, i, r) == IF r.begin = 0 THEN 0 ELSE Node(trie, i, r.begin - 1)

\* util::next_geq on a level: the first of the positions lo .. hi whose value
\* is at least the bound.
NextGeqNode(trie, i, bound, lo, hi) ==
    LET S[s \in (lo .. hi + 1) \X (lo - 1 .. hi)] ==
            LET l == s[1]
                h == s[2]
                scanned == {p \in l .. h : Node(trie, i, p) >= bound}
                pos == (l + h) \div 2
            IN  IF h - l <= SearchThreshold
                THEN IF scanned = {} THEN NotFound ELSE Min(scanned)
                ELSE IF Node(trie, i, pos) = bound THEN pos
                ELSE IF Node(trie, i, pos) < bound THEN S[<<pos + 1, h>>]
                ELSE IF bound > Node(trie, i, pos - 1) THEN pos
                ELSE S[<<l, pos - 1>>]
    IN  S[<<lo, hi>>]

\* util::find on a level, whose ranges of children hold no term twice.
FindTerm(trie, i, r, term) ==
    LET value == term + PreviousUpper(trie, i, r)
        found == {p \in r.begin .. r.end - 1 : Node(trie, i, p) = value}
    IN  IF found = {} THEN NotFound ELSE Min(found)

\* Regression the checks must catch (never used by a specification): the next
\* child is taken although it is past the end of the range of terms.
TakesNext(trie, i, r, lex) ==
    LET upper == PreviousUpper(trie, i, r)
        begin == NextGeqNode(trie, i, lex.begin + upper, r.begin, r.end - 1)
    IN  IF begin = NotFound THEN [begin |-> r.end, end |-> r.end]
        ELSE [begin |-> begin, end |-> begin + 1]

\* ef_sequence::find: the children in a range of terms, the end not included.
FindRange(trie, i, r, lex) ==
    LET upper == PreviousUpper(trie, i, r)
        begin == NextGeqNode(trie, i, lex.begin + upper, r.begin, r.end - 1)
        end == NextGeqNode(trie, i, lex.end + upper, begin, r.end - 1)
    IN  IF begin = NotFound \/ Node(trie, i, begin) > lex.end + upper
        THEN [begin |-> r.end, end |-> r.end]
        ELSE IF lex.begin = lex.end THEN [begin |-> begin, end |-> begin + 1]
        ELSE IF end = NotFound THEN [begin |-> begin, end |-> r.end]
        ELSE IF Node(trie, i, end) = lex.end + upper
        THEN [begin |-> begin, end |-> end + 1]
        ELSE [begin |-> begin, end |-> end]

\* The children of the node the prefix leads to.
Children(trie, prefix) ==
    LET Below(r, i) ==
            LET pos == FindTerm(trie, i - 1, r, prefix[i])
            IN  IF IsInvalid(r) \/ pos = NotFound THEN InvalidRange
                ELSE [begin |-> trie.pointers[i - 1][pos + 1],
                      end |-> trie.pointers[i - 1][pos + 2]]
        R[i \in 0 .. Len(prefix)] ==
            IF i = 0 THEN [begin |-> 0, end |-> Len(trie.nodes[0])] ELSE Below(R[i - 1], i)
    IN  R[Len(prefix)]

\* The completions below a node: the first, and one past the last.
FirstBelow(trie, i, p) == trie.lefts[i][p + 1]
PastBelow(trie, i, p) ==
    LET sizes == trie.sizes[i]
    IN  FirstBelow(trie, i, p) + sizes[p + 1] - (IF p = 0 THEN 0 ELSE sizes[p]) + 1

\* locate_prefix(): the completions that begin with the prefix and go on with
\* a term of the range, the end not included.
LocatePrefix(trie, prefix, lex) ==
    LET i == Len(prefix)
        r == Children(trie, prefix)
        q == FindRange(trie, i, r, lex)
    IN  IF IsInvalid(r) \/ q.begin = q.end THEN InvalidRange
        ELSE [begin |-> FirstBelow(trie, i, q.begin),
              end |-> PastBelow(trie, i, q.end - 1)]

=============================================================================

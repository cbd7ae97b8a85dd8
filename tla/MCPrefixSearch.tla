--------------------------- MODULE MCPrefixSearch ---------------------------
(* Model-checking instance of PrefixSearch: small collections that make the *)
(* dictionaries have one to three buckets and the trie up to four levels.   *)
EXTENDS PrefixSearch

InOrder(strings) ==
    [i \in 1 .. Cardinality(strings) |->
        CHOOSE s \in strings : Cardinality({t \in strings : Before(t, s)}) = i - 1]

\* The words: a, aa, ab, aba, b, ba, bb, with 1 for a and 2 for b.

Vocabulary == {<<1>>, <<1, 1>>, <<1, 2>>, <<1, 2, 1>>, <<2>>, <<2, 1>>, <<2, 2>>}

\* The identifiers of n completions: the last one is the best, or those at odd
\* places are better than the others.
Backward(n) == [i \in 1 .. n |-> n - i]
OddFirst(n) == [i \in 1 .. n |-> IF i % 2 = 1 THEN i \div 2 ELSE (n + i - 1) \div 2]

\* All dictionaries of up to seven words, each with the completions that
\* consist of one word, and of the first or the second and the last.
Dictionaries ==
    {LET n == Cardinality(words)
     IN  [terms |-> InOrder(words),
          completions |-> InOrder({<<t>> : t \in 1 .. n} \cup {<<t, n>> : t \in 1 .. Min({2, n})}),
          docids |-> Backward(n + Min({2, n}))] :
        words \in SUBSET Vocabulary \ {{}}}

\* Completions of up to three terms out of four.
Pool ==
    {<<1>>, <<1, 1>>, <<1, 2>>, <<1, 2, 3>>, <<1, 4>>, <<2>>, <<2, 1, 1>>, <<3, 4>>, <<4, 2>>}

\* All sets of these completions, over the words a, ab, b and ba.
Lexicons ==
    {[terms |-> <<<<1>>, <<1, 2>>, <<2>>, <<2, 1>>>>, completions |-> InOrder(completions),
      docids |-> OddFirst(Cardinality(completions))] :
        completions \in {s \in SUBSET Pool : UNION {Range(c) : c \in s} = 1 .. 4}}

MCCollections == Dictionaries \cup Lexicons

\* Those of which no string is lost in a full last bucket.
KeptCollections ==
    {c \in MCCollections : Lost(Len(c.terms)) = {} /\ Lost(Len(c.completions)) = {}}

\* Those of which terms are lost; the first term is not passed over, since only
\* an empty word and the term itself begin it.
LosingCollections ==
    {c \in Dictionaries : Lost(Len(c.terms)) # {} /\ Len(c.terms[1]) = 1}

\* The words asked for, one of which, c, is never in a dictionary.
MCWords == {<<1>>, <<1, 2>>, <<2>>, <<2, 1>>, <<3>>}
=============================================================================

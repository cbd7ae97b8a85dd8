---------------------------- MODULE IndexStorage ----------------------------
(***************************************************************************)
(* inverted_index and compact_forward_index as they are built from the     *)
(* files of a collection and read by queries, down to the words they are   *)
(* stored in; and docid_to_lexid of the index types 2 to 4.                *)
(*                                                                         *)
(* The lists of the terms follow each other in one bit vector, each behind *)
(* its length; those of the completions in one compact vector.  Two        *)
(* sequences of pointers tell where each begins.  One list is one step of  *)
(* a builder, as in its loop; then iterators scan what was built.          *)
(***************************************************************************)
EXTENDS Corpus, EliasFano, CompactVector, EfSequence

LOCAL INSTANCE FiniteSetsExt

CONSTANTS
    IdBits,        \* 32, the bits of an id_type
    MaxCompletion  \* bound: the terms of a completion

ASSUME IdAssumption ==
    /\ IdBits \in Nat \ {0} /\ IdBits <= WordBits /\ IdBits % ByteBits = 0
    /\ NumDocs < 2 ^ IdBits
    /\ MaxCompletion \in Nat

VARIABLES
    corpus,    \* the collection, as in its files
    listType,  \* "compact_ef" or "uncompressed"
    phase,     \* "inverted", "forward": that builder runs; "built"; "scan"
    data,      \* m_bvb
    pointers,  \* m_pointers of the builder that runs
    terms,     \* of the builder of the forward index
    inverted, forward, lexids,  \* what was built
    scan       \* an iterator, what it scans and the position it is at

vars == <<corpus, listType, phase, data, pointers, terms, inverted, forward, lexids, scan>>

Nothing == <<>>

Init ==
    /\ corpus \in {c \in Corpora : \A d \in DocIds : Cardinality(c[d]) <= MaxCompletion}
    /\ listType \in {"compact_ef", "uncompressed"}
    /\ phase = "inverted"
    /\ data = EmptyBuilder
    /\ pointers = <<0>>
    /\ terms = <<>>
    /\ inverted = Nothing /\ forward = Nothing /\ lexids = Nothing /\ scan = Nothing

\* The members of a set in ascending order, counted from 0.
SortedArray(S) == [i \in 0 .. Cardinality(S) - 1 |-> Nth(S, i)]

ListOf(t) == SortedArray(Posting(corpus, t))
CompletionOf(d) == SortedArray(corpus[d])

-----------------------------------------------------------------------------

\* ef_offsets: where the parts of a list of n identifiers begin.
Offsets(base, n) ==
    LET lower == LowerBits(n)
        length == n + (NumDocs \div 2 ^ lower) + 2
        pointer == CeilLog2(length)
        zeros == (length - n) \div 2 ^ LogSampling0
        ones == n \div 2 ^ LogSampling1
        pointers1 == base + zeros * pointer
        high == pointers1 + ones * pointer
    IN  [lower |-> lower, length |-> length, pointer |-> pointer,
         pointers0 |-> base, pointers1 |-> pointers1, high |-> high,
         low |-> high + length, end |-> high + length + n * lower]

\* set_ptr0s: pointers to the zeros between two ones, of which `rank` are before.
SetPointers0(x, of, begin, end, rank) ==
    LET first == CeilDiv(begin - rank, 2 ^ LogSampling0)
        last == CeilDiv(end - rank, 2 ^ LogSampling0) - 1
        set[p \in 0 .. Max({first, last})] ==
            IF p = 0 THEN x
            ELSE IF p < first \/ p > last THEN set[p - 1]
            ELSE SetBits(set[p - 1], of.pointers0 + (p - 1) * of.pointer,
                         Binary(p * 2 ^ LogSampling0 + rank), of.pointer)
    IN  set[Max({first, last})]

\* compact_ef::build()
WriteEf(x, a, n) ==
    LET of == Offsets(x.size, n)
        high(i) == (a[i] \div 2 ^ of.lower) + i + 1
        sampled(i) == i # 0 /\ i % 2 ^ LogSampling1 = 0
        from(i) == IF i = 0 THEN 1 ELSE high(i - 1) + 1
        put(y, i) ==
            LET one == SetBit(y, of.high + high(i), 1)
                low == SetBits(one, of.low + i * of.lower,
                               Binary(a[i] % 2 ^ of.lower), of.lower)
                ptr1 == IF sampled(i)
                        THEN SetBits(low, of.pointers1 + ((i \div 2 ^ LogSampling1) - 1) * of.pointer,
                                     Binary(high(i)), of.pointer)
                        ELSE low
            IN  SetPointers0(ptr1, of, from(i), high(i), i)
        step[i \in 0 .. n] ==
            IF i = 0 THEN ZeroExtend(x, of.end - x.size) ELSE put(step[i - 1], i - 1)
    IN  SetPointers0(step[n], of, from(n), of.length, n)

\* uncompressed_list::build()
WriteIds(x, a, n) ==
    LET step[i \in 0 .. n] ==
            IF i = 0 THEN x ELSE AppendBits(step[i - 1], Binary(a[i - 1]), IdBits)
    IN  step[n]

\* Regression the checks must catch (never used by the specification): the
\* identifiers of an uncompressed list begin anywhere.
UnpaddedList(x, a, n) ==
    LET head == WriteGammaNonzero(x, n)
    IN  IF listType = "compact_ef" THEN WriteEf(head, a, n) ELSE WriteIds(head, a, n)

\* A list behind its length.
WriteList(x, a, n) ==
    LET head == WriteGammaNonzero(x, n)
    IN  IF listType = "compact_ef" THEN WriteEf(head, a, n)
        ELSE WriteIds(PushPad(head), a, n)

\* inverted_index::builder, one round of its loop
AddTerm ==
    /\ phase = "inverted"
    /\ Len(pointers) <= NumTerms
    /\ LET t == Len(pointers)
           x == WriteList(data, ListOf(t), Cardinality(Posting(corpus, t)))
       IN  data' = x /\ pointers' = Append(pointers, x.size)
    /\ UNCHANGED <<corpus, listType, phase, terms, inverted, forward, lexids, scan>>

\* Behind the loop the last pointer is removed; then build().
BuildInverted ==
    /\ phase = "inverted"
    /\ Len(pointers) > NumTerms
    /\ inverted' = [pointers |-> EfOf(SubSeq(pointers, 1, NumTerms)), data |-> Built(data)]
    /\ phase' = "forward"
    /\ data' = EmptyBuilder
    /\ pointers' = <<0>>
    /\ UNCHANGED <<corpus, listType, terms, forward, lexids, scan>>

\* compact_forward_index::builder, one round of its loop
AddCompletion ==
    /\ phase = "forward"
    /\ Len(pointers) <= NumDocs
    /\ LET d == Len(pointers) - 1
           n == Cardinality(corpus[d])
       IN  /\ terms' = terms \o [i \in 1 .. n |-> CompletionOf(d)[i - 1]]
           /\ pointers' = Append(pointers, Len(terms) + n)
    /\ UNCHANGED <<corpus, listType, phase, data, inverted, forward, lexids, scan>>

\* id_type(-1), the lexicographic identifier of an unused one.
Invalid == LowMask(IdBits)

\* Some ranks of the completions.
LexIds == [i \in 1 .. NumDocs |-> IF corpus[i - 1] = {} THEN Invalid ELSE Binary(NumDocs - i)]

\* Behind the loop; then build(), and that of the index around it.
BuildForward ==
    /\ phase = "forward"
    /\ Len(pointers) > NumDocs
    /\ forward' = [pointers |-> EfOf(pointers),
                   data |-> CompactOf([i \in DOMAIN terms |-> Binary(terms[i])],
                                      CeilLog2(NumTerms + 1))]
    /\ lexids' = CompactOf(LexIds, CeilLog2(NumDocs + 1))
    /\ phase' = "built"
    /\ pointers' = <<0>>
    /\ terms' = <<>>
    /\ UNCHANGED <<corpus, listType, data, inverted, scan>>

-----------------------------------------------------------------------------

\* inverted_index::iterator(): where the list of a term begins, and its length.
OpenedList(head) ==
    [n |-> head.value,
     at |-> IF listType = "compact_ef" THEN head.it.pos
            ELSE EatPad(inverted.data, head.it).pos]

OpenList(t) ==
    OpenedList(ReadGammaNonzero(inverted.data, BitsAt(EfAccess(inverted.pointers, t - 1))))

\* What the cursor of compact_ef reads of a list of n identifiers with its parts
\* at these offsets (module EliasFano).
EfListAt(n, of) ==
    LET x == inverted.data
        field(at, len) == Number(GetWordAtByte(x, at) \cap LowMask(len))
        pointer(base, p) == IF p = 0 THEN 0 ELSE field(base + (p - 1) * of.pointer, of.pointer)
    IN  [size |-> n,
         lower |-> of.lower,
         ones |-> {b - of.high : b \in WordOnes(x) \cap (of.high .. of.low - 1)},
         low |-> [i \in 0 .. n - 1 |-> field(of.low + i * of.lower, of.lower)],
         pointers0 |-> [p \in 0 .. (of.length - n) \div 2 ^ LogSampling0 |->
                           pointer(of.pointers0, p)],
         pointers1 |-> [p \in 0 .. n \div 2 ^ LogSampling1 |-> pointer(of.pointers1, p)]]

EfView(t) ==
    LET list == OpenList(t)
    IN  EfListAt(list.n, Offsets(list.at, list.n))

\* The array of uncompressed_list: identifiers at the byte of its offset.
IdsAt(n, at) ==
    LET base == (at \div ByteBits) * ByteBits
    IN  [i \in 0 .. n - 1 |->
            Number({b \in LowMask(IdBits) : base + i * IdBits + b \in Memory(inverted.data)})]

IdsView(t) == LET list == OpenList(t) IN IdsAt(list.n, list.at)

\* compact_forward_index::iterator() and what it yields.
ForwardList(d) ==
    LET pos == EfAccess(forward.pointers, d)
        n == EfAccess(forward.pointers, d + 1) - pos
    IN  [i \in 0 .. n - 1 |-> Number(CompactAt(forward.data, pos + i))]

-----------------------------------------------------------------------------

\* What an iterator may scan.
Vectors == {"terms", "lexids"}
Stored(of) ==
    CASE of = "terms" -> forward.data
      [] of = "lexids" -> lexids
      [] of = "lists" -> inverted.pointers
      [] of = "completions" -> forward.pointers

\* find() and next_geq() scan with iterators: they read once and move on.
StartScan ==
    /\ phase = "built"
    /\ phase' = "scan"
    /\ \E of \in Vectors \cup {"lists", "completions"} : \E pos \in 0 .. Stored(of).size - 1 :
        scan' = [of |-> of, pos |-> pos, shown |-> Nothing,
                 it |-> IF of \in Vectors THEN CompactIterator(Stored(of), pos)
                        ELSE EfIterator(Stored(of), pos)]
    /\ UNCHANGED <<corpus, listType, data, pointers, terms, inverted, forward, lexids>>

Scanning(shown) == phase = "scan" /\ (scan.shown # Nothing) = shown

ScanRead ==
    /\ Scanning(FALSE)
    /\ scan.pos < Stored(scan.of).size
    /\ scan' = IF scan.of \in Vectors
               THEN LET read == CompactRead(Stored(scan.of), scan.it)
                    IN  [scan EXCEPT !.it = read.it, !.shown = <<Number(read.value)>>]
               ELSE [scan EXCEPT !.shown = <<EfRead(Stored(scan.of), scan.it)>>]
    /\ UNCHANGED <<corpus, listType, phase, data, pointers, terms, inverted, forward, lexids>>

ScanNext ==
    /\ Scanning(TRUE)
    /\ scan' = [scan EXCEPT !.pos = @ + 1, !.shown = Nothing,
                            !.it = IF scan.of \in Vectors THEN CompactNext(@)
                                   ELSE EfNext(Stored(scan.of), @)]
    /\ UNCHANGED <<corpus, listType, phase, data, pointers, terms, inverted, forward, lexids>>

EndScan ==
    /\ Scanning(FALSE)
    /\ phase' = "built"
    /\ scan' = Nothing
    /\ UNCHANGED <<corpus, listType, data, pointers, terms, inverted, forward, lexids>>

Next ==
    \/ AddTerm \/ BuildInverted \/ AddCompletion \/ BuildForward
    \/ StartScan \/ ScanRead \/ ScanNext \/ EndScan

Spec == Init /\ [][Next]_vars

-----------------------------------------------------------------------------

\* The cursor of a term gets the list of that term: the one module EliasFano
\* says compact_ef has, pointers included, or its identifiers.
ListsReadBack ==
    phase = "built" =>
        \A t \in TermIds :
            IF listType = "compact_ef"
            THEN EfView(t) = Encoded(ListOf(t), Cardinality(Posting(corpus, t)))
            ELSE IdsView(t) = ListOf(t)

\* The forward index has the terms of every completion, and every completion
\* that is in the collection has its lexicographic identifier, although the
\* unused ones are wider than the vector's integers and run over.
CompletionsReadBack ==
    phase = "built" =>
        \A d \in DocIds :
            /\ ForwardList(d) = CompletionOf(d)
            /\ corpus[d] # {} => Number(CompactAt(lexids, d)) = NumDocs - 1 - d
            /\ CompactAccess(lexids, d) = CompactAt(lexids, d)

\* The iterators, which buffer low bits or keep a place of their own, show
\* what is at their position.
ScansInStep ==
    Scanning(TRUE) =>
        scan.shown = <<IF scan.of \in Vectors
                       THEN Number(CompactAt(Stored(scan.of), scan.pos))
                       ELSE EfAccess(Stored(scan.of), scan.pos)>>

=============================================================================

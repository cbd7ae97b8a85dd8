--------------------------- MODULE MinimalDocids ---------------------------
(***************************************************************************)
(* minimal_docids::topk (index types 1 and 2, no known term before the     *)
(* last token).  The list holds the first completion of every term.  A     *)
(* queue of entries starts with the whole range, which stands for the term *)
(* with the least value in it; when an entry comes to the top it is opened *)
(* (it becomes the cursor of that term's posting list) and the two parts   *)
(* of its range on either side enter the queue.  So the lists of a range   *)
(* are merged, and only those that are needed are opened.                  *)
(*                                                                         *)
(* Positions count terms from 0.  Two entries never stand for the same     *)
(* position, so the queue is a function of positions; its top is any entry *)
(* with the least value.  It belongs to the index: what is left in it when *)
(* the loop breaks stays until the next query clears it.                   *)
(***************************************************************************)
EXTENDS ConjunctiveQuery

CONSTANT ScanThreshold  \* SCAN_THRESHOLD

ASSUME ScanThresholdAssumption == ScanThreshold \in Nat

VARIABLE queue  \* m_q: min_pos |-> [open, begin, end, value]

queueVars == <<queryVars, queue>>

Positions == 0 .. NumTerms - 1

Entries ==
    [open : BOOLEAN, begin : Positions, end : Positions, value : DocIds]

QueueTypeOK ==
    /\ QueryTypeOK
    /\ DOMAIN queue \subseteq Positions
    /\ \A p \in DOMAIN queue : queue[p] \in Entries

ListOf(p) == Posting(corpus, p + 1)

\* m_list, built by the index builder from the first value of every list.
MinimalDocId(p) == First(ListOf(p))

EmptyQueue == <<>>

QueueInit == QueryInit /\ queue = EmptyQueue

\* The positions with the least value; the Cartesian tree may return any.
Minima(lo, hi) ==
    {p \in lo .. hi : \A q \in lo .. hi : MinimalDocId(p) <= MinimalDocId(q)}

\* A short range is scanned and the leftmost of them taken.
MinPositions(lo, hi) ==
    IF hi - lo <= ScanThreshold THEN {Least(Minima(lo, hi))} ELSE Minima(lo, hi)

Closed(lo, hi, p) ==
    [open |-> FALSE, begin |-> lo, end |-> hi, value |-> MinimalDocId(p)]

With(q, p, entry) ==
    [x \in DOMAIN q \cup {p} |-> IF x = p THEN entry ELSE q[x]]
Without(q, p) == [x \in DOMAIN q \ {p} |-> q[x]]

\* Regression the checks must catch (never used by the specification): the
\* queue is not cleared.
StartWithRest ==
    /\ Ask({})
    /\ LET lo == rng'.begin - 1
           hi == rng'.end - 1
       IN  \E p \in Minima(lo, hi) :
               queue' = With(queue, p, Closed(lo, hi, p))

\* The range becomes inclusive and 0-based; the queue is cleared.
StartMinimal ==
    /\ Ask({})
    /\ LET lo == rng'.begin - 1
           hi == rng'.end - 1
       IN  \E p \in Minima(lo, hi) :
               queue' = With(EmptyQueue, p, Closed(lo, hi, p))

TopEntry ==
    {p \in DOMAIN queue : \A q \in DOMAIN queue : queue[p].value <= queue[q].value}

\* iterator.next(), then pop() when the list is exhausted.
MovedOn(p) ==
    LET value == NextAfter(ListOf(p), queue[p].value)
    IN  IF HasNext(value)
        THEN With(queue, p, [queue[p] EXCEPT !.open = TRUE, !.value = value])
        ELSE Without(queue, p)

\* The queue with an entry for the range, if there is one.
Pushed(q, lo, hi) ==
    IF lo > hi THEN {q}
    ELSE {With(q, p, Closed(lo, hi, p)) : p \in MinPositions(lo, hi)}

\* Regressions the checks must catch (never used by the specification): the
\* part on the left ends, or the part on the right begins, one position too far.
SplitOver(p) ==
    LET e == queue[p]
    IN  UNION {Pushed(q, p + 1, e.end) : q \in Pushed(MovedOn(p), e.begin, p)}
SplitShort(p) ==
    LET e == queue[p]
    IN  UNION {Pushed(q, p + 2, e.end) : q \in Pushed(MovedOn(p), e.begin, p - 1)}

\* Opening an entry: the queues that may come out of it.
Split(p) ==
    LET e == queue[p]
    IN  UNION {Pushed(q, p + 1, e.end) : q \in Pushed(MovedOn(p), e.begin, p - 1)}

\* One round of the loop.
Visit ==
    /\ Merging
    /\ \E p \in TopEntry :
        /\ ~Completes(queue[p].value)
        /\ NoteNew(queue[p].value) \/ NotePresent(queue[p].value)
        /\ queue' \in IF queue[p].open THEN {MovedOn(p)} ELSE Split(p)
    /\ UNCHANGED <<phase, corpus, terms, rng>>

\* The round that finds the k-th result breaks and leaves the queue as it is.
VisitLast ==
    /\ Merging
    /\ \E p \in TopEntry : Completes(queue[p].value) /\ Record(queue[p].value)
    /\ phase' = "extract"
    /\ UNCHANGED <<corpus, terms, rng, queue>>

Emptied ==
    /\ Merging
    /\ queue = EmptyQueue
    /\ phase' = "extract"
    /\ UNCHANGED <<scores, k, results, reply, corpus, terms, rng, queue>>

Extract == ExtractStrings /\ UNCHANGED queue

QueueRun == Visit \/ VisitLast \/ Emptied \/ Extract

QueueNext == StartMinimal \/ QueueRun

QueueSpec == QueueInit /\ [][QueueNext]_queueVars

-----------------------------------------------------------------------------

\* The entries of the posting lists of the range that are still to come up:
\* those ahead of the cursor of an opened term, and all those of the terms
\* that the range of a closed entry covers.
Ahead ==
    {x \in (rng.begin - 1 .. rng.end - 1) \X DocIds :
        /\ x[2] \in ListOf(x[1])
        /\ \/ /\ x[1] \in DOMAIN queue
              /\ queue[x[1]].open
              /\ queue[x[1]].value <= x[2]
           \/ \E q \in DOMAIN queue :
                  ~queue[q].open /\ x[1] \in queue[q].begin .. queue[q].end}

\* Every completion of the range is found or still to come up in each of its
\* lists: no term falls between the two parts of a split.
FoundOrCovered ==
    Merging =>
        \A p \in rng.begin - 1 .. rng.end - 1 : \A d \in ListOf(p) :
            d \in Filled \/ <<p, d>> \in Ahead

\* A round of the loop that is not the last takes exactly one entry of one
\* list: none comes up twice, however the ranges are split, and the loop ends.
RoundsTakeOne ==
    [][Merging /\ Merging' => \E x \in Ahead : Ahead' = Ahead \ {x}]_queueVars

\* The ranges of closed entries neither overlap nor cover an opened term: no
\* list is opened twice, and an entry is the only one for its position.
RangesDisjoint ==
    \A p, q \in DOMAIN queue :
        p # q /\ ~queue[p].open =>
            /\ q \notin queue[p].begin .. queue[p].end
            /\ ~queue[q].open =>
                   queue[q].begin .. queue[q].end
                       \cap queue[p].begin .. queue[p].end = {}

\* A closed entry shows the least value of its range, so no closed entry hides
\* a completion better than the top.
ClosedShowsLeast ==
    \A p \in DOMAIN queue : ~queue[p].open =>
        /\ p \in Minima(queue[p].begin, queue[p].end)
        /\ queue[p].value = MinimalDocId(p)

=============================================================================

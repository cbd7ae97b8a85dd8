---------------------------- MODULE UnsortedList ----------------------------
(***************************************************************************)
(* unsorted_list::topk: the k least values of a range of a list that is in *)
(* no order.  All four index types answer prefix queries with it: the      *)
(* completions that begin with the query are a range of the lexicographic  *)
(* order, and the list holds the identifier of each in that order.         *)
(*                                                                         *)
(* A range no longer than k is copied and sorted.  A longer one goes into  *)
(* a queue of ranges, each with the position of its minimum; the range on  *)
(* top yields its minimum and is replaced by its two parts.  The caller    *)
(* may ask for unique values, of a list with repetitions: the first        *)
(* identifiers of the posting lists.                                       *)
(***************************************************************************)
EXTENDS QueryPool, CartesianTree

CONSTANTS ListSize,      \* the length of the list
          ScanThreshold, \* SCAN_THRESHOLD
          LongerBy       \* a bound: TreesFindLeftmost is about lists this much longer

ASSUME ListSizeAssumption == ListSize \in Nat \ {0}
ASSUME ScanThresholdAssumption == ScanThreshold \in Nat
ASSUME LongerByAssumption == LongerBy \in Nat

VARIABLES
    list,    \* m_list; it never changes
    rmq,     \* m_rmq, built of the list, as what it answers; it never changes
    rng,     \* a local of the query: the range [begin, end)
    unique,  \* a local of the query
    queue    \* m_q: min_pos |-> [begin, end], both ends included

listVars == <<poolVars, list, rmq, rng, unique, queue>>

Positions == 0 .. ListSize - 1

\* Completions in lexicographic order, for prefix queries, or the first
\* completion of every term, which repeats some.
Lists == [Positions -> DocIds]

HalfOpenRanges ==
    {r \in [begin : Positions, end : 0 .. ListSize] : r.begin <= r.end}

AnyRange == [begin |-> 0, end |-> 0]
EmptyQueue == <<>>

\* build(): the tree of a list, by what it answers for a range with both ends.
RmqOf(l) ==
    LET tree == TreeOf([i \in 1 .. ListSize |-> l[i - 1]])
    IN  [lo \in Positions |-> [hi \in lo .. ListSize - 1 |-> Rmq(tree, lo, hi)]]

ListTypeOK ==
    /\ PoolTypeOK
    /\ list \in Lists
    /\ DOMAIN rmq = Positions
    /\ \A lo \in Positions : rmq[lo] \in [lo .. ListSize - 1 -> lo .. ListSize - 1]
    /\ rng \in HalfOpenRanges
    /\ unique \in BOOLEAN
    /\ DOMAIN queue \subseteq Positions
    /\ \A p \in DOMAIN queue :
           queue[p].begin <= p /\ p <= queue[p].end /\ queue[p].end < ListSize

ListInit ==
    /\ PoolInit
    /\ list \in Lists
    /\ rmq = RmqOf(list)
    /\ rng = AnyRange
    /\ unique = FALSE
    /\ queue = EmptyQueue

RangeLength == rng.end - rng.begin

\* The positions with the least value.
Minima(lo, hi) ==
    {p \in lo .. hi : \A q \in lo .. hi : list[p] <= list[q]}

\* A short range is scanned; for a longer one the tree is asked.
MinPosition(lo, hi) ==
    IF hi - lo <= ScanThreshold THEN Least(Minima(lo, hi)) ELSE rmq[lo][hi]

\* push()
With(q, p, lo, hi) ==
    [x \in DOMAIN q \cup {p} |-> IF x = p THEN [begin |-> lo, end |-> hi] ELSE q[x]]

\* The queue with an entry for the range, if there is one.
Pushed(q, lo, hi) == IF lo > hi THEN q ELSE With(q, MinPosition(lo, hi), lo, hi)

\* The call.  A range longer than k is put on the queue, cleared before.
Call ==
    /\ StartQuery
    /\ rng' \in HalfOpenRanges
    /\ unique' \in BOOLEAN
    /\ IF rng'.end - rng'.begin <= k' THEN UNCHANGED queue
       ELSE LET hi == rng'.end - 1
            IN  queue' = With(EmptyQueue, rmq[rng'.begin][hi], rng'.begin, hi)
    /\ UNCHANGED <<list, rmq>>

\* std::sort, by its effect: the positions lo .. lo + n - 1, each once, in an
\* order that makes their values ascend.
SortedOrders(lo, n) ==
    {order \in [0 .. n - 1 -> lo .. lo + n - 1] :
        \A i, j \in 0 .. n - 1 :
            i < j => order[i] # order[j] /\ list[order[i]] <= list[order[j]]}

\* Report everything in the range: copied, then sorted.
ReportAll ==
    /\ phase = "search"
    /\ RangeLength <= k
    /\ \E order \in SortedOrders(rng.begin, RangeLength) :
          scores' = [i \in DOMAIN scores |->
                        IF i < RangeLength THEN list[order[i]] ELSE scores[i]]
    /\ results' = RangeLength
    /\ phase' = "extract"
    /\ UNCHANGED <<k, reply, list, rmq, rng, unique, queue>>

Searching == phase = "search" /\ RangeLength > k

Top == {p \in DOMAIN queue : \A q \in DOMAIN queue : list[p] <= list[q]}

\* Regression the checks must catch (never used by the specification): the
\* request for unique values is ignored.
AlwaysWanted(value) == TRUE

\* The value is wanted: any value, or with unique one that is not found yet.
Wanted(value) == unique => value \notin Filled

\* Regression the checks must catch (never used by the specification): the
\* part on the left is not queued.
SplitRight(p) == Pushed(Restrict(queue, DOMAIN queue \ {p}), p + 1, queue[p].end)

\* The queue without the range, and with its two parts.
Split(p) ==
    LET rest == Restrict(queue, DOMAIN queue \ {p})
    IN  Pushed(Pushed(rest, queue[p].begin, p - 1), p + 1, queue[p].end)

\* One round of the loop.
Visit ==
    /\ Searching
    /\ \E p \in Top :
        /\ IF Wanted(list[p])
           THEN results + 1 # k /\ Record(list[p])
           ELSE UNCHANGED <<scores, k, results, reply>>
        /\ queue' = Split(p)
    /\ UNCHANGED <<phase, list, rmq, rng, unique>>

\* The round that finds the k-th value breaks and leaves the queue as it is.
VisitLast ==
    /\ Searching
    /\ \E p \in Top :
        Wanted(list[p]) /\ results + 1 = k /\ Record(list[p])
    /\ phase' = "extract"
    /\ UNCHANGED <<list, rmq, rng, unique, queue>>

\* Fewer than k values are unique.
Emptied ==
    /\ Searching
    /\ queue = EmptyQueue
    /\ phase' = "extract"
    /\ UNCHANGED <<scores, k, results, reply, list, rmq, rng, unique, queue>>

Extract ==
    /\ EndQuery
    /\ reply' = Extracted
    /\ rng' = AnyRange
    /\ unique' = FALSE
    /\ UNCHANGED <<list, rmq, queue>>

ListRun == ReportAll \/ Visit \/ VisitLast \/ Emptied \/ Extract

ListSpec == ListInit /\ [][Call \/ ListRun]_listVars

-----------------------------------------------------------------------------

Values(lo, hi) == {list[p] : p \in lo .. hi}

\* While the ranges are split, every position of the query's range has had its
\* value found or lies in a range that is still on the queue.
FoundOrQueued ==
    Searching =>
        \A p \in rng.begin .. rng.end - 1 :
            \/ list[p] \in Filled
            \/ \E q \in DOMAIN queue : p \in queue[q].begin .. queue[q].end

\* A range lies on the queue at the leftmost position of its minimum: "in ties
\* the leftmost element wins" (cartesian_tree.hpp:30), though the tree has no
\* values to look at.
QueuedAtLeftmost ==
    Searching =>
        \A p \in DOMAIN queue : p = Least(Minima(queue[p].begin, queue[p].end))

\* The values found are not greater than any that is still on the queue, so
\* that the loop may stop at k of them.
QueueHoldsGreater ==
    Searching =>
        \A q \in DOMAIN queue : \A v \in Filled :
            \A w \in Values(queue[q].begin, queue[q].end) : v <= w

\* The positions that count: of equal values one, if they are to be unique.
Counted ==
    LET asked == rng.begin .. rng.end - 1
    IN  IF unique
        THEN {p \in asked : \A q \in asked : list[p] = list[q] => p <= q}
        ELSE asked

\* A position is among the k best if fewer than k come before it in the order
\* of values, equal ones in any fixed order.
Best ==
    LET counted == Counted
    IN  {p \in counted :
            Cardinality({q \in counted :
                list[q] < list[p] \/ (list[q] = list[p] /\ q < p)}) < k}

\* Unique values are asked of a range that is copied, and some occur twice there.
CopiesRepeats ==
    /\ unique /\ RangeLength <= k
    /\ \E p, q \in rng.begin .. rng.end - 1 : p # q /\ list[p] = list[q]

\* The answer: the k least values of the range, as often as they occur or, with
\* unique, each one once, in ascending order, whatever earlier calls left in the
\* scores and the queue; unless the range is copied with repetitions although
\* unique values are asked, where the code does not do it (UniqueResults).
LeastValues ==
    phase = "extract" /\ ~CopiesRepeats =>
        LET best == Best
            found == Extracted
        IN  /\ \A i, j \in 1 .. results : i < j => found[i] <= found[j]
            /\ \A v \in DocIds :
                   Cardinality({i \in 1 .. results : found[i] = v})
                       = Cardinality({p \in best : list[p] = v})

\* "return unique results" (unsorted_list.hpp:22), of every range, as the test
\* expects it (test_unsorted_list.cpp:156): no value is returned twice. The
\* code violates it: a range no longer than k is copied with its repetitions.
UniqueResults ==
    phase = "extract" /\ unique =>
        \A i, j \in 1 .. results : i # j => Extracted[i] # Extracted[j]

\* The trees of an index that has just been built, of its list and of
\* longer lists that begin with it, promise what "in ties the leftmost element
\* wins" says (cartesian_tree.hpp:30): queries are run on lists too short to
\* make the search climb and descend in the tree of superblocks.
TreesFindLeftmost ==
    ListInit =>
        \A tail \in [1 .. LongerBy -> {0, 1}] :
            FindsLeftmost([i \in 1 .. ListSize |-> list[i - 1]] \o tail)

=============================================================================

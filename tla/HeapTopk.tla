------------------------------ MODULE HeapTopk ------------------------------
(***************************************************************************)
(* heap_topk of autocomplete_common.hpp (index type 3, no known term before *)
(* the last token): the posting lists of the range are merged through a    *)
(* min-heap of their cursors.  The heap is abstract: its top is any cursor *)
(* with the least value; module MinHeap shows that min_heap has it there.  *)
(* Module SuffixHeapTopk takes these steps as part of index type 3.        *)
(***************************************************************************)
EXTENDS ConjunctiveQuery

VARIABLE heap  \* q: the terms whose cursors are in it, with their values

EmptyHeap == <<>>

\* A query of a single token: the cursors of its range enter the heap.
StartMerge ==
    /\ Ask({})
    /\ heap' = [t \in rng'.begin .. rng'.end |-> First(Posting(corpus, t))]

\* Regression the checks must catch (never used by the specification): the
\* root of the heap is taken whether or not it is the least.
AnyTop == DOMAIN heap

\* What q.top() may be.
Top == {t \in DOMAIN heap : \A u \in DOMAIN heap : heap[t] <= heap[u]}

\* z.next(), then q.pop() when the list is exhausted, then heapify.
Step(t) ==
    LET value == NextAfter(Posting(corpus, t), heap[t])
    IN  IF HasNext(value)
        THEN [heap EXCEPT ![t] = value]
        ELSE [u \in DOMAIN heap \ {t} |-> heap[u]]

\* One round of the loop.
Take ==
    /\ Merging
    /\ \E t \in Top :
        /\ ~Completes(heap[t])
        /\ NoteNew(heap[t]) \/ NotePresent(heap[t])
        /\ heap' = Step(t)
    /\ UNCHANGED <<phase, corpus, terms, rng>>

\* The round that finds the k-th result returns.
TakeLast ==
    /\ Merging
    /\ \E t \in Top : Completes(heap[t]) /\ Record(heap[t])
    /\ heap' = EmptyHeap
    /\ phase' = "extract"
    /\ UNCHANGED <<corpus, terms, rng>>

Merged ==
    /\ Merging
    /\ heap = EmptyHeap
    /\ phase' = "extract"
    /\ UNCHANGED <<scores, k, results, reply, corpus, terms, rng, heap>>

-----------------------------------------------------------------------------

\* Every completion of the range is found already, or a cursor in the heap is
\* still to come to it: nothing gets lost when a list is exhausted and its
\* cursor leaves the heap.
FoundOrAhead ==
    Merging =>
        \A t \in rng.begin .. rng.end : \A d \in Posting(corpus, t) :
            d \in Filled \/ (t \in DOMAIN heap /\ heap[t] <= d)

=============================================================================

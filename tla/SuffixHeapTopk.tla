--------------------------- MODULE SuffixHeapTopk ---------------------------
(***************************************************************************)
(* autocomplete3::conjunctive_topk (index type 3).  A query of one token   *)
(* goes to heap_topk (module HeapTopk).  For a query with a known term     *)
(* before the last token, the completions that hold a term of the    *)
(* suffix range come from the posting lists of that range: their cursors   *)
(* stand in a min-heap and are moved up to each candidate of the           *)
(* intersection, the one with the least value first.  A cursor that is     *)
(* exhausted leaves the heap; the search ends early when the heap is empty.*)
(*                                                                         *)
(* The loop around it is that of module ForwardTopk, with another test of  *)
(* the candidate.  The heap is abstract here: its top is any cursor with   *)
(* the least value.                                                        *)
(***************************************************************************)
EXTENDS ForwardTopk, HeapTopk

VARIABLE inner  \* is the control inside the inner loop, over the heap?

heapVars == <<searchVars, heap, inner>>

HeapTypeOK ==
    /\ SearchTypeOK
    /\ DOMAIN heap \subseteq rng.begin .. rng.end
    /\ \A t \in DOMAIN heap : heap[t] \in Posting(corpus, t)
    /\ inner \in BOOLEAN
    /\ inner => Found

HeapInit ==
    /\ SearchInit
    /\ heap = EmptyHeap
    /\ inner = FALSE

HeapQuery ==
    /\ Query
    /\ heap' = [t \in rng'.begin .. rng'.end |-> First(Posting(corpus, t))]
    /\ UNCHANGED inner

HeapIterate == Iterate /\ UNCHANGED <<heap, inner>>

\* The condition of the outer loop holds.
EnterInner ==
    /\ Found
    /\ ~inner
    /\ heap # EmptyHeap
    /\ inner' = TRUE
    /\ UNCHANGED <<searchVars, heap>>

\* The condition of the outer loop fails: the iterator or the heap is empty.
LeaveOuter ==
    /\ phase = "search"
    /\ pc = "at"
    /\ ~inner
    /\ ~HasNext(cand) \/ heap = EmptyHeap
    /\ Drop
    /\ phase' = "extract"
    /\ heap' = EmptyHeap
    /\ UNCHANGED <<scores, k, results, reply, corpus, terms, rng, inner>>

\* val, after z.next_geq(doc_id) when the cursor is behind the candidate.
SoughtValue(t) ==
    IF heap[t] < cand THEN NextGeq(Posting(corpus, t), cand) ELSE heap[t]

\* Regression the checks must catch (never used by the specification): a
\* cursor that passes the candidate is taken off the heap.
OverPopped(t) ==
    IF SoughtValue(t) = cand THEN [heap EXCEPT ![t] = cand]
    ELSE [u \in DOMAIN heap \ {t} |-> heap[u]]

\* The heap after that: q.pop() when the cursor is exhausted, else heapify.
HeapAfter(t) ==
    IF HasNext(SoughtValue(t))
    THEN [heap EXCEPT ![t] = SoughtValue(t)]
    ELSE [u \in DOMAIN heap \ {t} |-> heap[u]]

\* The cursor was behind the candidate and does not find it.
Seek ==
    /\ inner
    /\ \E t \in Top :
        /\ heap[t] < cand
        /\ SoughtValue(t) # cand
        /\ heap' = HeapAfter(t)
    /\ UNCHANGED <<searchVars, inner>>

\* No cursor has the candidate: break, or nothing is left in the heap.
Miss ==
    /\ inner
    /\ heap = EmptyHeap \/ \E t \in Top : heap[t] > cand
    /\ inner' = FALSE
    /\ Advance
    /\ UNCHANGED <<queryVars, heap>>

\* A cursor has the candidate, or finds it.
Met == \E t \in Top : SoughtValue(t) = cand /\ heap' = HeapAfter(t)

MeetAndKeep ==
    /\ inner
    /\ Met
    /\ results + 1 # k
    /\ Record(cand)
    /\ inner' = FALSE
    /\ Advance
    /\ UNCHANGED <<phase, corpus, terms, rng>>

\* The last result wanted: return.
MeetAndReturn ==
    /\ inner
    /\ \E t \in Top : SoughtValue(t) = cand
    /\ results + 1 = k
    /\ Record(cand)
    /\ inner' = FALSE
    /\ Drop
    /\ phase' = "extract"
    /\ heap' = EmptyHeap
    /\ UNCHANGED <<corpus, terms, rng>>

HeapExtractStrings == Answered /\ UNCHANGED <<heap, inner>>

MergeQuery == StartMerge /\ UNCHANGED <<vars, inner>>

MergeStep ==
    /\ Take \/ TakeLast \/ Merged
    /\ UNCHANGED <<vars, inner>>

HeapRun ==
    \/ MergeStep
    \/ HeapIterate \/ EnterInner \/ LeaveOuter \/ Seek \/ Miss
    \/ MeetAndKeep \/ MeetAndReturn \/ HeapExtractStrings

HeapNext == HeapQuery \/ MergeQuery \/ HeapRun

HeapSpec == HeapInit /\ [][HeapNext]_heapVars

FairHeapSpec == HeapSpec /\ WF_heapVars(HeapRun)

-----------------------------------------------------------------------------

\* No cursor of the range has passed, and none was taken off the heap before,
\* a completion that the intersection may still propose: the heap moves on
\* only as far as the candidates do.
HeapNeverAhead ==
    phase = "search" /\ terms # {} =>
        \A t \in rng.begin .. rng.end : \A d \in Posting(corpus, t) :
            d >= cand => t \in DOMAIN heap /\ heap[t] <= d

\* The early end is safe: with the heap empty no completion still to come
\* matches, so fewer than k results are all there are (ScoresComplete), and
\* the answer is the one the scan of the forward index would give.
EarlyEndIsFinal ==
    phase = "search" /\ terms # {} /\ heap = EmptyHeap =>
        Target \subseteq Range(out)

=============================================================================

---------------------------- MODULE BlockedTopk ----------------------------
(***************************************************************************)
(* autocomplete4::conjunctive_topk (index type 4), over the blocked index. *)
(*                                                                         *)
(* The cursors of the blocks of the suffix range stand in a min-heap.  If  *)
(* the query has no known term before the last token they are merged, else *)
(* they are moved up to each candidate of the intersection.  A completion  *)
(* that a block shows is checked: it is recorded if it holds a term of the *)
(* range in that block.                                                    *)
(*                                                                         *)
(* The blocks are collected by a loop over the terms of the range that     *)
(* leaves out the last one; and once a block has been checked for a        *)
(* candidate, no other block is.  ScoresMatch and FoundWhenCovered say what *)
(* holds all the same, AnswersWhenPrefixDoes what does not.                *)
(***************************************************************************)
EXTENDS BlockedIndex, QueryPool

VARIABLES
    terms,  \* a local of the query: prefix, after deduplicate
    rng,    \* a local of the query: suffix, both ends included
    heap,   \* q: the blocks in it, with the value each shows
    inner   \* is the control inside the inner loop, over the heap?

blockedVars == <<blockVars, poolVars, terms, rng, heap, inner>>

AnyRange == [begin |-> 1, end |-> 1]
EmptyHeap == <<>>

BlockedTypeOK ==
    /\ MeetTypeOK
    /\ PoolTypeOK
    /\ terms \in SUBSET TermIds
    /\ rng \in TermRanges
    /\ DOMAIN heap \subseteq ends
    /\ \A e \in DOMAIN heap : heap[e] \in Docs(e)
    /\ inner \in BOOLEAN

BlockedInit ==
    /\ MeetInit
    /\ PoolInit
    /\ terms = {}
    /\ rng = AnyRange
    /\ heap = EmptyHeap
    /\ inner = FALSE

\* The blocks the loop collects: those of the terms before the last one, and
\* the block of the first term in any case.
SuffixBlocks(r) == {BlockOf(r.begin)} \cup {BlockOf(t) : t \in r.begin .. r.end - 1}

StartBlocked ==
    /\ StartQuery
    /\ rng' \in TermRanges
    /\ heap' = [e \in SuffixBlocks(rng') |-> First(Docs(e))]
    /\ UNCHANGED inner

\* A query without a known term before the last token.
SuffixQuery ==
    /\ StartBlocked
    /\ terms' = {}
    /\ UNCHANGED blockVars

\* A query with some: deduplicate and the construction of the iterator.
TermsQuery ==
    /\ StartBlocked
    /\ terms' \in TermSets
    /\ MeetOn(terms')

Iterate == Round /\ UNCHANGED <<poolVars, terms, rng, heap, inner>>

Top == {e \in DOMAIN heap : \A f \in DOMAIN heap : heap[e] <= heap[f]}

\* Regression the checks must catch (never used by the specification): any
\* completion that the block shows is taken for a match.
Unchecked(e, doc) == doc \in Docs(e)

\* check(): does the completion hold a term of the range in this block?
Checks(e, doc) == \E t \in corpus[doc] \cap TermsOf(ends, e) : Contains(rng, t)

\* Regression the checks must catch (never used by the specification): a cursor
\* leaves the heap at the last value of its list.
LeavesEarly(e, value) ==
    IF HasNext(value) /\ value # NumDocs - 1 THEN [heap EXCEPT ![e] = value]
    ELSE [f \in DOMAIN heap \ {e} |-> heap[f]]

\* The heap after a cursor has moved to a value; exhausted, it leaves.
HeapWith(e, value) ==
    IF HasNext(value) THEN [heap EXCEPT ![e] = value]
    ELSE [f \in DOMAIN heap \ {e} |-> heap[f]]

\* Recording a completion that was checked, when more are wanted after it.
Noted(e, doc) ==
    IF Checks(e, doc) THEN results + 1 # k /\ Record(doc)
    ELSE UNCHANGED <<scores, k, results, reply>>

\* It is the last one wanted.
NotedLast(e, doc) == Checks(e, doc) /\ results + 1 = k /\ Record(doc)

-----------------------------------------------------------------------------

MergingSuffix == phase = "search" /\ terms = {}

\* A round of the merge.
Merge ==
    /\ MergingSuffix
    /\ \E e \in Top :
        /\ Noted(e, heap[e])
        /\ heap' = HeapWith(e, NextAfter(Docs(e), heap[e]))
    /\ UNCHANGED <<blockVars, phase, terms, rng, inner>>

MergeLast ==
    /\ MergingSuffix
    /\ \E e \in Top : NotedLast(e, heap[e])
    /\ phase' = "extract"
    /\ heap' = EmptyHeap
    /\ UNCHANGED <<blockVars, terms, rng, inner>>

Merged ==
    /\ MergingSuffix
    /\ heap = EmptyHeap
    /\ phase' = "extract"
    /\ UNCHANGED <<blockVars, scores, k, results, reply, terms, rng, heap, inner>>

-----------------------------------------------------------------------------

AtCandidate == phase = "search" /\ pc = "at"

EnterInner ==
    /\ AtCandidate
    /\ ~inner
    /\ HasNext(cand)
    /\ heap # EmptyHeap
    /\ inner' = TRUE
    /\ UNCHANGED <<blockVars, poolVars, terms, rng, heap>>

\* The iterator or the heap is empty.
LeaveOuter ==
    /\ AtCandidate
    /\ ~inner
    /\ ~HasNext(cand) \/ heap = EmptyHeap
    /\ Drop
    /\ phase' = "extract"
    /\ heap' = EmptyHeap
    /\ UNCHANGED <<scores, k, results, reply, terms, rng, inner>>

\* The least cursor is behind the candidate.
Seek ==
    /\ inner
    /\ \E e \in Top :
        /\ heap[e] < cand
        /\ heap' = HeapWith(e, NextGeq(Docs(e), cand))
    /\ UNCHANGED <<blockVars, poolVars, terms, rng, inner>>

\* It is ahead, or the heap has run empty.
Miss ==
    /\ inner
    /\ heap = EmptyHeap \/ \E e \in Top : heap[e] > cand
    /\ inner' = FALSE
    /\ Advance
    /\ UNCHANGED <<poolVars, terms, rng, heap>>

\* It is at the candidate: the block is checked and the inner loop is left.
Met ==
    /\ inner
    /\ \E e \in Top : heap[e] = cand /\ Noted(e, cand)
    /\ inner' = FALSE
    /\ Advance
    /\ UNCHANGED <<phase, terms, rng, heap>>

MetLast ==
    /\ inner
    /\ \E e \in Top : heap[e] = cand /\ NotedLast(e, cand)
    /\ inner' = FALSE
    /\ Drop
    /\ phase' = "extract"
    /\ heap' = EmptyHeap
    /\ UNCHANGED <<terms, rng>>

\* The strings are decoded, and the locals of the query are gone.
ExtractStrings ==
    /\ EndQuery
    /\ reply' = Extracted
    /\ terms' = {}
    /\ rng' = AnyRange
    /\ UNCHANGED <<blockVars, heap, inner>>

BlockedRun ==
    \/ Iterate \/ Merge \/ MergeLast \/ Merged
    \/ EnterInner \/ LeaveOuter \/ Seek \/ Miss \/ Met \/ MetLast
    \/ ExtractStrings

BlockedSpec ==
    BlockedInit /\ [][SuffixQuery \/ TermsQuery \/ BlockedRun]_blockedVars

FairBlockedSpec == BlockedSpec /\ WF_blockedVars(BlockedRun)

-----------------------------------------------------------------------------

Target == Matches(corpus, terms, rng)

\* Whatever is recorded matches the query, and the scores ascend, as
\* benchmark/effectiveness.cpp asserts (without known terms a completion of two
\* blocks is recorded twice).
ScoresMatch ==
    /\ Filled \subseteq Target
    /\ \A i, j \in 0 .. results - 1 :
           i < j => scores[i] <= scores[j] /\ (terms # {} => scores[i] # scores[j])

\* What the iterator never yields: the first completion of the block, when the
\* terms share one.
FirstOfBlock ==
    LET ids == {BlockOf(t) : t \in terms}
    IN  {First(Docs(e)) : e \in {x \in ids : ids = {x}}}

\* A match the iterator yields is found, in a query that ends with fewer than
\* k results, if a collected block holds it and every collected block that
\* holds it has a term of the range for it.
FoundWhenCovered ==
    phase = "extract" /\ results < k =>
        \A d \in Target \ (Filled \cup FirstOfBlock) :
            \/ \A e \in SuffixBlocks(rng) : d \notin Docs(e)
            \/ \E e \in SuffixBlocks(rng) : d \in Docs(e) /\ ~Checks(e, d)

\* Completions that can begin with the query: they hold a term of the range
\* besides those of the query, and the iterator yields them.
MayBegin ==
    {d \in Target \ FirstOfBlock : \E t \in corpus[d] \ terms : Contains(rng, t)}

\* benchmark/effectiveness.cpp asserts for every index type that conjunctive
\* search reports no less than prefix search: not nothing, when a completion
\* begins with the query.
AnswersWhenPrefixDoes ==
    phase = "extract" /\ results = 0 => MayBegin = {}

=============================================================================

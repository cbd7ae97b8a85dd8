---------------------------- MODULE Intersection ----------------------------
(***************************************************************************)
(* inverted_index::intersection_iterator_type: the leapfrog intersection   *)
(* of the posting lists of the terms of a query.                           *)
(*                                                                         *)
(* The iterator keeps one cursor per list and a candidate.  Its private    *)
(* next() asks cursor after cursor for the candidate; a cursor that jumps  *)
(* over it proposes a new candidate and the round starts again from the    *)
(* first list.  Control returns to the owner when the whole round agrees   *)
(* or a list is exhausted.  One round of the loop is one step here; the    *)
(* owner may take the next completion or drop the iterator, as the loops   *)
(* of autocomplete*.hpp do when they have k results.                       *)
(***************************************************************************)
EXTENDS Postings, Sequences

CONSTANT MaxTerms  \* bound: distinct terms of a query that are intersected

ASSUME MaxTermsAssumption == MaxTerms \in Nat \ {0}

VARIABLES
    pc,     \* "none": no iterator; "next": inside next(); "at": with the owner
    lists,  \* the lists behind m_iterators, in its order
    cur,    \* the value each of m_iterators shows
    cand,   \* m_candidate
    mi,     \* m_i, counted from 0 as in the code
    val,    \* the local variable of next()
    out     \* history: the completions the owner has read and left behind

vars == <<pc, lists, cur, cand, mi, val, out>>

TypeOK ==
    /\ pc \in {"none", "next", "at"}
    /\ lists \in Seq(PostingLists)
    /\ cur \in Seq(CursorValues)
    /\ cand \in CursorValues
    /\ mi \in 0 .. Len(lists)
    /\ val \in CursorValues
    /\ out \in Seq(DocIds)

Init ==
    /\ pc = "none"
    /\ lists = <<>>
    /\ cur = <<>>
    /\ cand = 0
    /\ mi = 0
    /\ val = 0
    /\ out = <<>>

\* std::sort by size() in the constructor; equal sizes may end in any order.
ShortestFirst(ls) ==
    \A i, j \in DOMAIN ls : i < j => Cardinality(ls[i]) <= Cardinality(ls[j])

\* The constructor on these lists, up to its call of next().
ConstructOn(ls) ==
    /\ pc = "none"
    /\ lists' = ls
    /\ cur' = [i \in DOMAIN ls |-> First(ls[i])]
    /\ cand' = First(ls[1])
    /\ mi' = 1
    /\ val' = 0
    /\ out' = <<>>
    /\ pc' = "next"

Construct ==
    \E n \in 1 .. MaxTerms : \E ls \in [1 .. n -> PostingLists] :
        ShortestFirst(ls) /\ ConstructOn(ls)

LoopCondition == val < NumDocs /\ mi # Len(lists)

\* Regressions the checks must catch (never used by the specification): the
\* list is rewound, the cursor is moved with next(), the cursor runs ahead.
RewoundAnswer == First(lists[mi + 1])
SteppedAnswer == NextAfter(lists[mi + 1], cur[mi + 1])
RunAheadMoved ==
    [cur EXCEPT ![mi + 1] = NextAfter(lists[mi + 1], NextGeq(lists[mi + 1], cand))]

\* What the cursor m_iterators[m_i] answers when it is asked for the candidate.
Answer == NextGeq(lists[mi + 1], cand)

\* The cursors after it has answered.
Moved == [cur EXCEPT ![mi + 1] = Answer]

\* The cursor has the candidate: go on with the next list.
Agree ==
    /\ pc = "next"
    /\ LoopCondition
    /\ Answer = cand
    /\ cur' = Moved
    /\ val' = Answer
    /\ mi' = mi + 1
    /\ UNCHANGED <<pc, lists, cand, out>>

\* The cursor passed over the candidate: its value is the new one.
Disagree ==
    /\ pc = "next"
    /\ LoopCondition
    /\ Answer # cand
    /\ cur' = Moved
    /\ val' = Answer
    /\ cand' = Answer
    /\ mi' = 0
    /\ UNCHANGED <<pc, lists, out>>

\* next() returns.
Return ==
    /\ pc = "next"
    /\ ~LoopCondition
    /\ pc' = "at"
    /\ UNCHANGED <<lists, cur, cand, mi, val, out>>

\* The owner reads operator* and calls operator++, up to its call of next().
Advance ==
    /\ pc = "at"
    /\ HasNext(cand)
    /\ out' = Append(out, cand)
    /\ cur' = [cur EXCEPT ![1] = NextAfter(lists[1], cur[1])]
    /\ cand' = NextAfter(lists[1], cur[1])
    /\ mi' = 1
    /\ val' = 0
    /\ pc' = "next"
    /\ UNCHANGED lists

\* The owner leaves its loop: the iterator is destroyed.
Drop ==
    /\ pc = "at"
    /\ pc' = "none"
    /\ lists' = <<>>
    /\ cur' = <<>>
    /\ cand' = 0
    /\ mi' = 0
    /\ val' = 0
    /\ out' = <<>>

Next == Construct \/ Agree \/ Disagree \/ Return \/ Advance \/ Drop

Spec == Init /\ [][Next]_vars

\* Inside next() the program runs on: nothing it waits for.
FairSpec == Spec /\ WF_vars(Agree \/ Disagree \/ Return)

-----------------------------------------------------------------------------

\* Once control is with the owner, what it has read and what it can read now
\* are together exactly the common members of the lists up to the candidate:
\* the leaps of next() never pass over a completion that holds every term,
\* and never stop at one that lacks a term.
ReportsExactly ==
    pc = "at" =>
        Range(out) \cup ({cand} \cap DocIds) = {d \in Common(lists) : d <= cand}

\* operator* yields strictly increasing identifiers, the order in which
\* conjunctive_topk fills the scores and which makes the first k the best k.
ReportsAscending ==
    /\ Ascending(out)
    /\ pc = "at" => \A i \in DOMAIN out : out[i] < cand

\* No cursor is past a member of its list that next() may still ask it for:
\* uncompressed_list searches from the current position on and would miss
\* it, while compact_ef would run backwards and find it, so that two indexes
\* built from the same lists would report different completions.
NeverSeeksBackward ==
    pc = "next" /\ LoopCondition =>
        \A d \in lists[mi + 1] : d >= cand => d >= cur[mi + 1]

\* operator++ moves the cursor of the first list with next(), which is legal
\* only if that cursor stands on the candidate and is not exhausted.
FirstCursorAtCandidate ==
    pc = "at" /\ HasNext(cand) => cur[1] = cand

\* next() always returns: some round agrees, or some list is exhausted.
NextReturns == pc = "next" ~> pc = "at"

Stream == INSTANCE SortedStream
    WITH open <- pc # "none",
         target <- IF pc = "none" THEN {} ELSE Common(lists)

\* The iterator implements the abstract stream on the intersection.
RefinesStream == Stream!Spec

=============================================================================

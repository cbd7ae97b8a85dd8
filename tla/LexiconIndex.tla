---------------------------- MODULE LexiconIndex ----------------------------
(***************************************************************************)
(* All conjunctive queries on an index of type 2 (autocomplete2): those of *)
(* one token go to minimal_docids::topk, the others to the intersection    *)
(* and the lexicon.  Both fill the scores of the pool and the buffer of    *)
(* completions, one after another and each over what the other left.       *)
(***************************************************************************)
EXTENDS LexiconTopk, MinimalDocids

CONSTANT MixedDocs  \* bound: see Mixed

ASSUME MixedDocsAssumption == MixedDocs \in Nat

indexVars == <<lexVars, queue>>

IndexInit == LexInit /\ queue = EmptyQueue

\* A query with a known term before the last token.
TermsQuery == LexQuery /\ UNCHANGED queue

TermsStep ==
    /\ LexIterate \/ LexSkip \/ LexKeep \/ LexExhausted
    /\ UNCHANGED queue

\* A query of a single token.
TokenQuery == StartMinimal /\ UNCHANGED <<vars, slots, sizes>>

TokenStep == Visit /\ UNCHANGED <<vars, slots, sizes>>

\* extract_completions(): the first entries of a buffer are the scores.
WithScores(buffer) ==
    [i \in DOMAIN buffer |-> IF i < results' THEN scores'[i] ELSE buffer[i]]

\* The loop ends, and the completions it has found are decoded.
TokenEnd ==
    /\ VisitLast \/ Emptied
    /\ slots' = WithScores(slots)
    /\ sizes' = WithScores(sizes)
    /\ UNCHANGED vars

\* What the loop has left in the queue stays there until StartMinimal clears it.
IndexExtract == LexExtractStrings /\ UNCHANGED queue

IndexRun == TermsStep \/ TokenStep \/ TokenEnd \/ IndexExtract

IndexNext == TermsQuery \/ TokenQuery \/ IndexRun

IndexSpec == IndexInit /\ [][IndexNext]_indexVars

-----------------------------------------------------------------------------

\* A bound on what is checked, for the sake of the number of states: a query of
\* several tokens, which does not look at the queue, follows one that has left
\* something there only if no more than so many completions are in use. One of
\* a single token follows any other.
Mixed == Cardinality({d \in DocIds : corpus[d] # {}}) <= MixedDocs

BoundedNext ==
    \/ TermsQuery /\ (queue = EmptyQueue \/ Mixed)
    \/ TokenQuery
    \/ IndexRun

BoundedSpec == IndexInit /\ [][BoundedNext]_indexVars

=============================================================================

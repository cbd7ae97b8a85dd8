-------------------------- MODULE ConjunctiveQuery --------------------------
(***************************************************************************)
(* What the conjunctive queries of every index type have in common: the    *)
(* call, with the known terms before the last token and the range of the   *)
(* terms the last token may become, the return, and the promise.           *)
(***************************************************************************)
EXTENDS Corpus, QueryPool

VARIABLES
    corpus,  \* the indexed collection; it never changes
    terms,   \* a local of the query: prefix, after deduplicate
    rng      \* a local of the query: suffix_lex_range, both ends included

queryVars == <<poolVars, corpus, terms, rng>>

AnyRange == [begin |-> 1, end |-> 1]

QueryTypeOK ==
    /\ PoolTypeOK
    /\ corpus \in Corpora
    /\ terms \in SUBSET TermIds
    /\ rng \in TermRanges

QueryInit ==
    /\ PoolInit
    /\ corpus \in Corpora
    /\ terms = {}
    /\ rng = AnyRange

\* The call, with the terms parse collected and any range.
Ask(set) ==
    /\ StartQuery
    /\ terms' = set
    /\ rng' \in TermRanges
    /\ UNCHANGED corpus

\* What is gone when the query returns.
Forget ==
    /\ EndQuery
    /\ terms' = {}
    /\ rng' = AnyRange
    /\ UNCHANGED corpus

ExtractStrings == Forget /\ reply' = Extracted

-----------------------------------------------------------------------------

(***************************************************************************)
(* What heap_topk and minimal_docids::topk have in common: they answer a   *)
(* query of a single, unfinished token, for which there is nothing to      *)
(* intersect, with the k best completions that hold a term of its range.   *)
(* The lists of the terms of the range overlap, so a completion may come   *)
(* up more than once.                                                      *)
(***************************************************************************)

\* The query of a single token is being answered.
Merging == phase = "search" /\ terms = {}

\* Regression the checks must catch (never used by a specification): only the
\* last score is compared.
LastIsPresent(doc) == results > 1 /\ scores[results - 2] = doc

\* std::binary_search in the filled scores; they must be sorted for it
\* (ScoresSorted).
AlreadyPresent(doc) == doc \in Filled

\* A completion comes up: it is recorded unless it is present.
NoteNew(doc) == ~AlreadyPresent(doc) /\ Record(doc)
NotePresent(doc) == AlreadyPresent(doc) /\ UNCHANGED <<scores, results, k, reply>>

\* It is the last result wanted.
Completes(doc) == ~AlreadyPresent(doc) /\ results + 1 = k

-----------------------------------------------------------------------------

Target == IF phase = "idle" THEN {} ELSE Matches(corpus, terms, rng)

Promise == INSTANCE TopK
    WITH busy <- phase # "idle", target <- Target, answer <- reply

\* Conjunctive search answers with the k best completions that hold all known
\* terms and a term of the range, each one once, the best first.
RefinesTopK == Promise!Spec

=============================================================================

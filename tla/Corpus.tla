------------------------------- MODULE Corpus -------------------------------
(***************************************************************************)
(* The indexed collection as the query algorithms see it.                  *)
(*                                                                         *)
(* A completion is known by its identifier, which is also its score: the   *)
(* smaller, the better.  The order of the terms inside a completion plays  *)
(* no role in conjunctive search, so a completion is the set of its terms. *)
(***************************************************************************)
EXTENDS Postings

CONSTANT NumTerms  \* parameters::num_terms

ASSUME NumTermsAssumption == NumTerms \in Nat \ {0}

\* 0 is the terminator: the indexes and the dictionary count terms from 1.
TermIds == 1 .. NumTerms

\* What the files of the collection may hold: every term of the dictionary
\* comes from some completion.  An identifier below the greatest may be unused
\* (no terms), when completions were filtered out of the collection.
Corpora ==
    {corpus \in [DocIds -> SUBSET TermIds] :
        /\ corpus[NumDocs - 1] # {}
        /\ \A t \in TermIds : \E d \in DocIds : t \in corpus[d]}

\* The list of the inverted index for a term.
Posting(corpus, term) == {d \in DocIds : term \in corpus[d]}

\* A valid range of terms; both ends belong to it.
TermRanges == {r \in [begin : TermIds, end : TermIds] : r.begin <= r.end}

\* Regression the checks must catch (never used by a specification): the end
\* of a range is taken as exclusive.
HalfOpenContains(r, term) == r.begin <= term /\ term < r.end

\* range::contains
Contains(r, term) == r.begin <= term /\ term <= r.end

\* forward_index::intersects: does the completion hold a term of the range?
Intersects(corpus, doc, r) == \E t \in corpus[doc] : Contains(r, t)

\* The completions a conjunctive query asks for: they hold every term of the
\* prefix and a term the last, unfinished token may become.
Matches(corpus, terms, r) ==
    {d \in DocIds : /\ terms \subseteq corpus[d]
                    /\ \E t \in r.begin .. r.end : t \in corpus[d]}

=============================================================================

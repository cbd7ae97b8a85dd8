---------------------------- MODULE ForwardTopk ----------------------------
(***************************************************************************)
(* autocomplete::conjunctive_topk (index type 1) for a query with at least *)
(* one known term before the last token: the intersection of the posting   *)
(* lists of these terms proposes completions in ascending order, and the   *)
(* forward index tells which hold a term of the suffix range.              *)
(*                                                                         *)
(* The iterator of module Intersection runs inside a query.  For one term  *)
(* the code takes the plain iterator of its list, which an intersection of *)
(* one list is: its rounds end at once.                                    *)
(***************************************************************************)
EXTENDS Intersection, ConjunctiveQuery

searchVars == <<vars, queryVars>>

SearchTypeOK == TypeOK /\ QueryTypeOK

SearchInit == Init /\ QueryInit

\* The terms parse may collect from a query, repetitions included.
Prefixes == UNION {[1 .. n -> TermIds] : n \in 1 .. MaxTerms}

\* The orders in which the lists of a set of terms may be taken.
Orders(set) ==
    {order \in [1 .. Cardinality(set) -> set] : Range(order) = set}

\* deduplicate and the construction of the iterator.
Query ==
    \E prefix \in Prefixes :
        /\ Ask(Range(prefix))
        /\ \E order \in Orders(Range(prefix)) :
            LET ls == [i \in DOMAIN order |-> Posting(corpus, order[i])]
            IN  ShortestFirst(ls) /\ ConstructOn(ls)

\* The iterator runs inside its next().
Iterate ==
    /\ Agree \/ Disagree \/ Return
    /\ UNCHANGED queryVars

Found ==
    /\ phase = "search"
    /\ pc = "at"
    /\ HasNext(cand)

Hit == Found /\ Intersects(corpus, cand, rng)

\* The completion holds no term of the range.
Skip ==
    /\ Found
    /\ ~Intersects(corpus, cand, rng)
    /\ Advance
    /\ UNCHANGED queryVars

\* Regression the checks must catch (never used by the specification): the
\* loop does not stop at k results.
KeepOn ==
    /\ Hit
    /\ Record(cand)
    /\ Advance
    /\ UNCHANGED <<phase, corpus, terms, rng>>

Keep ==
    /\ Hit
    /\ results + 1 # k
    /\ Record(cand)
    /\ Advance
    /\ UNCHANGED <<phase, corpus, terms, rng>>

\* The last result wanted: the loop breaks.
KeepLast ==
    /\ Hit
    /\ results + 1 = k
    /\ Record(cand)
    /\ Drop
    /\ phase' = "extract"
    /\ UNCHANGED <<corpus, terms, rng>>

Exhausted ==
    /\ phase = "search"
    /\ pc = "at"
    /\ ~HasNext(cand)
    /\ Drop
    /\ phase' = "extract"
    /\ UNCHANGED <<scores, k, results, reply, corpus, terms, rng>>

Answered == ExtractStrings /\ UNCHANGED vars

Run == Iterate \/ Skip \/ Keep \/ KeepLast \/ Exhausted \/ Answered

SearchNext == Query \/ Run

SearchSpec == SearchInit /\ [][SearchNext]_searchVars

-----------------------------------------------------------------------------

\* While a query with known terms runs, the scores it has filled are exactly
\* the matching completions the iterator has left behind, and when it has
\* stopped before k nothing that matches is missing.
ScoresComplete ==
    terms # {} =>
        /\ phase = "search" => Filled = Target \cap Range(out)
        /\ phase = "extract" /\ results < k => Filled = Target

=============================================================================

------------------------------ MODULE Postings ------------------------------
(***************************************************************************)
(* Posting lists and the cursors over them.                                *)
(*                                                                         *)
(* A posting list is the non-empty set of the identifiers of the           *)
(* completions that contain one term.  Its iterator shows one value at a   *)
(* time: a member of the list, or the universe NumDocs once the list is    *)
(* exhausted.  This module says what the operations of an iterator return; *)
(* modules UncompressedList and EliasFano show how the two list types do.  *)
(***************************************************************************)
EXTENDS Naturals, FiniteSets, Functions

CONSTANT NumDocs  \* parameters::universe, the number of completions

ASSUME NumDocsAssumption == NumDocs \in Nat \ {0}

DocIds == 0 .. NumDocs - 1

\* Every term of the dictionary occurs in some completion.
PostingLists == (SUBSET DocIds) \ {{}}

\* What operator* of an iterator may return; NumDocs stands for "exhausted".
CursorValues == 0 .. NumDocs

\* The least member of a non-empty set of numbers.
Least(S) == CHOOSE x \in S : \A y \in S : x <= y

\* access(0), the value a new iterator shows.
First(list) == Least(list)

\* Regressions the checks must catch (never used by a specification): the
\* sentinel overshoots the universe; next() does not move.
OvershootingNextGeq(list, lower) ==
    IF \E d \in list : d >= lower THEN Least({d \in list : d >= lower})
                                  ELSE NumDocs + 1
StuckNextAfter(list, shown) ==
    IF \E d \in list : d >= shown THEN Least({d \in list : d >= shown})
                                  ELSE NumDocs

\* The least member of the list that is at least lower, or NumDocs.
NextGeq(list, lower) ==
    IF \E d \in list : d >= lower THEN Least({d \in list : d >= lower})
                                  ELSE NumDocs

\* Regression, as above: next() passes over a value.
SkippingNextAfter(list, shown) == NextGeq(list, shown + 2)

\* next(): the value after the one the cursor shows.
NextAfter(list, shown) == NextGeq(list, shown + 1)

\* has_next()
HasNext(shown) == shown < NumDocs

\* The identifiers that every list of the sequence holds.
Common(lists) == {d \in DocIds : \A i \in DOMAIN lists : d \in lists[i]}

\* A sequence of identifiers in strictly ascending order.
Ascending(seq) ==
    \A i, j \in DOMAIN seq : i < j => seq[i] < seq[j]

=============================================================================

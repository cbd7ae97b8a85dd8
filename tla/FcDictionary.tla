---------------------------- MODULE FcDictionary ----------------------------
(***************************************************************************)
(* fc_dictionary, the dictionary of the terms, and integer_fc_dictionary,  *)
(* which holds the completions of index types 2, 3 and 4: what each does   *)
(* on top of module FrontCoding.                                           *)
(***************************************************************************)
EXTENDS FrontCoding

\* locate(): the identifier of a term, counted from 1.
Locate(dict, t) ==
    LET b == LocateBucket(dict, t)
        found == Positions(dict, b, t)
    IN  IF found = {} THEN InvalidTerm ELSE b * Span + 1 + Min(found)

\* left_locate(): the first string of the bucket with prefix p, which is one
\* past the last if there is none.
LeftLocateTerm(dict, b, p) ==
    LET n == Len(dict[b].rest)
    IN  Min({i \in 1 .. n : CompareHead(Decoded(dict, b, i), p) = 0} \cup {n + 1})

\* The first bucket whose header is not before all strings with prefix p.
FirstHeader(dict, p) ==
    Halving(0, LastBucket(dict),
            {b \in DOMAIN dict : CompareHead(Header(dict, b), p) < 0})

\* Regression the checks must catch (never used by a specification): the
\* strings that come before the first header with the prefix are left out.
LeftAtHeader(dict, p) ==
    LET lo == FirstHeader(dict, p) IN IF lo \in DOMAIN dict THEN lo ELSE lo - 1

\* locate_buckets(): the bucket of the first string with prefix p, ...
LeftBucket(dict, p) ==
    LET lo == FirstHeader(dict, p)
    IN  IF lo = 0 \/ (lo \in DOMAIN dict /\ Header(dict, lo) = p) THEN lo ELSE lo - 1

\* ... and the bucket of the last, which is the same if the next header is
\* past them all.
RightBucket(dict, p) ==
    LET left == LeftBucket(dict, p)
    IN  IF left = LastBucket(dict) \/ CompareHead(Header(dict, left + 1), p) > 0
        THEN left
        ELSE Halving(left, LastBucket(dict),
                     {b \in DOMAIN dict : CompareHead(Header(dict, b), p) <= 0}) - 1

\* locate_prefix(): the terms that begin with p, counted from 0, both ends
\* included.  size is m_size.
LocateTerms(dict, size, p) ==
    LET left == LeftBucket(dict, p)
        right == RightBucket(dict, p)
        begin == left * Span +
                 (IF Header(dict, left) = p THEN 0 ELSE LeftLocateTerm(dict, left, p))
        end == right * Span + RightLocate(dict, right, p)
    IN  IF p = <<>> THEN [begin |-> 0, end |-> size - 1]
        ELSE IF end < begin THEN InvalidRange
        ELSE [begin |-> begin, end |-> end]

-----------------------------------------------------------------------------

\* The other dictionary, integer_fc_dictionary.

\* left_locate(): the first string of the bucket that is not before all those
\* with prefix p, which is one past the last if there is none.
LeftLocateList(dict, b, p) ==
    LET n == Len(dict[b].rest)
    IN  Min({i \in 1 .. n : CompareHead(Decoded(dict, b, i), p) >= 0} \cup {n + 1})

\* locate_right_bucket(), from the bucket found for the other end on.
LocateRightBucket(dict, p, hint) ==
    Max({0, Halving(hint, LastBucket(dict),
                    {b \in DOMAIN dict : CompareHead(Header(dict, b), p) <= 0}) - 1})

\* What the right end is searched with: to a range of one term the code adds
\* what is after all terms.
RightEnd(prefix, r) ==
    Append(prefix, r.end) \o (IF r.begin = r.end THEN <<InvalidTerm>> ELSE <<>>)

\* locate_prefix(): the completions that begin with the prefix and go on with
\* a term of the range, counted from 0, the end not included.
LocateLists(dict, prefix, r) ==
    LET c == Append(prefix, r.begin)
        e == RightEnd(prefix, r)
        left == LocateBucket(dict, c)
        right == LocateRightBucket(dict, e, left)
        begin == left * Span +
                 (IF Header(dict, left) = c THEN 0 ELSE LeftLocateList(dict, left, c))
        end == right * Span + RightLocate(dict, right, e)
    IN  IF end < begin THEN InvalidRange ELSE [begin |-> begin, end |-> end + 1]

=============================================================================

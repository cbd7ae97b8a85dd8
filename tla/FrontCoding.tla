---------------------------- MODULE FrontCoding ----------------------------
(***************************************************************************)
(* What fc_dictionary and integer_fc_dictionary have in common: sorted     *)
(* strings in buckets.  The first string of a bucket is its header; each   *)
(* of the others is stored as the length of what it has in common with     *)
(* the one before, and the rest.  A dictionary is a function from the      *)
(* numbers of its buckets; strings are counted from 0, as in the code.     *)
(***************************************************************************)
EXTENDS Strings

CONSTANTS
    BucketSize,   \* the strings of a bucket besides its header
    InvalidTerm   \* global::invalid_term_id, 2^32 - 1: greater than any term

ASSUME BucketSizeAssumption == BucketSize \in Nat \ {0}
ASSUME InvalidTermAssumption == InvalidTerm \in Nat

Span == BucketSize + 1

\* How many buckets the builder makes of n strings.
NumBuckets(n) == (n + BucketSize) \div Span

\* tail: how many strings it reads into the last bucket besides the header.
LastSize(n) == IF n % Span = 0 THEN 0 ELSE (n % Span) - 1

\* bucket_size()
SizeOf(n, b) == IF b # NumBuckets(n) - 1 THEN BucketSize ELSE LastSize(n)

\* The strings the builder never reads, counted from 1: tail is 0 when the last
\* bucket is full, and then those behind its header are left out.
Lost(n) == IF n % Span = 0 THEN n - BucketSize + 1 .. n ELSE {}

\* write()
Coded(prev, curr) ==
    [lcp |-> Lcp(curr, prev), rest |-> SubSeq(curr, Lcp(curr, prev) + 1, Len(curr))]

\* The builder: buckets are read one after the other from the sorted file.
FrontCoded(strings) ==
    [b \in 0 .. NumBuckets(Len(strings)) - 1 |->
        LET first == b * Span + 1
        IN  [header |-> strings[first],
             rest |-> [i \in 1 .. SizeOf(Len(strings), b) |->
                          Coded(strings[first + i - 1], strings[first + i])]]]

LastBucket(dict) == Max(DOMAIN dict)
Header(dict, b) == dict[b].header

\* Regression the checks must catch (never used by a specification): what a
\* string has in common is taken from the header, not from the string before.
DecodedFromHeader(dict, b, i) ==
    IF i = 0 THEN Header(dict, b)
    ELSE LET coded == dict[b].rest[i]
         IN  SubSeq(Header(dict, b), 1, coded.lcp) \o coded.rest

\* The buffer after i calls of decode() in a bucket, the header before them.
Decoded(dict, b, i) ==
    LET coded == dict[b].rest
        At[j \in 0 .. i] ==
            IF j = 0 THEN Header(dict, b)
            ELSE SubSeq(At[j - 1], 1, coded[j].lcp) \o coded[j].rest
    IN  At[i]

\* locate_bucket(): the last bucket whose header is not after the string.  (A
\* header that equals it ends the loop of the code early, in the same bucket.)
LocateBucket(dict, t) ==
    Max({0, Halving(0, LastBucket(dict),
                    {b \in DOMAIN dict : Compare(Header(dict, b), t) <= 0}) - 1})

\* The scan of locate(): the position of the string in its bucket.
Positions(dict, b, t) == {i \in 0 .. Len(dict[b].rest) : Decoded(dict, b, i) = t}

\* The scan of right_locate(): the strings of the bucket before the first
\* that is after all strings with prefix p.
RightLocate(dict, b, p) ==
    LET n == Len(dict[b].rest)
    IN  Min({i \in 1 .. n : CompareHead(Decoded(dict, b, i), p) > 0} \cup {n + 1}) - 1

\* extract().  The padding after the last bucket decodes to empty strings.
Extract(dict, id) ==
    LET b == id \div Span
    IN  IF id % Span <= Len(dict[b].rest) THEN Decoded(dict, b, id % Span) ELSE <<>>

=============================================================================

------------------------------ MODULE Strings ------------------------------
(***************************************************************************)
(* Terms are sequences of characters, completions are sequences of terms;  *)
(* both are strings here, over symbols that are numbers, and both are      *)
(* compared in the same way (byte_range_compare, uint32_range_compare).    *)
(***************************************************************************)
EXTENDS Integers, Sequences, FiniteSetsExt

\* The length of the longest common prefix.
Lcp(s, t) ==
    Max({n \in 0 .. Min({Len(s), Len(t)}) : SubSeq(s, 1, n) = SubSeq(t, 1, n)})

Before(s, t) ==
    LET l == Lcp(s, t)
    IN  /\ l < Len(t)
        /\ l = Len(s) \/ (l < Len(s) /\ s[l + 1] < t[l + 1])

\* The sign of the comparison of two strings.
Compare(s, t) == IF s = t THEN 0 ELSE IF Before(s, t) THEN -1 ELSE 1

\* The comparison with p of as many first symbols of s as p has.
CompareHead(s, p) == Compare(SubSeq(s, 1, Min({Len(s), Len(p)})), p)

\* Distinct strings in order.
Sorted(strings) ==
    \A i, j \in DOMAIN strings : i < j => Before(strings[i], strings[j])

\* The members of a sequence at some positions, in their order: what a loop
\* that appends those and passes over the others makes of it.
Kept(s, positions) ==
    LET K[n \in 0 .. Len(s)] ==
            IF n = 0 THEN <<>>
            ELSE IF n \in positions THEN Append(K[n - 1], s[n]) ELSE K[n - 1]
    IN  K[Len(s)]

\* The loop that halves lo .. hi and goes right at the positions of a set:
\* where it ends is the first position from which it would go left.
Halving(lo, hi, right) ==
    LET From[s \in (lo .. hi + 1) \X (lo - 1 .. hi)] ==
            LET l == s[1]
                h == s[2]
                mi == (l + h) \div 2
            IN  IF l > h THEN l
                ELSE IF mi \in right THEN From[<<mi + 1, h>>] ELSE From[<<l, mi - 1>>]
    IN  From[<<lo, hi>>]

\* global::invalid_range, and what range::is_invalid says.
InvalidRange == [begin |-> 1, end |-> 0]
IsInvalid(r) == r.begin > r.end

=============================================================================

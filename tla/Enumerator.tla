----------------------------- MODULE Enumerator -----------------------------
(***************************************************************************)
(* bit_vector::unary_iterator as the encodings see it: it stands at a bit  *)
(* of a vector v, whose ones are v.ones, and moves from one to one.  Ones  *)
(* before `unread` are consumed.  Module BitStreams shows that the real    *)
(* one, which buffers a word, does the same.                               *)
(***************************************************************************)
EXTENDS Naturals, FiniteSets

\* The member of a set of numbers that has i others before it.
Nth(S, i) == CHOOSE x \in S : Cardinality({y \in S : y < x}) = i

EnumeratorAt(bit) == [at |-> bit, unread |-> bit]

\* The one that next() yields when it has been called i times before.
NextOne(v, e, i) == Nth({b \in v.ones : b >= e.unread}, i)

Skipped(v, e, ones) == EnumeratorAt(NextOne(v, e, ones))

\* Regression the checks must catch (never used by a specification): the one
\* that is consumed already is not counted as a zero.
SkippedZerosOnly(v, e, zeros) ==
    EnumeratorAt(Nth({b \in e.at .. e.at + zeros + v.size + 1 : b \notin v.ones}, zeros))

\* skip0(): to a zero; a consumed one counts as a zero, and stays consumed.
SkippedZeros(v, e, zeros) ==
    LET zero == Nth({b \in e.at .. e.at + zeros + v.size : b < e.unread \/ b \notin v.ones}, zeros)
    IN  [at |-> zero, unread |-> IF zero < e.unread THEN e.unread ELSE zero]

=============================================================================

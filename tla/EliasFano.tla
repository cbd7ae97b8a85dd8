----------------------------- MODULE EliasFano -----------------------------
(***************************************************************************)
(* compact_ef: a posting list in the encoding of Elias and Fano, and the   *)
(* cursor over it, which the indexes of types.hpp use.                     *)
(*                                                                         *)
(* The high bits of the identifiers are a bit vector: the i-th identifier  *)
(* is a one that has as many zeros before it as its high part says, and    *)
(* one more.  A cursor reads it forward with an enumerator of its ones; it *)
(* may jump to where a pointer shows, for every so many zeros (pointers0)  *)
(* or ones (pointers1).  The words the bits are packed in are left out.    *)
(***************************************************************************)
EXTENDS Postings, Enumerator, Integers

CONSTANTS
    LogSampling0,     \* ef_log_sampling0
    LogSampling1,     \* ef_log_sampling1
    EfScanThreshold   \* compact_ef::iterator::linear_scan_threshold

ASSUME EliasFanoAssumption ==
    {LogSampling0, LogSampling1, EfScanThreshold} \subseteq Nat

Msb(x) == CHOOSE i \in 0 .. x : 2 ^ i <= x /\ x < 2 ^ (i + 1)

LowerBits(n) == IF NumDocs > n THEN Msb(NumDocs \div n) ELSE 0

\* build(): a list of n identifiers, with a zero at both ends.  A pointer to
\* a zero is written with the run of zeros it is in, before the i-th one;
\* pointer 0, and those that are not written, read as 0.
Encoded(a, n) ==
    LET lower == LowerBits(n)
        length == n + (NumDocs \div 2 ^ lower) + 2
        high == [i \in 0 .. n - 1 |-> (a[i] \div 2 ^ lower) + i + 1]
        runBegin(i) == IF i = 0 THEN 1 ELSE high[i - 1] + 1
        runEnd(i) == IF i = n THEN length ELSE high[i]
        runs(zero) == {i \in 0 .. n : runBegin(i) - i <= zero /\ zero < runEnd(i) - i}
    IN  [size |-> n,
         lower |-> lower,
         ones |-> {high[i] : i \in 0 .. n - 1},
         low |-> [i \in 0 .. n - 1 |-> a[i] % 2 ^ lower],
         pointers0 |-> [p \in 0 .. (length - n) \div 2 ^ LogSampling0 |->
                           LET zero == p * 2 ^ LogSampling0
                           IN  IF p = 0 \/ runs(zero) = {} THEN 0 ELSE zero + Least(runs(zero))],
         pointers1 |-> [p \in 0 .. n \div 2 ^ LogSampling1 |->
                           LET i == p * 2 ^ LogSampling1
                           IN  IF p = 0 \/ i = n THEN 0 ELSE high[i]]]

-----------------------------------------------------------------------------

\* The value at a position whose one stands at a bit.
ValueOf(v, bit, pos) == (bit - pos - 1) * 2 ^ v.lower + v.low[pos]

\* The cursor with the first value from a position on that is not below a
\* bound; the enumerator's next one is that of the position.
ReadFrom(v, e, first, bound) ==
    LET value(p) == ValueOf(v, NextOne(v, e, p - first), p)
        found == {p \in first .. v.size - 1 : value(p) >= bound}
        last == IF found = {} THEN v.size - 1 ELSE Least(found)
        bit == NextOne(v, e, last - first)
    IN  [pos |-> IF found = {} THEN v.size ELSE last,
         value |-> IF found = {} THEN NumDocs ELSE value(last),
         high |-> IF first > last THEN e ELSE [at |-> bit, unread |-> bit + 1]]

\* next(), operator++
Advanced(v, c) == ReadFrom(v, c.high, c.pos + 1, 0)

Exhausted(v, c) == [pos |-> v.size, value |-> NumDocs, high |-> c.high]

\* slow_access(): the enumerator at the one of a position, which is reached
\* from the current one if no pointer lies between, else from a pointer.
SlowStart(v, c, position) ==
    LET skip == position - c.pos
        ptr == position \div 2 ^ LogSampling1
    IN  IF position > c.pos /\ skip < 2 ^ LogSampling1
        THEN Skipped(v, c.high, skip - 1)
        ELSE Skipped(v, EnumeratorAt(v.pointers1[ptr]), position - ptr * 2 ^ LogSampling1)

\* access()
Accessed(v, c, position) ==
    LET near == position > c.pos /\ position - c.pos <= EfScanThreshold
        start == IF near THEN Skipped(v, c.high, position - c.pos - 1)
                 ELSE SlowStart(v, c, position)
    IN  IF position = v.size THEN Exhausted(v, c) ELSE ReadFrom(v, start, position, 0)

\* A new cursor.
Opened(v) == Accessed(v, [pos |-> 0, value |-> 0, high |-> EnumeratorAt(0)], 0)

\* next_geq_by_scan()
ScannedGeq(v, c, bound) ==
    IF c.pos = v.size \/ c.value >= bound THEN c ELSE ReadFrom(v, c.high, c.pos + 1, bound)

\* slow_next_geq(): as many zeros come before a value as its high part says.
SlowGeq(v, c, bound) ==
    LET high == bound \div 2 ^ v.lower
        diff == high - (c.value \div 2 ^ v.lower)
        ptr == high \div 2 ^ LogSampling0
        zero == IF bound > c.value /\ diff < 2 ^ LogSampling0
                THEN SkippedZeros(v, c.high, diff)
                ELSE SkippedZeros(v, EnumeratorAt(v.pointers0[ptr]), high - ptr * 2 ^ LogSampling0)
    IN  IF bound >= NumDocs THEN Exhausted(v, c)
        ELSE ReadFrom(v, zero, zero.at - high, bound)

\* next_geq(): a value that is near is read for, any other is sought.
SoughtGeq(v, c, bound) ==
    IF /\ bound > c.value
       /\ (bound \div 2 ^ v.lower) - (c.value \div 2 ^ v.lower) <= EfScanThreshold
    THEN ReadFrom(v, c.high, c.pos + 1, bound)
    ELSE SlowGeq(v, c, bound)

=============================================================================
